------------------------------- MODULE ESTimer -------------------------------
(***************************************************************************)
(* The timers of ESTimer.cpp.  One timer thread keeps the priority queue;  *)
(* the threads that own timers talk to it, and it to them, by the FIFO     *)
(* message queues of ESThread::callInThread.                               *)
(*                                                                         *)
(* The race the code documents above ESTimerThread::release is the reason  *)
(* for the counters: a notification and a release may cross, and whoever   *)
(* comes second must not find the timer deleted.                           *)
(*                                                                         *)
(* ES_SELECT_USES_CONTINUOUS_TIME is 1: fire times are continuous times.   *)
(***************************************************************************)
EXTENDS Integers, Sequences

CONSTANTS
  Timers,     \* the ESTimer objects
  Threads,    \* the threads timers are activated in
  ThreadOf,   \* the thread that uses a timer
  NoTimer,    \* the timer of a message that is about none
  AtTime,     \* the _atTime each is constructed with
  Absolute,   \* the timers with an absolute time (not _useContinuousTime)
  Repeat,     \* _repeatEverySeconds, 0 for never
  Skews,      \* the skews the time source may report
  MaxClock,   \* bound: the continuous time stops here
  MaxResets   \* bound: continuous-time resets not yet seen by the timer thread

ASSUME TimersAssumption ==
  /\ NoTimer \notin Timers
  /\ ThreadOf \in [Timers -> Threads]
  /\ AtTime \in [Timers -> Int]
  /\ Absolute \subseteq Timers
  /\ Repeat \in [Timers -> Nat]
ASSUME TimeAssumption ==
  Skews \subseteq Int /\ MaxClock \in Nat /\ MaxResets \in Nat

VARIABLES
  started,        \* timers whose _notificationThread is set
  releasePending, \* timers whose _releasePending is set
  received,       \* _notificationsReceived
  notified,       \* calls of the observer's notify
  inbox,          \* per thread: notifications on their way
  timerInbox,     \* calls on their way to the timer thread
  queued,         \* timerPriorityQueue
  activated,      \* timers whose _activated is set
  sent,           \* _notificationsSent
  atTime,         \* _atTime
  fireTime,       \* _fireTime
  deleted,        \* timers whose storage is gone
  firing,         \* the timer thread is in fireLapsedTimers
  now,            \* the time fireLapsedTimers started with
  passed,         \* timers it has put back behind its iterator
  clock,          \* environment: ESTime::currentContinuousTime
  skew            \* environment: the skew of the time source

ownerVars  == <<started, releasePending, received, notified, inbox>>
threadVars == <<queued, activated, sent, atTime, fireTime, deleted>>
scanVars   == <<firing, now, passed>>
timeVars   == <<clock, skew>>

vars == <<ownerVars, timerInbox, threadVars, scanVars, timeVars>>

Messages ==
  [kind : {"activate", "release", "recalculate"},
   timer : Timers \union {NoTimer}, count : Nat]

\* The number is not in the message: it says which notification it is.
Notifications == [timer : Timers, number : Nat]

Init ==
  /\ started = {} /\ releasePending = {}
  /\ received = [t \in Timers |-> 0] /\ notified = [t \in Timers |-> 0]
  /\ inbox = [h \in Threads |-> <<>>] /\ timerInbox = <<>>
  /\ queued = {} /\ activated = {} /\ deleted = {}
  /\ sent = [t \in Timers |-> 0]
  /\ atTime = AtTime /\ fireTime = [t \in Timers |-> 0]
  /\ firing = FALSE /\ now = 0 /\ passed = {}
  /\ clock = 0 /\ skew \in Skews

-----------------------------------------------------------------------------
(* The threads that own timers. *)

\* ESThread::callInThread on the timer thread.
Tell(kind, t, count) ==
  timerInbox' = Append(timerInbox, [kind |-> kind, timer |-> t, count |-> count])

\* ESTimer::activate.
Activate(t) ==
  /\ t \notin started /\ t \notin releasePending
  /\ started' = started \union {t}
  /\ Tell("activate", t, 0)
  /\ UNCHANGED <<releasePending, received, notified, inbox, threadVars, scanVars, timeVars>>

\* ESTimer::release: before or after activate, once.
Release(t) ==
  /\ t \notin releasePending
  /\ releasePending' = releasePending \union {t}
  /\ Tell("release", t, received[t])
  /\ UNCHANGED <<started, received, notified, inbox, threadVars, scanVars, timeVars>>

\* Mutants of ReceiveNotification: a notification after the release does not
\* repeat the release; it is passed on all the same; the count of what was
\* received goes down instead of up.
ReceiveNotification_Silent(h) ==
  /\ inbox[h] # <<>>
  /\ LET t == Head(inbox[h]).timer IN
       /\ inbox' = [inbox EXCEPT ![h] = Tail(@)]
       /\ received' = [received EXCEPT ![t] = @ + 1]
       /\ notified' = IF t \in releasePending THEN notified
                      ELSE [notified EXCEPT ![t] = @ + 1]
  /\ UNCHANGED <<timerInbox, started, releasePending, threadVars, scanVars, timeVars>>

ReceiveNotification_Notifies(h) ==
  /\ inbox[h] # <<>>
  /\ LET t == Head(inbox[h]).timer IN
       /\ inbox' = [inbox EXCEPT ![h] = Tail(@)]
       /\ received' = [received EXCEPT ![t] = @ + 1]
       /\ IF t \in releasePending
          THEN Tell("release", t, received[t] + 1)
          ELSE UNCHANGED timerInbox
       /\ notified' = [notified EXCEPT ![t] = @ + 1]
  /\ UNCHANGED <<started, releasePending, threadVars, scanVars, timeVars>>

ReceiveNotification_CountsDown(h) ==
  /\ inbox[h] # <<>>
  /\ LET t == Head(inbox[h]).timer IN
       /\ inbox' = [inbox EXCEPT ![h] = Tail(@)]
       /\ received' = [received EXCEPT ![t] = @ - 1]
       /\ IF t \in releasePending
          THEN Tell("release", t, received[t] - 1) /\ UNCHANGED notified
          ELSE notified' = [notified EXCEPT ![t] = @ + 1] /\ UNCHANGED timerInbox
  /\ UNCHANGED <<started, releasePending, threadVars, scanVars, timeVars>>

\* ESTimer::receiveNotificationMessage: notify, or ask for the release again.
ReceiveNotification(h) ==
  /\ inbox[h] # <<>>
  /\ LET t == Head(inbox[h]).timer IN
       /\ inbox' = [inbox EXCEPT ![h] = Tail(@)]
       /\ received' = [received EXCEPT ![t] = @ + 1]
       /\ IF t \in releasePending
          THEN Tell("release", t, received[t] + 1) /\ UNCHANGED notified
          ELSE notified' = [notified EXCEPT ![t] = @ + 1] /\ UNCHANGED timerInbox
  /\ UNCHANGED <<started, releasePending, threadVars, scanVars, timeVars>>

-----------------------------------------------------------------------------
(* The timer thread. *)

\* ESTimer::calculateFireTime; ESTime::cTimeForNTPTime for an absolute time.
FireTimeFor(t, time) == IF t \in Absolute THEN time - skew ELSE time

\* processInterThreadMessages: the next call is one of this kind.
NextMessage(kind) ==
  /\ ~firing
  /\ timerInbox # <<>> /\ Head(timerInbox).kind = kind
  /\ timerInbox' = Tail(timerInbox)

\* ESTimerThread::activate.
HandleActivate ==
  /\ NextMessage("activate")
  /\ LET t == Head(timerInbox).timer IN
       /\ fireTime' = [fireTime EXCEPT ![t] = FireTimeFor(t, atTime[t])]
       /\ queued' = queued \union {t}
       /\ activated' = activated \union {t}
  /\ UNCHANGED <<ownerVars, sent, atTime, deleted, scanVars, timeVars>>

\* Mutant of EqualKeys: everything up to the key goes.
EqualKeys_UpTo(t) == {u \in queued : fireTime[u] <= fireTime[t]}

\* The timers multiset::erase removes for the key t: all that have t's fire
\* time, t or not.
EqualKeys(t) == {u \in queued : fireTime[u] = fireTime[t]}

\* Mutant of HandleRelease: it does not wait for the notifications on their
\* way.
HandleRelease_NoWait ==
  /\ NextMessage("release")
  /\ LET t == Head(timerInbox).timer IN
       /\ queued' = IF t \in activated THEN queued \ EqualKeys(t) ELSE queued
       /\ activated' = activated \ {t}
       /\ deleted' = deleted \union {t}
  /\ UNCHANGED <<ownerVars, sent, atTime, fireTime, scanVars, timeVars>>

\* ESTimerThread::release and deactivate: the timer is deleted unless one of
\* its notifications was on its way when the call was made.
HandleRelease ==
  /\ NextMessage("release")
  /\ LET t == Head(timerInbox).timer IN
       /\ queued' = IF t \in activated THEN queued \ EqualKeys(t) ELSE queued
       /\ activated' = activated \ {t}
       /\ deleted' = IF Head(timerInbox).count = sent[t]
                     THEN deleted \union {t} ELSE deleted
  /\ UNCHANGED <<ownerVars, sent, atTime, fireTime, scanVars, timeVars>>

\* ESTimerThread::recalculateAllFireTimes, which goes on to fire.
HandleRecalculate ==
  /\ NextMessage("recalculate")
  /\ fireTime' = [t \in Timers |-> IF t \in queued THEN FireTimeFor(t, atTime[t])
                                   ELSE fireTime[t]]
  /\ firing' = TRUE /\ now' = clock
  /\ UNCHANGED <<ownerVars, queued, activated, sent, atTime, deleted, passed, timeVars>>

HandleMessage == HandleActivate \/ HandleRelease \/ HandleRecalculate

\* select has timed out: fireLapsedTimers begins.  A pass that would find
\* nothing is left out.
BeginFiring ==
  /\ ~firing
  /\ \E t \in queued : fireTime[t] < clock
  /\ firing' = TRUE /\ now' = clock
  /\ UNCHANGED <<ownerVars, timerInbox, threadVars, passed, timeVars>>

\* The timers the iterator has still to visit.
Ahead == queued \ passed

\* The iterator is at t: no timer ahead of it has an earlier fire time.
AtIterator(t) ==
  /\ firing
  /\ t \in Ahead /\ \A u \in Ahead : fireTime[t] <= fireTime[u]
  /\ fireTime[t] < now

\* deliverNotification.
Deliver(t) ==
  /\ sent' = [sent EXCEPT ![t] = @ + 1]
  /\ inbox' = [inbox EXCEPT ![ThreadOf[t]] =
                 Append(@, [timer |-> t, number |-> sent[t] + 1])]

\* A timer that does not repeat fires and leaves the queue.
FireOnce(t) ==
  /\ AtIterator(t) /\ Repeat[t] = 0
  /\ Deliver(t)
  /\ queued' = queued \ {t} /\ activated' = activated \ {t}
  /\ UNCHANGED <<started, releasePending, received, notified, timerInbox, atTime,
                 fireTime, deleted, scanVars, timeVars>>

\* A repeating timer fires and is put back; the iterator had already moved to
\* the next timer, and does not see it again if it is put before that one.
FireRepeating(t) ==
  /\ AtIterator(t) /\ Repeat[t] # 0
  /\ Deliver(t)
  /\ atTime' = [atTime EXCEPT ![t] = @ + Repeat[t]]
  /\ fireTime' = [fireTime EXCEPT ![t] = FireTimeFor(t, atTime[t] + Repeat[t])]
  /\ passed' = IF \A u \in Ahead \ {t} : fireTime'[t] < fireTime[u]
               THEN passed \union {t} ELSE passed
  /\ UNCHANGED <<started, releasePending, received, notified, timerInbox, queued,
                 activated, deleted, firing, now, timeVars>>

\* Mutant of EndFiring: timers put back are never looked at again.
EndFiring_KeepsPassed ==
  /\ firing
  /\ \A t \in Ahead : ~AtIterator(t)
  /\ firing' = FALSE
  /\ UNCHANGED <<ownerVars, timerInbox, threadVars, passed, now, timeVars>>

\* The iterator has come to a timer that is not due, or to the end.
EndFiring ==
  /\ firing
  /\ \A t \in Ahead : ~AtIterator(t)
  /\ firing' = FALSE /\ passed' = {}
  /\ UNCHANGED <<ownerVars, timerInbox, threadVars, now, timeVars>>

FireLapsedTimers == EndFiring \/ \E t \in Timers : FireOnce(t) \/ FireRepeating(t)

-----------------------------------------------------------------------------
(* Time. *)

Tick ==
  /\ clock < MaxClock
  /\ clock' = clock + 1
  /\ UNCHANGED <<ownerVars, timerInbox, threadVars, scanVars, skew>>

\* The time source has a new skew.  The timer thread's observer does nothing.
SyncValueChanged ==
  /\ skew' \in Skews
  /\ UNCHANGED <<ownerVars, timerInbox, threadVars, scanVars, clock>>

\* The continuous time jumps, and the timer thread's observer is called.
ContinuousTimeReset ==
  /\ Len(SelectSeq(timerInbox, LAMBDA m : m.kind = "recalculate")) < MaxResets
  /\ clock' \in 0 .. MaxClock
  /\ Tell("recalculate", NoTimer, 0)
  /\ UNCHANGED <<ownerVars, threadVars, scanVars, skew>>

Next ==
  \/ \E t \in Timers : Activate(t) \/ Release(t)
  \/ \E h \in Threads : ReceiveNotification(h)
  \/ HandleMessage
  \/ BeginFiring
  \/ FireLapsedTimers
  \/ Tick \/ SyncValueChanged \/ ContinuousTimeReset

Spec == Init /\ [][Next]_vars

(***************************************************************************)
(* The timer thread loops (ESTimerThread::main): each round handles the    *)
(* messages and then fires, so neither is put off for ever (SF, as each    *)
(* disables the other while it goes on); the other threads process what is *)
(* sent to them; time passes.  Nothing forces a timer to be activated or   *)
(* released.                                                               *)
(***************************************************************************)
Fairness ==
  /\ SF_vars(HandleMessage)
  /\ SF_vars(BeginFiring)
  /\ WF_vars(FireLapsedTimers)
  /\ \A h \in Threads : WF_vars(ReceiveNotification(h))
  /\ WF_vars(Tick)

FairSpec == Spec /\ Fairness

-----------------------------------------------------------------------------
(* Properties. *)

TypeOK ==
  /\ started \subseteq Timers /\ releasePending \subseteq Timers
  /\ received \in [Timers -> Nat] /\ notified \in [Timers -> Nat]
  /\ inbox \in [Threads -> Seq(Notifications)]
  /\ timerInbox \in Seq(Messages)
  /\ queued \subseteq Timers /\ activated \subseteq Timers /\ deleted \subseteq Timers
  /\ sent \in [Timers -> Nat]
  /\ atTime \in [Timers -> Int] /\ fireTime \in [Timers -> Int]
  /\ firing \in BOOLEAN /\ now \in Int /\ passed \subseteq Timers
  /\ clock \in Int /\ skew \in Int

\* However notifications and releases cross, no message on its way refers to
\* a timer that has been deleted, and the queue holds none (the race above
\* ESTimerThread::release, and the destructor's assertion ! _activated).
NothingRefersToDeleted ==
  /\ \A i \in 1 .. Len(timerInbox) : timerInbox[i].timer \notin deleted
  /\ \A h \in Threads : \A i \in 1 .. Len(inbox[h]) : inbox[h][i].timer \notin deleted
  /\ deleted \intersect (queued \union activated) = {}

\* An owner has always been sent at least what it has received, and when the
\* counts agree nothing is on its way: the equality release() tests.
EqualCountsMeanNoneOnItsWay ==
  \A t \in Timers :
    /\ received[t] <= sent[t]
    /\ received[t] = sent[t] =>
         \A h \in Threads : \A i \in 1 .. Len(inbox[h]) : inbox[h][i].timer # t

\* The timers catch up with the clock: again and again there is no lapsed
\* timer in the queue, those put back behind the iterator included.
CatchesUp == []<>(\A t \in queued : fireTime[t] >= clock)

\* Where a timer is in its life, as its owner sees it.
TimerState ==
  [t \in Timers |-> IF t \in deleted THEN "deleted"
                    ELSE IF t \in releasePending THEN "released"
                    ELSE IF t \in started THEN "active" ELSE "new"]

Contract == INSTANCE TimerContract WITH
  Repeating <- {t \in Timers : Repeat[t] # 0}, state <- TimerState

\* ESTimer does only what its header promises: no notification after release,
\* one only of a timer that does not repeat, deletion once and after release.
KeepsContract == Contract!SafeSpec

\* And it deletes every released timer in the end: the owner goes on asking
\* until the counts agree.
FulfilsContract == Contract!Spec

\* "Notifications will be delivered ..., if release() isn't called first"
\* (ESTimer.hpp): once the clock is no longer set back, an activated timer
\* notifies its observer.
ActivatedNotifies ==
  <>[](clock = MaxClock) =>
    \A t \in Timers : t \in started ~> (notified[t] > 0 \/ t \in releasePending)
=============================================================================
