------------------------------ MODULE PoolHosts ------------------------------
(***************************************************************************)
(* The hosts of a sync of ESNTPDriver: names are resolved level by level,  *)
(* the sockets they resolve to wait in a priority queue ordered by round   *)
(* trip, and every answer, time-out or failure decides which socket is     *)
(* sent to next.  What the packets say, and the timers that begin and end  *)
(* the sync, are in the module NTPDriver.                                  *)
(*                                                                         *)
(* Everything happens in the driver thread.  An event's handler may call   *)
(* into the recursion sendPacket -> stateGotPacketSendError ->             *)
(* stateGotBadPacket -> sendPacketToFastestPoolHost -> sendPacket; `todo'  *)
(* is its call stack, and no event is handled until it is empty.           *)
(***************************************************************************)
EXTENDS Integers, Sequences, FiniteSets

CONSTANTS
  NumHosts,    \* _hostNameDescriptors.size()
  UserHosts,   \* those the user has added (_isUserHost)
  Proximity,   \* _proximity of each
  Sockets,     \* the addresses the names may resolve to
  HostOf,      \* the host of an address
  MaxMeasured, \* measured round trips are 1 .. MaxMeasured
  Modes,       \* the values of inPollingMode
  SendsFail,   \* socket(), connect() and send() may fail
  ThrottleBase,\* ES_THROTTLE_BASE_PACKETS
  MaxPackets,  \* bound: packets a socket is remembered to be waiting for
  MaxEntries   \* bound: entries of one socket in the queue

Hosts == 1 .. NumHosts

ASSUME HostsAssumption ==
  /\ NumHosts \in Nat
  /\ UserHosts \subseteq Hosts
  /\ Proximity \in [Hosts -> 0 .. 4]
  /\ IsFiniteSet(Sockets) /\ HostOf \in [Sockets -> Hosts]
ASSUME BoundsAssumption ==
  /\ Modes \subseteq BOOLEAN /\ SendsFail \in BOOLEAN
  /\ MaxMeasured \in Nat \ {0} /\ ThrottleBase \in Nat
  /\ MaxPackets \in Nat \ {0} /\ MaxEntries \in Nat \ {0}

VARIABLES
  inPollingMode,    \* set once, before the driver is made
  running,          \* a sync is running
  stopReading,      \* it is about to be stopped (_stopReading)
  currentProximity, \* _currentProximity
  noProgress,       \* _noProgressTimeout: "null", "armed" or "fired"
  resolving,        \* hosts with _resolving
  doneResolving,    \* hosts with _doneResolving
  retryTimer,       \* hosts with a _postResolutionFailureTimer
  created,          \* the socket descriptors that exist
  open,             \* those with an _fd
  sendFailed,       \* those with a _lastSendFailureTime
  timer,            \* _timer: "null", "short" or "throttle"
  outstanding,      \* length of _xmitTimes
  averageRTT,       \* _averageRTT: 0, measured or forced
  queued,           \* entries in _availablePoolSocketsByRTT
  disordered,       \* a round trip changed while its socket was in the queue
  received,         \* _numPacketsReceived, up to ThrottleBase
  todo,             \* the calls still to be made by the handler
  recursing         \* the static of stateGotBadPacket

syncVars   == <<running, stopReading, currentProximity, noProgress>>
hostVars   == <<resolving, doneResolving, retryTimer>>
socketVars == <<created, open, sendFailed, timer, outstanding, averageRTT>>
queueVars  == <<queued, disordered>>
callVars   == <<todo, recursing>>

vars == <<inPollingMode, syncVars, hostVars, socketVars, queueVars, received, callVars>>

-----------------------------------------------------------------------------

BadPacketRTT == MaxMeasured + 1
BadHostRTT   == MaxMeasured + 2

IsUser(s) == HostOf[s] \in UserHosts

\* A call on the stack: of a method about a socket, or of the driver.
SocketCall(kind, s) == [call |-> kind, of |-> {s}]
DriverCall(kind)    == [call |-> kind, of |-> {}]

CallRecords ==
  {SocketCall(kind, s) : kind \in {"send", "sendWithTicket", "bad"}, s \in Sockets}
    \union {SocketCall("including", s) : s \in {u \in Sockets : ~IsUser(u)}}
    \union {DriverCall("fastest"), DriverCall("endBad")}

Init ==
  /\ inPollingMode \in Modes
  /\ running = FALSE /\ stopReading = FALSE
  /\ currentProximity = 0 /\ noProgress = "null"
  /\ resolving = {} /\ doneResolving = {} /\ retryTimer = {}
  /\ created = {} /\ open = {} /\ sendFailed = {}
  /\ timer = [s \in Sockets |-> "null"]
  /\ outstanding = [s \in Sockets |-> 0]
  /\ averageRTT = [s \in Sockets |-> 0]
  /\ queued = [s \in Sockets |-> 0] /\ disordered = FALSE
  /\ received = 0
  /\ todo = <<>> /\ recursing = FALSE

-----------------------------------------------------------------------------
(* The queue.  It is a heap of pointers: once the key of an entry has      *)
(* changed in place, any entry may come to the top.                        *)

Entries == {s \in Sockets : queued[s] > 0}

IsTop(s) == s \in Entries /\ (disordered \/ \A u \in Entries : averageRTT[s] <= averageRTT[u])

More(n, max) == IF n < max THEN n + 1 ELSE max

Push(s) == queued' = [queued EXCEPT ![s] = More(@, MaxEntries)]

Pop(s) ==
  /\ queued' = [queued EXCEPT ![s] = @ - 1]
  /\ disordered' = (disordered /\ \E u \in Sockets : queued'[u] > 0)

\* A new round trip for s, in the queue or not.
SetRTT(s, rtt) ==
  /\ averageRTT' = [averageRTT EXCEPT ![s] = rtt]
  /\ disordered' = (disordered \/ queued[s] > 0)

-----------------------------------------------------------------------------
(* Names. *)

\* resolveOnePoolHostDNS stops at the first host that is beyond the current
\* level or has not been looked up.
StopsAt(h) == Proximity[h] > currentProximity \/ h \notin resolving \union doneResolving

NextToResolve ==
  {h \in Hosts : /\ StopsAt(h) /\ \A g \in 1 .. h - 1 : ~StopsAt(g)
                 /\ Proximity[h] <= currentProximity}

ResolveOne == resolving' = resolving \union NextToResolve

-----------------------------------------------------------------------------
(* The call stack. *)

Calling(kind) == todo # <<>> /\ Head(todo).call = kind

\* The socket the call is made of.
Of(s) == s \in Head(todo).of

\* The call returns; its last act is to make further ones.
ReturnTo(calls) == todo' = calls \o Tail(todo)
Return == todo' = Tail(todo)

CallsSend == Calling("send") \/ Calling("sendWithTicket")

\* connectAndSendFirstPacket, less than a minute after the last failure.
SendIsTooEarly(s) ==
  /\ CallsSend /\ Of(s) /\ s \notin open /\ s \in sendFailed
  /\ ReturnTo(<<SocketCall("bad", s)>>)
  /\ UNCHANGED <<inPollingMode, syncVars, hostVars, socketVars, queueVars, received, recursing>>

\* connectAndSendFirstPacket: socket() or connect() fails.
ConnectFails(s) ==
  /\ SendsFail
  /\ CallsSend /\ Of(s) /\ s \notin open
  /\ SetRTT(s, BadHostRTT) /\ sendFailed' = sendFailed \union {s}
  /\ ReturnTo(<<SocketCall("bad", s)>>)
  /\ UNCHANGED <<inPollingMode, syncVars, hostVars, created, open, timer, outstanding,
                 queued, received, recursing>>

\* sendPacket: the ticket is for later.  The first packet has no ticket,
\* whoever sends it.
SendIsThrottled(s) ==
  /\ CallsSend /\ Of(s)
  /\ Calling("send") \/ s \notin open
  /\ ~IsUser(s) /\ ~inPollingMode /\ received >= ThrottleBase
  /\ open' = open \union {s} /\ timer' = [timer EXCEPT ![s] = "throttle"]
  /\ Return
  /\ UNCHANGED <<inPollingMode, syncVars, hostVars, created, sendFailed, outstanding,
                 averageRTT, queueVars, received, recursing>>

\* Mutant of PacketIsSent: the old timer stays, which may be none.
PacketIsSent_NoTimer(s) ==
  /\ CallsSend /\ Of(s)
  /\ open' = open \union {s} /\ sendFailed' = sendFailed \ {s}
  /\ outstanding' = [outstanding EXCEPT ![s] = More(@, MaxPackets)]
  /\ Return
  /\ UNCHANGED <<inPollingMode, syncVars, hostVars, created, timer, averageRTT,
                 queueVars, received, recursing>>

PacketIsSent(s) ==
  /\ CallsSend /\ Of(s)
  /\ open' = open \union {s} /\ sendFailed' = sendFailed \ {s}
  /\ outstanding' = [outstanding EXCEPT ![s] = More(@, MaxPackets)]
  /\ timer' = [timer EXCEPT ![s] = "short"]
  /\ Return
  /\ UNCHANGED <<inPollingMode, syncVars, hostVars, created, averageRTT, queueVars,
                 received, recursing>>

\* sendPacket: send() fails; the packet has been put on the list already.
SendFails(s) ==
  /\ SendsFail
  /\ CallsSend /\ Of(s)
  /\ open' = open \union {s} /\ sendFailed' = sendFailed \union {s}
  /\ outstanding' = [outstanding EXCEPT ![s] = More(@, MaxPackets)]
  /\ timer' = [timer EXCEPT ![s] = "null"]
  /\ SetRTT(s, BadHostRTT)
  /\ ReturnTo(<<SocketCall("bad", s)>>)
  /\ UNCHANGED <<inPollingMode, syncVars, hostVars, created, queued, received, recursing>>

SendPacket ==
  \E s \in Sockets : \/ SendIsTooEarly(s) \/ ConnectFails(s) \/ SendIsThrottled(s)
                     \/ PacketIsSent(s) \/ SendFails(s)

\* sendPacketToFastestPoolHost: when there is nothing in the queue, or only
\* bad hosts, another name is resolved.
ResolveAnother ==
  /\ Calling("fastest")
  /\ \/ Entries = {}
     \/ NextToResolve # {} /\ \E s \in Sockets : IsTop(s) /\ averageRTT[s] >= BadHostRTT
  /\ ResolveOne
  /\ Return
  /\ UNCHANGED <<inPollingMode, syncVars, doneResolving, retryTimer, socketVars, queueVars,
                 received, recursing>>

\* sendPacketToFastestPoolHost: the top of the queue is sent to.
SendToFastest(s) ==
  /\ Calling("fastest")
  /\ IsTop(s)
  /\ averageRTT[s] >= BadHostRTT => NextToResolve = {}
  /\ Pop(s)
  /\ ReturnTo(<<SocketCall("send", s)>>)
  /\ UNCHANGED <<inPollingMode, syncVars, hostVars, socketVars, received, recursing>>

\* Mutant of SendToFaster: the socket that has just answered is forgotten.
SendToFaster_Dropped(s, t) ==
  /\ Calling("including") /\ Of(s)
  /\ IsTop(t) /\ averageRTT[t] < averageRTT[s]
  /\ Pop(t)
  /\ ReturnTo(<<SocketCall("send", t)>>)
  /\ UNCHANGED <<inPollingMode, syncVars, hostVars, socketVars, received, recursing>>

\* sendPacketToFastestPoolHostIncludingThisOne: another socket is faster.
SendToFaster(s, t) ==
  /\ Calling("including") /\ Of(s)
  /\ IsTop(t) /\ averageRTT[t] < averageRTT[s]
  /\ queued' = [[queued EXCEPT ![t] = @ - 1] EXCEPT ![s] = More(@, MaxEntries)]
  /\ ReturnTo(<<SocketCall("send", t)>>)
  /\ UNCHANGED <<inPollingMode, syncVars, hostVars, socketVars, disordered, received, recursing>>

\* ... or this one is the fastest.
SendToThisOne(s) ==
  /\ Calling("including") /\ Of(s)
  /\ Entries = {} \/ \E t \in Sockets : IsTop(t) /\ averageRTT[t] >= averageRTT[s]
  /\ ReturnTo(<<SocketCall("send", s)>>)
  /\ UNCHANGED <<inPollingMode, syncVars, hostVars, socketVars, queueVars, received, recursing>>

\* stateGotBadPacket, called while it is active: the socket is not pushed.
GotBadPacketAgain ==
  /\ Calling("bad") /\ recursing
  /\ ReturnTo(<<DriverCall("fastest")>>)
  /\ UNCHANGED <<inPollingMode, syncVars, hostVars, socketVars, queueVars, received, recursing>>

\* Mutant of GotBadPacket: the recursion is not noticed.
GotBadPacket_Unguarded(s) ==
  /\ Calling("bad") /\ Of(s) /\ ~recursing
  /\ IF IsUser(s)
     THEN ReturnTo(<<SocketCall("send", s)>>) /\ UNCHANGED queued
     ELSE Push(s) /\ ReturnTo(<<DriverCall("fastest")>>)
  /\ UNCHANGED <<inPollingMode, syncVars, hostVars, socketVars, disordered, received, recursing>>

\* Mutant of GotBadPacket: an early return for every kind of bad packet.
GotBadPacket_Returns(s) ==
  /\ Calling("bad") /\ Of(s) /\ ~recursing
  /\ recursing' = TRUE
  /\ IF IsUser(s)
     THEN ReturnTo(<<SocketCall("send", s), DriverCall("endBad")>>) /\ UNCHANGED queued
     ELSE Push(s) /\ ReturnTo(<<DriverCall("fastest")>>)
  /\ UNCHANGED <<inPollingMode, syncVars, hostVars, socketVars, disordered, received>>

\* stateGotBadPacket.  In polling mode it returns with `recursing' set.
GotBadPacket(s) ==
  /\ Calling("bad") /\ Of(s) /\ ~recursing
  /\ recursing' = TRUE
  /\ IF IsUser(s)
     THEN ReturnTo(<<SocketCall("send", s), DriverCall("endBad")>>) /\ UNCHANGED queued
     ELSE /\ Push(s)
          /\ IF inPollingMode THEN Return
             ELSE ReturnTo(<<DriverCall("fastest"), DriverCall("endBad")>>)
  /\ UNCHANGED <<inPollingMode, syncVars, hostVars, socketVars, disordered, received>>

EndOfBadPacket ==
  /\ Calling("endBad")
  /\ recursing' = FALSE
  /\ Return
  /\ UNCHANGED <<inPollingMode, syncVars, hostVars, socketVars, queueVars, received>>

MakeCall ==
  \/ SendPacket
  \/ ResolveAnother
  \/ \E s \in Sockets : SendToFastest(s) \/ SendToThisOne(s) \/ GotBadPacket(s)
  \/ \E s, t \in Sockets : SendToFaster(s, t)
  \/ GotBadPacketAgain \/ EndOfBadPacket

-----------------------------------------------------------------------------
(* The beginning and the end of a sync. *)

\* Mutant of NothingThere: the sockets are not closed.
NothingThere_KeepsOpen ==
  /\ doneResolving' = {} /\ retryTimer' = {}
  /\ created' = {} /\ sendFailed' = {}
  /\ timer' = [s \in Sockets |-> "null"]
  /\ outstanding' = [s \in Sockets |-> 0]
  /\ averageRTT' = [s \in Sockets |-> 0]
  /\ queued' = [s \in Sockets |-> 0] /\ disordered' = FALSE
  /\ UNCHANGED open

\* No descriptors, an empty queue, closed sockets.
NothingThere ==
  /\ doneResolving' = {} /\ retryTimer' = {}
  /\ created' = {} /\ open' = {} /\ sendFailed' = {}
  /\ timer' = [s \in Sockets |-> "null"]
  /\ outstanding' = [s \in Sockets |-> 0]
  /\ averageRTT' = [s \in Sockets |-> 0]
  /\ queued' = [s \in Sockets |-> 0] /\ disordered' = FALSE

FirstPoolHost == {h \in Hosts \ UserHosts : \A g \in Hosts \ UserHosts : h <= g}

StartSyncing ==
  /\ ~running
  /\ running' = TRUE /\ stopReading' = FALSE
  /\ currentProximity' = IF inPollingMode THEN 4 ELSE 0
  /\ resolving' = IF inPollingMode THEN Hosts ELSE UserHosts \union FirstPoolHost
  /\ NothingThere
  /\ received' = 0
  /\ UNCHANGED <<inPollingMode, noProgress, callVars>>

StopSyncing ==
  /\ running /\ todo = <<>>
  /\ running' = FALSE /\ stopReading' = FALSE
  /\ noProgress' = "null"
  /\ resolving' = {} /\ NothingThere
  /\ UNCHANGED <<inPollingMode, currentProximity, received, callVars>>

-----------------------------------------------------------------------------
(* Events. *)

\* The thread is between two events of a sync that goes on.
AtRest == running /\ ~stopReading /\ todo = <<>>

\* bumpProximity.
BumpProximity ==
  /\ AtRest /\ currentProximity < 3
  /\ currentProximity' = currentProximity + 1
  /\ UNCHANGED <<inPollingMode, running, stopReading, noProgress, hostVars, socketVars,
                 queueVars, received, callVars>>

\* notifyNameResolutionComplete with at least one address: pool sockets are
\* pushed, and then one of them is sent to; all those of a user host are.
NameResolutionComplete(h, addresses) ==
  /\ AtRest /\ h \in resolving
  /\ resolving' = resolving \ {h} /\ doneResolving' = doneResolving \union {h}
  /\ created' = created \union addresses
  /\ queued' = IF h \in UserHosts THEN queued
               ELSE [s \in Sockets |-> IF s \in addresses THEN 1 ELSE queued[s]]
  /\ \E order \in [1 .. Cardinality(addresses) -> addresses] :
       /\ {order[i] : i \in DOMAIN order} = addresses
       /\ todo' = IF inPollingMode THEN <<>>
                  ELSE IF h \in UserHosts
                  THEN [i \in DOMAIN order |-> SocketCall("send", order[i])]
                  ELSE <<DriverCall("fastest")>>
  /\ noProgress' = IF noProgress = "null" /\ ~inPollingMode THEN "armed" ELSE noProgress
  /\ UNCHANGED <<inPollingMode, running, stopReading, currentProximity, retryTimer, open,
                 sendFailed, timer, outstanding, averageRTT, disordered, received, recursing>>

\* Mutant of NameResolutionFailed: the next host replaces the retry.
NameResolutionFailed_NoRetry(h) ==
  /\ AtRest /\ h \in resolving
  /\ doneResolving' = doneResolving \union {h}
  /\ resolving' = (resolving \ {h}) \union
                    {g \in IF h \in UserHosts THEN {} ELSE NextToResolve : g # h}
  /\ UNCHANGED <<inPollingMode, syncVars, retryTimer, socketVars, queueVars, received, callVars>>

\* notifyNameResolutionFailed, or no address; the network is there.
NameResolutionFailed(h) ==
  /\ AtRest /\ h \in resolving
  /\ doneResolving' = doneResolving \union {h}
  /\ retryTimer' = retryTimer \union {h}
  /\ resolving' = (resolving \ {h}) \union
                    {g \in IF h \in UserHosts THEN {} ELSE NextToResolve : g # h}
  /\ UNCHANGED <<inPollingMode, syncVars, socketVars, queueVars, received, callVars>>

\* stateGotPostResolutionFailureTimerTimeout.
RetryResolving(h) ==
  /\ AtRest /\ h \in retryTimer
  /\ retryTimer' = retryTimer \ {h}
  /\ resolving' = resolving \union {h}
  /\ UNCHANGED <<inPollingMode, syncVars, doneResolving, socketVars, queueVars, received, callVars>>

\* ensureFreshHostAvailable, and whether it helps to call it again.
NoFreshHost == Entries = {} \/ \E s \in Sockets : IsTop(s) /\ averageRTT[s] # 0

EnsureFreshHostAvailable(helps) ==
  \/ NoFreshHost /\ ResolveOne /\ helps = (NextToResolve # {})
  \/ /\ \E s \in Sockets : IsTop(s) /\ averageRTT[s] = 0
     /\ helps = TRUE /\ UNCHANGED resolving

\* sendTimeoutShort: the packet may still come, but another one is sent.
ShortTimeout(s) ==
  /\ AtRest /\ timer[s] = "short"
  /\ timer' = [timer EXCEPT ![s] = "null"]
  /\ \/ inPollingMode /\ UNCHANGED <<resolving, todo>>
     \/ /\ ~inPollingMode /\ IsUser(s)
        /\ todo' = <<SocketCall("send", s)>> /\ UNCHANGED resolving
     \/ /\ ~inPollingMode /\ ~IsUser(s)
        /\ \E helps \in BOOLEAN : EnsureFreshHostAvailable(helps)
        /\ todo' = <<SocketCall("including", s)>>
  /\ UNCHANGED <<inPollingMode, syncVars, doneResolving, retryTimer, created, open,
                 sendFailed, outstanding, averageRTT, queueVars, received, recursing>>

\* The throttle timer: the packet has its ticket.
ThrottleTimeout(s) ==
  /\ AtRest /\ timer[s] = "throttle"
  /\ timer' = [timer EXCEPT ![s] = "null"]
  /\ todo' = <<SocketCall("sendWithTicket", s)>>
  /\ UNCHANGED <<inPollingMode, syncVars, hostVars, created, open, sendFailed, outstanding,
                 averageRTT, queueVars, received, recursing>>

\* stateGotNoProgressTimeout: add a host, or prepare one when ten packets are
\* on their way.  The timer is installed again unless no host is left.
NoProgressTimeout ==
  /\ AtRest /\ noProgress = "armed"
  /\ \/ todo' = <<DriverCall("fastest")>> /\ UNCHANGED <<noProgress, resolving>>
     \/ /\ \E helps \in BOOLEAN :
             /\ EnsureFreshHostAvailable(helps)
             /\ noProgress' = IF helps THEN "armed" ELSE "fired"
        /\ UNCHANGED todo
  /\ UNCHANGED <<inPollingMode, running, stopReading, currentProximity, doneResolving,
                 retryTimer, socketVars, queueVars, received, recursing>>

\* sendToNextPollingHost.
SendToNextPollingHost(s) ==
  /\ AtRest /\ inPollingMode /\ s \in created
  /\ todo' = <<SocketCall("sendWithTicket", s)>>
  /\ UNCHANGED <<inPollingMode, syncVars, hostVars, socketVars, queueVars, received, recursing>>

\* Mutant of Receives: the time-out of the answered packet goes on.
Receives_KeepsTimer(s) ==
  /\ running /\ todo = <<>>
  /\ s \in open /\ outstanding[s] > 0
  /\ outstanding' = [outstanding EXCEPT ![s] = @ - 1]
  /\ received' = More(received, ThrottleBase)
  /\ UNCHANGED <<inPollingMode, running, currentProximity, noProgress, hostVars, created,
                 open, sendFailed, timer, queued, recursing>>

\* recvPacket of a packet that matches one we sent.
Receives(s) ==
  /\ running /\ todo = <<>>
  /\ s \in open /\ outstanding[s] > 0
  /\ outstanding' = [outstanding EXCEPT ![s] = @ - 1]
  /\ timer' = [timer EXCEPT ![s] = "null"]
  /\ received' = More(received, ThrottleBase)
  /\ UNCHANGED <<inPollingMode, running, currentProximity, noProgress, hostVars, created,
                 open, sendFailed, queued, recursing>>

\* It is not usable: badPacket, badHost, or neither but times out of order.
ReceiveBadPacket(s) ==
  /\ Receives(s)
  /\ \E rtt \in {BadPacketRTT, BadHostRTT, averageRTT[s]} : SetRTT(s, rtt)
  /\ todo' = <<SocketCall("bad", s)>>
  /\ UNCHANGED stopReading

\* It ends the sync, or it contradicts another one.
ReceiveLastPacket(s) ==
  /\ ~inPollingMode
  /\ Receives(s)
  /\ \E rtt \in 1 .. MaxMeasured : SetRTT(s, rtt)
  /\ stopReading' = TRUE
  /\ UNCHANGED todo

\* It refines the value, and the next one is sent.
ReceiveGoodPacket(s) ==
  /\ Receives(s)
  /\ \E rtt \in 1 .. MaxMeasured : SetRTT(s, rtt)
  /\ todo' = IF inPollingMode THEN <<>>
             ELSE <<SocketCall(IF IsUser(s) THEN "send" ELSE "including", s)>>
  /\ UNCHANGED stopReading

Next ==
  \/ MakeCall
  \/ StartSyncing \/ StopSyncing
  \/ BumpProximity
  \/ \E h \in Hosts : NameResolutionFailed(h) \/ RetryResolving(h)
  \/ \E h \in Hosts : \E addresses \in (SUBSET {s \in Sockets : HostOf[s] = h}) \ {{}} :
       NameResolutionComplete(h, addresses)
  \/ NoProgressTimeout
  \/ \E s \in Sockets :
       \/ ShortTimeout(s) \/ ThrottleTimeout(s) \/ SendToNextPollingHost(s)
       \/ ReceiveBadPacket(s) \/ ReceiveLastPacket(s) \/ ReceiveGoodPacket(s)

Spec == Init /\ [][Next]_vars

\* The thread goes on with the handler it is in.
FairSpec == Spec /\ WF_vars(MakeCall)

-----------------------------------------------------------------------------
(* Properties. *)

FlagsOK ==
  /\ inPollingMode \in BOOLEAN /\ running \in BOOLEAN /\ stopReading \in BOOLEAN
  /\ disordered \in BOOLEAN /\ recursing \in BOOLEAN

SyncOK ==
  /\ currentProximity \in 0 .. 4
  /\ noProgress \in {"null", "armed", "fired"}
  /\ received \in 0 .. ThrottleBase

HostsOK ==
  resolving \subseteq Hosts /\ doneResolving \subseteq Hosts /\ retryTimer \subseteq Hosts

SocketsOK ==
  /\ created \subseteq Sockets /\ open \subseteq created /\ sendFailed \subseteq created
  /\ timer \in [Sockets -> {"null", "short", "throttle"}]
  /\ outstanding \in [Sockets -> 0 .. MaxPackets]
  /\ averageRTT \in [Sockets -> 0 .. BadHostRTT]
  /\ queued \in [Sockets -> 0 .. MaxEntries]

\* The type invariant; sockets are open, or have failed, only if they exist.
TypeOK == FlagsOK /\ SyncOK /\ HostsOK /\ SocketsOK /\ todo \in Seq(CallRecords)

\* A name is looked up by one resolver at a time, never while its retry timer
\* runs and never once it has sockets (the assertions of
\* notifyNameResolutionComplete and setupPostResolutionFailureTimer).
ResolverIsAlone ==
  /\ resolving \intersect retryTimer = {}
  /\ \A s \in created : HostOf[s] \notin resolving \union retryTimer

\* A time-out finds the packet it is about (the assertion of
\* sendTimeoutShort), however answers and resends cross.
TimeoutHasItsPacket == \A s \in Sockets : timer[s] = "short" => outstanding[s] > 0

\* What the code asserts of its resolvers and time-outs.
AssertionsHold == ResolverIsAlone /\ TimeoutHasItsPacket

\* Between two events the guard of stateGotBadPacket's recursion is open, so
\* that the next bad packet's socket goes back to the queue.
GuardIsOpenAtRest == ~inPollingMode /\ todo = <<>> => ~recursing

\* A socket whose last send did not fail is never forgotten: it waits in the
\* queue, for an answer or for a ticket.  User hosts are always active.
NoHostIsLost ==
  AtRest /\ ~inPollingMode =>
    \A s \in created \ sendFailed : timer[s] # "null" \/ (~IsUser(s) /\ queued[s] > 0)

\* Something is always on its way that will wake the driver up, unless every
\* send has failed.
SomethingIsPending ==
  AtRest /\ ~inPollingMode /\ (created # {} => ~(created \subseteq sendFailed)) =>
    resolving # {} \/ retryTimer # {} \/ \E s \in Sockets : timer[s] # "null"

\* The recursion of failing sends comes to an end.
HandlersReturn == todo # <<>> ~> todo = <<>>

\* "If a send on a particular socket (to a particular IP address) fails, wait
\* this long before trying again" (ES_SEND_FAILURE_THROTTLE): a socket that
\* failed waits in the queue or for a timer, to be tried again.
FailedHostsAreKept ==
  AtRest /\ ~inPollingMode =>
    \A s \in sendFailed : timer[s] # "null" \/ queued[s] > 0
=============================================================================
