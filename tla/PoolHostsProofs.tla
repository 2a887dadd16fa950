--------------------------- MODULE PoolHostsProofs ---------------------------
(***************************************************************************)
(* Proofs about PoolHosts, for any hosts, addresses, round trips and       *)
(* limits.                                                                 *)
(***************************************************************************)
EXTENDS PoolHosts, FiniteSetTheorems, TLAPS

(***************************************************************************)
(* The invariant.  The call stack refers only to sockets that exist and is *)
(* empty when no sync runs; a name that has sockets, or waits to be looked *)
(* up again, counts as looked up; `recursing' says whether the stack holds *)
(* the end of a stateGotBadPacket; and a socket whose last send did not    *)
(* fail is queued, waits for a timer, or is on the stack.                  *)
(***************************************************************************)

OpenCalls == {c \in CallRecords : c.of \subseteq created}

StackInv ==
  /\ todo \in Seq(OpenCalls)
  /\ ~running => todo = <<>>
  /\ \A s \in Sockets : queued[s] > 0 => s \in created /\ ~IsUser(s)
  /\ \A s \in Sockets : timer[s] # "null" => s \in open

ResolverInv ==
  /\ ResolverIsAlone
  /\ retryTimer \subseteq doneResolving
  /\ \A s \in created : HostOf[s] \in doneResolving

\* Only the call that runs is about a bad packet, and the stack holds at most
\* one end of a stateGotBadPacket, just while r is set.
Guarded(q, r) ==
  /\ \A i \in 1 .. Len(q) : q[i].call = "bad" => i = 1
  /\ \A i, j \in 1 .. Len(q) : q[i].call = "endBad" /\ q[j].call = "endBad" => i = j
  /\ r <=> \E i \in 1 .. Len(q) : q[i].call = "endBad"

\* A bad packet within the handling of another one is a send that failed.
GuardInv ==
  ~inPollingMode =>
    /\ Guarded(todo, recursing)
    /\ recursing /\ Calling("bad") => Head(todo).of \subseteq sendFailed

Kept(s) ==
  \/ timer[s] # "null"
  \/ ~IsUser(s) /\ queued[s] > 0
  \/ \E i \in 1 .. Len(todo) : s \in todo[i].of

KeptInv ==
  running /\ ~stopReading /\ ~inPollingMode => \A s \in created \ sendFailed : Kept(s)

PoolInv ==
  /\ TypeOK /\ StackInv /\ ResolverInv /\ TimeoutHasItsPacket /\ GuardInv /\ KeptInv

-----------------------------------------------------------------------------
(* The call stack. *)

\* The head and the rest of a stack of calls.
LEMMA StackParts ==
  ASSUME NEW S, NEW q \in Seq(S), q # <<>>
  PROVE  /\ Head(q) \in S /\ Head(q) = q[1] /\ Tail(q) \in Seq(S)
         /\ Len(q) \in Nat \ {0} /\ Len(Tail(q)) = Len(q) - 1
         /\ \A i \in 1 .. Len(q) - 1 : Tail(q)[i] = q[i + 1]
  BY SMT

\* The stack after the head has made the calls p.
LEMMA Returned ==
  ASSUME NEW S, NEW q \in Seq(S), q # <<>>, NEW p \in Seq(S)
  PROVE  /\ p \o Tail(q) \in Seq(S)
         /\ Len(p \o Tail(q)) = Len(p) + Len(q) - 1
         /\ \A i \in 1 .. Len(p) : (p \o Tail(q))[i] = p[i]
         /\ \A i \in 1 .. Len(q) - 1 : (p \o Tail(q))[Len(p) + i] = q[i + 1]
  BY StackParts, SMT

\* The calls that handlers make.
LEMMA CallFields ==
  ASSUME NEW kind, NEW s
  PROVE  /\ SocketCall(kind, s).call = kind /\ SocketCall(kind, s).of = {s}
         /\ DriverCall(kind).call = kind /\ DriverCall(kind).of = {}
  BY DEF SocketCall, DriverCall

LEMMA CallsOfSockets ==
  ASSUME SocketsOK, NEW s \in created
  PROVE  /\ SocketCall("send", s) \in OpenCalls
         /\ SocketCall("sendWithTicket", s) \in OpenCalls
         /\ SocketCall("bad", s) \in OpenCalls
         /\ ~IsUser(s) => SocketCall("including", s) \in OpenCalls
  BY CallFields DEF SocketsOK, OpenCalls, CallRecords

LEMMA CallsOfDriver ==
  DriverCall("fastest") \in OpenCalls /\ DriverCall("endBad") \in OpenCalls
  BY CallFields DEF OpenCalls, CallRecords

\* Whose call it is.
LEMMA Caller ==
  ASSUME NEW c \in OpenCalls
  PROVE  /\ c.of \subseteq created
         /\ \A s \in c.of : c.of = {s}
         /\ c.call = "including" => \A s \in c.of : ~IsUser(s)
         /\ c.call \in {"fastest", "endBad"} => c.of = {}
  BY CallFields, SMTT(20) DEF OpenCalls, CallRecords

\* A handler's call returns: what it calls replaces it.
LEMMA StackReturns ==
  ASSUME StackInv, todo # <<>>, NEW p \in Seq(OpenCalls), ReturnTo(p), UNCHANGED created
  PROVE  todo' \in Seq(OpenCalls')
  <1>1. OpenCalls' = OpenCalls
    BY DEF OpenCalls
  <1>2. p \o Tail(todo) \in Seq(OpenCalls)
    BY Returned DEF StackInv
  <1> QED
    BY <1>1, <1>2 DEF ReturnTo

LEMMA StackPops ==
  ASSUME StackInv, todo # <<>>, Return, UNCHANGED created
  PROVE  todo' \in Seq(OpenCalls')
  <1>1. OpenCalls' = OpenCalls
    BY DEF OpenCalls
  <1>2. Tail(todo) \in Seq(OpenCalls)
    BY StackParts DEF StackInv
  <1> QED
    BY <1>1, <1>2 DEF Return

\* The socket of the call that runs exists.
LEMMA CallerExists ==
  ASSUME StackInv, todo # <<>>, NEW s \in Sockets, Of(s)
  PROVE  s \in created /\ Head(todo).of = {s}
  <1>1. Head(todo) \in OpenCalls
    BY StackParts DEF StackInv
  <1> QED
    BY <1>1, Caller DEF Of

-----------------------------------------------------------------------------
(* What handlers call: the stack keeps its type. *)

LEMMA StackCallStep ==
  ASSUME TypeOK, StackInv, MakeCall
  PROVE  todo' \in Seq(OpenCalls')
  <1>1. todo # <<>> /\ UNCHANGED created
    BY DEF MakeCall, SendPacket, SendIsTooEarly, ConnectFails, SendIsThrottled, PacketIsSent,
           SendFails, ResolveAnother, SendToFastest, SendToThisOne, GotBadPacket, SendToFaster,
           GotBadPacketAgain, EndOfBadPacket, CallsSend, Calling, socketVars
  <1>2. SocketsOK
    BY DEF TypeOK
  <1>3. ASSUME NEW s \in Sockets, Of(s), ReturnTo(<<SocketCall("bad", s)>>)
        PROVE  todo' \in Seq(OpenCalls')
    <2>1. <<SocketCall("bad", s)>> \in Seq(OpenCalls)
      BY <1>1, <1>2, <1>3, CallerExists, CallsOfSockets
    <2> QED
      BY <1>1, <1>3, <2>1, StackReturns
  <1>4. ASSUME NEW s \in created, ReturnTo(<<SocketCall("send", s)>>)
        PROVE  todo' \in Seq(OpenCalls')
    <2>1. <<SocketCall("send", s)>> \in Seq(OpenCalls)
      BY <1>2, CallsOfSockets
    <2> QED
      BY <1>1, <1>4, <2>1, StackReturns
  <1>5. ASSUME ReturnTo(<<DriverCall("fastest")>>)
        PROVE  todo' \in Seq(OpenCalls')
    <2>1. <<DriverCall("fastest")>> \in Seq(OpenCalls)
      BY CallsOfDriver
    <2> QED
      BY <1>1, <1>5, <2>1, StackReturns
  <1>6. ASSUME Return PROVE todo' \in Seq(OpenCalls')
    BY <1>1, <1>6, StackPops
  <1>7. ASSUME NEW s \in Sockets, SendIsTooEarly(s) \/ ConnectFails(s) \/ SendFails(s)
        PROVE  todo' \in Seq(OpenCalls')
    BY <1>3, <1>7 DEF SendIsTooEarly, ConnectFails, SendFails
  <1>8. ASSUME NEW s \in Sockets, SendIsThrottled(s) \/ PacketIsSent(s)
        PROVE  todo' \in Seq(OpenCalls')
    BY <1>6, <1>8 DEF SendIsThrottled, PacketIsSent
  <1>9. ASSUME ResolveAnother \/ EndOfBadPacket PROVE todo' \in Seq(OpenCalls')
    BY <1>6, <1>9 DEF ResolveAnother, EndOfBadPacket
  <1>10. ASSUME NEW s \in Sockets, SendToFastest(s) PROVE todo' \in Seq(OpenCalls')
    BY <1>4, <1>10 DEF SendToFastest, IsTop, Entries, StackInv
  <1>11. ASSUME NEW s \in Sockets, SendToThisOne(s) PROVE todo' \in Seq(OpenCalls')
    BY <1>1, <1>4, <1>11, CallerExists DEF SendToThisOne
  <1>12. ASSUME NEW s \in Sockets, NEW t \in Sockets, SendToFaster(s, t)
         PROVE  todo' \in Seq(OpenCalls')
    BY <1>4, <1>12 DEF SendToFaster, IsTop, Entries, StackInv
  <1>13. ASSUME GotBadPacketAgain PROVE todo' \in Seq(OpenCalls')
    BY <1>5, <1>13 DEF GotBadPacketAgain
  <1>14. ASSUME NEW s \in Sockets, GotBadPacket(s) PROVE todo' \in Seq(OpenCalls')
    <2>1. s \in created
      BY <1>1, <1>14, CallerExists DEF GotBadPacket
    <2>2. <<SocketCall("send", s), DriverCall("endBad")>> \in Seq(OpenCalls)
      BY <1>2, <2>1, CallsOfSockets, CallsOfDriver
    <2>3. <<DriverCall("fastest"), DriverCall("endBad")>> \in Seq(OpenCalls)
      BY CallsOfDriver
    <2> QED
      BY <1>1, <1>6, <1>14, <2>2, <2>3, StackReturns DEF GotBadPacket
  <1> QED
    BY <1>7, <1>8, <1>9, <1>10, <1>11, <1>12, <1>13, <1>14 DEF MakeCall, SendPacket

\* What handlers call: the queue and the timers are those of sockets that
\* exist.
LEMMA QueueCallStep ==
  ASSUME TypeOK, StackInv, MakeCall
  PROVE  StackInv'
  <1>1. todo' \in Seq(OpenCalls')
    BY StackCallStep
  <1>2. todo # <<>> /\ UNCHANGED <<created, running>>
    BY DEF MakeCall, SendPacket, SendIsTooEarly, ConnectFails, SendIsThrottled, PacketIsSent,
           SendFails, ResolveAnother, SendToFastest, SendToThisOne, GotBadPacket, SendToFaster,
           GotBadPacketAgain, EndOfBadPacket, CallsSend, Calling, socketVars, syncVars
  <1>3. ~running' => todo' = <<>>
    BY <1>2 DEF StackInv
  <1>4. SocketsOK
    BY DEF TypeOK
  <1> DEFINE Queue == \A s \in Sockets : queued[s] > 0 => s \in created /\ ~IsUser(s)
             Timers == \A s \in Sockets : timer[s] # "null" => s \in open
  <1>5. SUFFICES Queue' /\ Timers'
    BY <1>1, <1>3 DEF StackInv
  <1>6. Queue /\ Timers
    BY DEF StackInv
  <1>7. ASSUME NEW s \in Sockets, SendIsTooEarly(s) \/ ConnectFails(s) PROVE Queue' /\ Timers'
    BY <1>6, <1>7 DEF SendIsTooEarly, ConnectFails, SetRTT, socketVars, queueVars, IsUser
  <1>8. ASSUME NEW s \in Sockets, SendIsThrottled(s) \/ PacketIsSent(s) \/ SendFails(s)
        PROVE  Queue' /\ Timers'
    BY <1>4, <1>6, <1>8
       DEF SendIsThrottled, PacketIsSent, SendFails, SetRTT, socketVars, queueVars, IsUser, SocketsOK
  <1>9. ASSUME ResolveAnother \/ EndOfBadPacket \/ GotBadPacketAgain PROVE Queue' /\ Timers'
    BY <1>6, <1>9 DEF ResolveAnother, EndOfBadPacket, GotBadPacketAgain, socketVars, queueVars, IsUser
  <1>10. ASSUME NEW s \in Sockets, SendToFastest(s) PROVE Queue' /\ Timers'
    BY <1>4, <1>6, <1>10
       DEF SendToFastest, Pop, IsTop, Entries, socketVars, IsUser, SocketsOK
  <1>11. ASSUME NEW s \in Sockets, SendToThisOne(s) PROVE Queue' /\ Timers'
    BY <1>6, <1>11 DEF SendToThisOne, socketVars, queueVars, IsUser
  <1>12. ASSUME NEW s \in Sockets, NEW t \in Sockets, SendToFaster(s, t)
         PROVE  Queue' /\ Timers'
    <2>1. s \in created /\ ~IsUser(s)
      BY <1>2, <1>12, CallerExists, StackParts, Caller DEF SendToFaster, Calling, Of, StackInv
    <2> QED
      BY <1>4, <1>6, <1>12, <2>1
         DEF SendToFaster, IsTop, Entries, socketVars, IsUser, SocketsOK
  <1>13. ASSUME NEW s \in Sockets, GotBadPacket(s) PROVE Queue' /\ Timers'
    <2>1. s \in created
      BY <1>2, <1>13, CallerExists DEF GotBadPacket
    <2> QED
      BY <1>4, <1>6, <1>13, <2>1 DEF GotBadPacket, Push, socketVars, IsUser, SocketsOK
  <1> QED
    BY <1>7, <1>8, <1>9, <1>10, <1>11, <1>12, <1>13 DEF MakeCall, SendPacket

-----------------------------------------------------------------------------
(* Events. *)

LEMMA StackOfOne ==
  ASSUME NEW S PROVE <<>> \in Seq(S) /\ \A c \in S : <<c>> \in Seq(S)
  BY SMT

\* An event leaves the queue and the sockets alone and makes one call of a
\* socket that exists, or none.
LEMMA EventKeepsStack ==
  ASSUME SocketsOK, StackInv, running, UNCHANGED <<running, created, open, queued>>,
         \A s \in Sockets : timer'[s] \in {timer[s], "null"},
         todo' = <<>> \/ \E c \in OpenCalls : todo' = <<c>>
  PROVE  StackInv'
  <1>1. OpenCalls' = OpenCalls
    BY DEF OpenCalls
  <1>2. todo' \in Seq(OpenCalls')
    BY <1>1, StackOfOne
  <1> QED
    BY <1>2 DEF StackInv, SocketsOK, IsUser

LEMMA StackEventStep ==
  ASSUME TypeOK, StackInv, Next, ~MakeCall
  PROVE  StackInv'
  <1>1. SocketsOK /\ todo \in Seq(OpenCalls)
    BY DEF TypeOK, StackInv
  <1>2. CASE StartSyncing \/ StopSyncing
    <2>1. todo' = <<>> /\ \A s \in Sockets : timer'[s] = "null" /\ queued'[s] = 0
      BY <1>2 DEF StartSyncing, StopSyncing, NothingThere, callVars, StackInv
    <2>2. todo' \in Seq(OpenCalls')
      BY <2>1, StackOfOne
    <2> QED
      BY <2>1, <2>2 DEF StackInv
  <1>3. CASE BumpProximity \/ \E h \in Hosts : NameResolutionFailed(h) \/ RetryResolving(h)
    BY <1>1, <1>3, EventKeepsStack
       DEF BumpProximity, NameResolutionFailed, RetryResolving, callVars, socketVars, queueVars,
           syncVars, AtRest
  <1>4. ASSUME NEW h \in Hosts, NEW a \in (SUBSET {s \in Sockets : HostOf[s] = h}) \ {{}},
               NameResolutionComplete(h, a)
        PROVE  StackInv'
    <2>1. created' = created \union a /\ SocketsOK /\ a \subseteq Sockets
      BY <1>1, <1>4 DEF NameResolutionComplete
    <2>2. created' \subseteq Sockets
      BY <2>1 DEF SocketsOK
    <2>3. \A s \in a : SocketCall("send", s) \in OpenCalls'
      BY <2>1, <2>2, CallFields DEF OpenCalls, CallRecords
    <2>4. DriverCall("fastest") \in OpenCalls'
      BY CallFields DEF OpenCalls, CallRecords
    <2>5. todo' \in Seq(OpenCalls')
      <3>1. PICK order \in [1 .. Cardinality(a) -> a] :
              todo' = IF inPollingMode THEN <<>>
                      ELSE IF h \in UserHosts
                      THEN [i \in DOMAIN order |-> SocketCall("send", order[i])]
                      ELSE <<DriverCall("fastest")>>
        BY <1>4 DEF NameResolutionComplete
      <3>2. Cardinality(a) \in Nat
        BY <2>1, HostsAssumption, FS_Subset, FS_CardinalityType
      <3>3. [i \in DOMAIN order |-> SocketCall("send", order[i])] \in Seq(OpenCalls')
        BY <2>3, <3>2
      <3> QED
        BY <2>4, <3>1, <3>3, StackOfOne
    <2>6. running' /\ open' = open /\ timer' = timer
      BY <1>4 DEF NameResolutionComplete, AtRest
    <2>7. ASSUME NEW s \in Sockets, queued'[s] > 0 PROVE s \in created' /\ ~IsUser(s)'
      BY <1>4, <2>1, <2>7 DEF NameResolutionComplete, StackInv, IsUser, SocketsOK
    <2> QED
      BY <2>5, <2>6, <2>7 DEF StackInv
  <1>5. CASE NoProgressTimeout
    BY <1>1, <1>5, EventKeepsStack, CallsOfDriver DEF NoProgressTimeout, socketVars, queueVars, AtRest
  <1>6. ASSUME NEW s \in Sockets, ShortTimeout(s) \/ ThrottleTimeout(s) PROVE StackInv'
    <2>1. s \in created
      BY <1>1, <1>6 DEF ShortTimeout, ThrottleTimeout, StackInv, SocketsOK
    <2>2. \A u \in Sockets : timer'[u] \in {timer[u], "null"}
      BY <1>1, <1>6 DEF ShortTimeout, ThrottleTimeout, SocketsOK
    <2>3. todo' = <<>> \/ \E c \in OpenCalls : todo' = <<c>>
      BY <1>1, <1>6, <2>1, CallsOfSockets DEF ShortTimeout, ThrottleTimeout, AtRest
    <2> QED
      BY <1>1, <1>6, <2>2, <2>3, EventKeepsStack
         DEF ShortTimeout, ThrottleTimeout, AtRest, syncVars, queueVars
  <1>7. ASSUME NEW s \in Sockets, SendToNextPollingHost(s) PROVE StackInv'
    BY <1>1, <1>7, EventKeepsStack, CallsOfSockets
       DEF SendToNextPollingHost, AtRest, syncVars, socketVars, queueVars
  <1>8. ASSUME NEW s \in Sockets,
               ReceiveBadPacket(s) \/ ReceiveLastPacket(s) \/ ReceiveGoodPacket(s)
        PROVE  StackInv'
    <2>1. Receives(s) /\ s \in created
      BY <1>1, <1>8 DEF ReceiveBadPacket, ReceiveLastPacket, ReceiveGoodPacket, Receives, SocketsOK
    <2>2. \A u \in Sockets : timer'[u] \in {timer[u], "null"}
      BY <1>1, <2>1 DEF Receives, SocketsOK
    <2>3. todo' = <<>> \/ \E c \in OpenCalls : todo' = <<c>>
      BY <1>1, <1>8, <2>1, CallsOfSockets
         DEF ReceiveBadPacket, ReceiveLastPacket, ReceiveGoodPacket, Receives
    <2> QED
      BY <1>1, <2>1, <2>2, <2>3, EventKeepsStack DEF Receives
  <1> QED
    BY <1>2, <1>3, <1>4, <1>5, <1>6, <1>7, <1>8 DEF Next

LEMMA StackStep ==
  ASSUME TypeOK, StackInv, [Next]_vars
  PROVE  StackInv'
  <1>1. CASE UNCHANGED vars
    BY <1>1 DEF vars, syncVars, socketVars, queueVars, callVars, StackInv, OpenCalls, IsUser
  <1> QED
    BY <1>1, QueueCallStep, StackEventStep
-----------------------------------------------------------------------------
(* The type invariant. *)

LEMMA FlagsStep ==
  ASSUME FlagsOK, [Next]_vars
  PROVE  FlagsOK'
  <1> USE DEF FlagsOK
  <1>1. CASE UNCHANGED vars
    BY <1>1 DEF vars, syncVars, queueVars, callVars
  <1>2. CASE MakeCall
    <2>1. CASE SendPacket
      BY <2>1, Zenon
         DEF SendPacket, SendIsTooEarly, ConnectFails, SendIsThrottled, PacketIsSent, SendFails,
             SetRTT, syncVars, queueVars
    <2>2. CASE ~SendPacket
      BY <1>2, <2>2, Zenon
         DEF MakeCall, ResolveAnother, SendToFastest, SendToThisOne, GotBadPacket, SendToFaster,
             GotBadPacketAgain, EndOfBadPacket, SetRTT, Pop, syncVars, queueVars
    <2> QED
      BY <2>1, <2>2
  <1>3. CASE StartSyncing \/ StopSyncing
    BY <1>3, Zenon DEF StartSyncing, StopSyncing, NothingThere, callVars
  <1>4. CASE BumpProximity \/ NoProgressTimeout
    BY <1>4, Zenon DEF BumpProximity, NoProgressTimeout, callVars, queueVars
  <1>5. ASSUME NEW h \in Hosts, NameResolutionFailed(h) \/ RetryResolving(h) PROVE FlagsOK'
    BY <1>5, Zenon DEF NameResolutionFailed, RetryResolving, callVars, queueVars, syncVars
  <1>6. ASSUME NEW h \in Hosts, NEW a, NameResolutionComplete(h, a) PROVE FlagsOK'
    BY <1>6, Zenon DEF NameResolutionComplete
  <1>7. ASSUME NEW s \in Sockets,
               ShortTimeout(s) \/ ThrottleTimeout(s) \/ SendToNextPollingHost(s)
        PROVE  FlagsOK'
    BY <1>7, Zenon DEF ShortTimeout, ThrottleTimeout, SendToNextPollingHost, syncVars, queueVars
  <1>8. ASSUME NEW s \in Sockets,
               ReceiveBadPacket(s) \/ ReceiveLastPacket(s) \/ ReceiveGoodPacket(s)
        PROVE  FlagsOK'
    BY <1>8, Zenon DEF ReceiveBadPacket, ReceiveLastPacket, ReceiveGoodPacket, Receives, SetRTT
  <1> QED
    BY <1>1, <1>2, <1>3, <1>4, <1>5, <1>6, <1>7, <1>8 DEF Next

LEMMA MoreType ==
  ASSUME NEW max \in Nat, NEW n \in 0 .. max
  PROVE  More(n, max) \in 0 .. max /\ More(n, max) >= n /\ (max > 0 => More(n, max) > 0)
  BY DEF More

LEMMA SyncStep ==
  ASSUME SyncOK, [Next]_vars
  PROVE  SyncOK'
  <1> USE DEF SyncOK
  <1>1. CASE UNCHANGED vars
    BY <1>1 DEF vars, syncVars
  <1>2. CASE MakeCall
    BY <1>2
       DEF MakeCall, SendPacket, SendIsTooEarly, ConnectFails, SendIsThrottled, PacketIsSent,
           SendFails, ResolveAnother, SendToFastest, SendToThisOne, GotBadPacket, SendToFaster,
           GotBadPacketAgain, EndOfBadPacket, syncVars
  <1>3. CASE StartSyncing \/ StopSyncing
    BY <1>3, BoundsAssumption DEF StartSyncing, StopSyncing
  <1>4. CASE BumpProximity \/ NoProgressTimeout
    BY <1>4 DEF BumpProximity, NoProgressTimeout
  <1>5. ASSUME NEW h \in Hosts, NameResolutionFailed(h) \/ RetryResolving(h) PROVE SyncOK'
    BY <1>5 DEF NameResolutionFailed, RetryResolving, syncVars
  <1>6. ASSUME NEW h \in Hosts, NEW a, NameResolutionComplete(h, a) PROVE SyncOK'
    BY <1>6 DEF NameResolutionComplete
  <1>7. ASSUME NEW s \in Sockets,
               ShortTimeout(s) \/ ThrottleTimeout(s) \/ SendToNextPollingHost(s)
        PROVE  SyncOK'
    BY <1>7 DEF ShortTimeout, ThrottleTimeout, SendToNextPollingHost, syncVars
  <1>8. ASSUME NEW s \in Sockets,
               ReceiveBadPacket(s) \/ ReceiveLastPacket(s) \/ ReceiveGoodPacket(s)
        PROVE  SyncOK'
    BY <1>8, MoreType, BoundsAssumption
       DEF ReceiveBadPacket, ReceiveLastPacket, ReceiveGoodPacket, Receives
  <1> QED
    BY <1>1, <1>2, <1>3, <1>4, <1>5, <1>6, <1>7, <1>8 DEF Next

\* Only names of the list are ever looked up, one at a time.
LEMMA ResolverStep ==
  ASSUME SyncOK, HostsOK, SocketsOK, ResolverInv, [Next]_vars
  PROVE  HostsOK' /\ ResolverInv'
  <1> USE DEF HostsOK, ResolverInv, ResolverIsAlone
  <1>1. CASE UNCHANGED vars
    BY <1>1 DEF vars, hostVars, socketVars
  <1>2. NextToResolve \subseteq Hosts \ (resolving \union doneResolving)
    BY HostsAssumption DEF NextToResolve, StopsAt, SyncOK
  <1>3. ASSUME UNCHANGED <<doneResolving, retryTimer, created>>,
               UNCHANGED resolving \/ ResolveOne
        PROVE  HostsOK' /\ ResolverInv'
    BY <1>2, <1>3 DEF ResolveOne
  <1>4. CASE MakeCall
    <2>1. UNCHANGED <<doneResolving, retryTimer, created>> /\ (UNCHANGED resolving \/ ResolveOne)
      BY <1>4, Zenon
         DEF MakeCall, SendPacket, SendIsTooEarly, ConnectFails, SendIsThrottled, PacketIsSent,
             SendFails, ResolveAnother, SendToFastest, SendToThisOne, GotBadPacket, SendToFaster,
             GotBadPacketAgain, EndOfBadPacket, hostVars, socketVars
    <2> QED
      BY <1>3, <2>1
  <1>5. CASE StartSyncing \/ StopSyncing
    BY <1>5, HostsAssumption DEF StartSyncing, StopSyncing, NothingThere, FirstPoolHost
  <1>6. CASE BumpProximity
    BY <1>3, <1>6 DEF BumpProximity, hostVars, socketVars
  <1>7. CASE NoProgressTimeout
    <2>1. UNCHANGED <<doneResolving, retryTimer, created>> /\ (UNCHANGED resolving \/ ResolveOne)
      BY <1>7, Zenon DEF NoProgressTimeout, EnsureFreshHostAvailable, socketVars
    <2> QED
      BY <1>3, <2>1
  <1>8. ASSUME NEW h \in Hosts, NameResolutionFailed(h) PROVE HostsOK' /\ ResolverInv'
    BY <1>2, <1>8 DEF NameResolutionFailed, socketVars
  <1>9. ASSUME NEW h \in Hosts, RetryResolving(h) PROVE HostsOK' /\ ResolverInv'
    BY <1>9 DEF RetryResolving, socketVars
  <1>10. ASSUME NEW h \in Hosts, NEW a \in (SUBSET {s \in Sockets : HostOf[s] = h}) \ {{}},
                NameResolutionComplete(h, a)
         PROVE  HostsOK' /\ ResolverInv'
    BY <1>10 DEF NameResolutionComplete
  <1>11. ASSUME NEW s \in Sockets,
                ShortTimeout(s) \/ ThrottleTimeout(s) \/ SendToNextPollingHost(s)
         PROVE  HostsOK' /\ ResolverInv'
    <2>1. UNCHANGED <<doneResolving, retryTimer, created>> /\ (UNCHANGED resolving \/ ResolveOne)
      BY <1>11, Zenon
         DEF ShortTimeout, ThrottleTimeout, SendToNextPollingHost, EnsureFreshHostAvailable,
             hostVars, socketVars
    <2> QED
      BY <1>3, <2>1
  <1>12. ASSUME NEW s \in Sockets,
                ReceiveBadPacket(s) \/ ReceiveLastPacket(s) \/ ReceiveGoodPacket(s)
         PROVE  HostsOK' /\ ResolverInv'
    BY <1>3, <1>12
       DEF ReceiveBadPacket, ReceiveLastPacket, ReceiveGoodPacket, Receives, hostVars
  <1> QED
    BY <1>1, <1>4, <1>5, <1>6, <1>7, <1>8, <1>9, <1>10, <1>11, <1>12 DEF Next
\* The queue, the timers and the packets waited for keep their ranges.
LEMMA SocketsCallStep ==
  ASSUME TypeOK, StackInv, MakeCall
  PROVE  SocketsOK'
  <1> USE BoundsAssumption DEF SocketsOK
  <1>1. SocketsOK
    BY DEF TypeOK
  <1>2. \A s \in Sockets : /\ outstanding[s] \in 0 .. MaxPackets
                           /\ queued[s] \in 0 .. MaxEntries
    BY <1>1
  <1>3. BadHostRTT \in 0 .. BadHostRTT
    BY DEF BadHostRTT
  <1>4. /\ \A s \in Sockets : More(outstanding[s], MaxPackets) \in 0 .. MaxPackets
        /\ \A s \in Sockets : More(queued[s], MaxEntries) \in 0 .. MaxEntries
    BY <1>2, MoreType
  <1>5. \A s \in Entries : queued[s] - 1 \in 0 .. MaxEntries
    BY <1>2 DEF Entries
  <1>6. ASSUME NEW s \in Sockets,
               \/ SendIsTooEarly(s) \/ ConnectFails(s) \/ SendIsThrottled(s)
               \/ PacketIsSent(s) \/ SendFails(s)
        PROVE  SocketsOK'
    <2>1. s \in created
      BY <1>6, CallerExists
         DEF SendIsTooEarly, ConnectFails, SendIsThrottled, PacketIsSent, SendFails, CallsSend, Calling
    <2> QED
      BY <1>1, <1>3, <1>4, <1>6, <2>1
         DEF SendIsTooEarly, ConnectFails, SendIsThrottled, PacketIsSent, SendFails, SetRTT,
             socketVars, queueVars
  <1>7. ASSUME ResolveAnother \/ GotBadPacketAgain \/ EndOfBadPacket PROVE SocketsOK'
    BY <1>1, <1>7 DEF ResolveAnother, GotBadPacketAgain, EndOfBadPacket, socketVars, queueVars
  <1>8. ASSUME NEW s \in Sockets, SendToFastest(s) \/ SendToThisOne(s) \/ GotBadPacket(s)
        PROVE  SocketsOK'
    BY <1>1, <1>4, <1>5, <1>8
       DEF SendToFastest, SendToThisOne, GotBadPacket, Push, Pop, IsTop, socketVars, queueVars
  <1>9. ASSUME NEW s \in Sockets, NEW t \in Sockets, SendToFaster(s, t) PROVE SocketsOK'
    <2> DEFINE popped == [queued EXCEPT ![t] = @ - 1]
    <2>1. popped \in [Sockets -> 0 .. MaxEntries]
      BY <1>1, <1>5, <1>9 DEF SendToFaster, IsTop
    <2>2. More(popped[s], MaxEntries) \in 0 .. MaxEntries
      BY <2>1, MoreType
    <2>3. queued' = [popped EXCEPT ![s] = More(@, MaxEntries)]
      BY <1>9 DEF SendToFaster
    <2> QED
      BY <1>1, <1>9, <2>1, <2>2, <2>3 DEF SendToFaster, socketVars
  <1> QED
    BY <1>6, <1>7, <1>8, <1>9 DEF MakeCall, SendPacket

LEMMA SocketsStep ==
  ASSUME TypeOK, StackInv, [Next]_vars
  PROVE  SocketsOK'
  <1> USE BoundsAssumption DEF SocketsOK
  <1>1. SocketsOK
    BY DEF TypeOK
  <1>2. CASE UNCHANGED vars
    BY <1>1, <1>2 DEF vars, socketVars, queueVars
  <1>3. CASE MakeCall
    BY <1>3, SocketsCallStep
  <1>4. CASE StartSyncing \/ StopSyncing
    BY <1>4 DEF StartSyncing, StopSyncing, NothingThere, BadHostRTT
  <1>5. CASE BumpProximity \/ NoProgressTimeout
    BY <1>1, <1>5 DEF BumpProximity, NoProgressTimeout, socketVars, queueVars
  <1>6. ASSUME NEW h \in Hosts, NameResolutionFailed(h) \/ RetryResolving(h) PROVE SocketsOK'
    BY <1>1, <1>6 DEF NameResolutionFailed, RetryResolving, socketVars, queueVars
  <1>7. ASSUME NEW h \in Hosts, NEW a \in (SUBSET {s \in Sockets : HostOf[s] = h}) \ {{}},
               NameResolutionComplete(h, a)
        PROVE  SocketsOK'
    BY <1>1, <1>7 DEF NameResolutionComplete
  <1>8. ASSUME NEW s \in Sockets,
               ShortTimeout(s) \/ ThrottleTimeout(s) \/ SendToNextPollingHost(s)
        PROVE  SocketsOK'
    BY <1>1, <1>8 DEF ShortTimeout, ThrottleTimeout, SendToNextPollingHost, socketVars, queueVars
  <1>9. ASSUME NEW s \in Sockets,
               ReceiveBadPacket(s) \/ ReceiveLastPacket(s) \/ ReceiveGoodPacket(s)
        PROVE  SocketsOK'
    <2>1. \E rtt \in 0 .. BadHostRTT : SetRTT(s, rtt)
      BY <1>1, <1>9
         DEF ReceiveBadPacket, ReceiveLastPacket, ReceiveGoodPacket, BadHostRTT, BadPacketRTT
    <2>2. Receives(s)
      BY <1>9 DEF ReceiveBadPacket, ReceiveLastPacket, ReceiveGoodPacket
    <2> QED
      BY <1>1, <2>1, <2>2 DEF Receives, SetRTT
  <1> QED
    BY <1>2, <1>3, <1>4, <1>5, <1>6, <1>7, <1>8, <1>9 DEF Next

-----------------------------------------------------------------------------
(* Time-outs: only a packet that is sent arms one, only an answer takes it  *)
(* off the list, and it stops the timer.                                    *)

LEMMA TimeoutStep ==
  ASSUME TypeOK, TimeoutHasItsPacket, [Next]_vars
  PROVE  TimeoutHasItsPacket'
  <1> USE DEF TimeoutHasItsPacket
  <1>1. SocketsOK
    BY DEF TypeOK
  <1>2. \A s \in Sockets : More(outstanding[s], MaxPackets) > 0
    BY <1>1, MoreType, BoundsAssumption DEF SocketsOK
  <1>3. CASE UNCHANGED <<timer, outstanding>>
    BY <1>3
  <1>4. CASE MakeCall
    <2>1. ASSUME NEW s \in Sockets, SendIsThrottled(s) \/ PacketIsSent(s) \/ SendFails(s)
          PROVE  TimeoutHasItsPacket'
      BY <1>1, <1>2, <2>1 DEF SendIsThrottled, PacketIsSent, SendFails, SocketsOK
    <2>2. ASSUME ~ \E s \in Sockets : SendIsThrottled(s) \/ PacketIsSent(s) \/ SendFails(s)
          PROVE  UNCHANGED <<timer, outstanding>>
      BY <1>4, <2>2, Zenon
         DEF MakeCall, SendPacket, SendIsTooEarly, ConnectFails, ResolveAnother, SendToFastest,
             SendToThisOne, GotBadPacket, SendToFaster, GotBadPacketAgain, EndOfBadPacket, socketVars
    <2> QED
      BY <1>3, <2>1, <2>2
  <1>5. CASE StartSyncing \/ StopSyncing
    BY <1>5 DEF StartSyncing, StopSyncing, NothingThere
  <1>6. ASSUME NEW s \in Sockets, ShortTimeout(s) \/ ThrottleTimeout(s)
        PROVE  TimeoutHasItsPacket'
    BY <1>1, <1>6 DEF ShortTimeout, ThrottleTimeout, SocketsOK
  <1>7. ASSUME NEW s \in Sockets,
               ReceiveBadPacket(s) \/ ReceiveLastPacket(s) \/ ReceiveGoodPacket(s)
        PROVE  TimeoutHasItsPacket'
    BY <1>1, <1>7
       DEF ReceiveBadPacket, ReceiveLastPacket, ReceiveGoodPacket, Receives, SocketsOK
  <1>8. CASE \/ UNCHANGED vars \/ BumpProximity \/ NoProgressTimeout
             \/ \E s \in Sockets : SendToNextPollingHost(s)
             \/ \E h \in Hosts : NameResolutionFailed(h) \/ RetryResolving(h)
             \/ \E h \in Hosts : \E a \in (SUBSET {s \in Sockets : HostOf[s] = h}) \ {{}} :
                  NameResolutionComplete(h, a)
    <2>1. UNCHANGED <<timer, outstanding>>
      BY <1>8, Zenon
         DEF vars, BumpProximity, NoProgressTimeout, SendToNextPollingHost, NameResolutionFailed,
             RetryResolving, NameResolutionComplete, socketVars
    <2> QED
      BY <1>3, <2>1
  <1> QED
    BY <1>4, <1>5, <1>6, <1>7, <1>8 DEF Next
LEMMA TypeStep ==
  ASSUME TypeOK, StackInv, ResolverInv, [Next]_vars
  PROVE  TypeOK'
  <1>1. FlagsOK' /\ SyncOK' /\ HostsOK'
    BY FlagsStep, SyncStep, ResolverStep DEF TypeOK
  <1>2. SocketsOK'
    BY SocketsStep
  <1>3. todo' \in Seq(OpenCalls') /\ OpenCalls' \subseteq CallRecords
    BY StackStep DEF StackInv, OpenCalls
  <1>4. todo' \in Seq(CallRecords)
    BY <1>3
  <1> QED
    BY <1>1, <1>2, <1>4 DEF TypeOK

LEMMA ModeStep ==
  ASSUME [Next]_vars
  PROVE  UNCHANGED inPollingMode
  BY Zenon
     DEF vars, Next, MakeCall, SendPacket, SendIsTooEarly, ConnectFails, SendIsThrottled,
         PacketIsSent, SendFails, ResolveAnother, SendToFastest, SendToThisOne, GotBadPacket,
         SendToFaster, GotBadPacketAgain, EndOfBadPacket, StartSyncing, StopSyncing,
         BumpProximity, NameResolutionFailed, RetryResolving, NameResolutionComplete,
         NoProgressTimeout, ShortTimeout, ThrottleTimeout, SendToNextPollingHost,
         ReceiveBadPacket, ReceiveLastPacket, ReceiveGoodPacket, Receives

-----------------------------------------------------------------------------
(* The recursion of stateGotBadPacket. *)

\* A call other than the end of a bad packet makes at most one call.
LEMMA GuardedCall ==
  ASSUME NEW S, NEW q \in Seq(S), q # <<>>, NEW r \in BOOLEAN, Guarded(q, r),
         q[1].call # "endBad", NEW c \in S, c.call # "endBad"
  PROVE  Guarded(<<c>> \o Tail(q), r) /\ Guarded(Tail(q), r)
  <1> DEFINE n == <<c>> \o Tail(q)
             t == Tail(q)
  <1>1. /\ Len(n) = Len(q) /\ n[1] = c /\ \A i \in 2 .. Len(q) : n[i] = q[i]
    <2>1. <<c>> \in Seq(S) /\ Len(<<c>>) = 1 /\ <<c>>[1] = c
      OBVIOUS
    <2> QED
      BY <2>1, StackParts, SMTT(30)
  <1>2. /\ Len(t) = Len(q) - 1 /\ \A i \in 1 .. Len(q) - 1 : t[i] = q[i + 1]
        /\ Len(q) \in Nat \ {0}
    BY StackParts
  <1> HIDE DEF n, t
  <1>3. Guarded(n, r)
    BY <1>1, <1>2 DEF Guarded
  <1>4. \A i \in 1 .. Len(t) : i + 1 \in 1 .. Len(q) /\ t[i] = q[i + 1]
    BY <1>2
  <1>5. \A i \in 1 .. Len(q) : i = 1 \/ (i - 1 \in 1 .. Len(t) /\ t[i - 1] = q[i])
    BY <1>2
  <1>6. \A i \in 1 .. Len(t) : t[i].call # "bad"
    BY <1>4 DEF Guarded
  <1>7. \A i, j \in 1 .. Len(t) : t[i].call = "endBad" /\ t[j].call = "endBad" => i = j
    BY <1>4 DEF Guarded
  <1>8. r <=> \E i \in 1 .. Len(t) : t[i].call = "endBad"
    BY <1>4, <1>5 DEF Guarded
  <1>9. Guarded(t, r)
    BY <1>6, <1>7, <1>8 DEF Guarded
  <1> QED
    BY <1>3, <1>9 DEF n, t

\* The first bad packet's call is left with its end on the stack.
LEMMA GuardedBegins ==
  ASSUME NEW S, NEW q \in Seq(S), q # <<>>, Guarded(q, FALSE),
         NEW c \in S, NEW e \in S, c.call \notin {"bad", "endBad"}, e.call = "endBad"
  PROVE  Guarded(<<c, e>> \o Tail(q), TRUE)
  <1> DEFINE n == <<c, e>> \o Tail(q)
  <1>1. /\ Len(n) = Len(q) + 1 /\ n[1] = c /\ n[2] = e
        /\ \A i \in 3 .. Len(q) + 1 : n[i] = q[i - 1]
        /\ Len(q) \in Nat \ {0}
    <2>1. <<c, e>> \in Seq(S) /\ Len(<<c, e>>) = 2 /\ <<c, e>>[1] = c /\ <<c, e>>[2] = e
      OBVIOUS
    <2> QED
      BY <2>1, StackParts, SMTT(30)
  <1> HIDE DEF n
  <1>2. \A i \in 3 .. Len(q) + 1 : n[i].call # "endBad" /\ n[i].call # "bad"
    BY <1>1 DEF Guarded
  <1>3. Guarded(n, TRUE)
    BY <1>1, <1>2 DEF Guarded
  <1> QED
    BY <1>3 DEF n

LEMMA GuardedEnds ==
  ASSUME NEW S, NEW q \in Seq(S), q # <<>>, NEW r, Guarded(q, r), q[1].call = "endBad"
  PROVE  Guarded(Tail(q), FALSE)
  <1> DEFINE t == Tail(q)
  <1>1. /\ Len(t) = Len(q) - 1 /\ \A i \in 1 .. Len(q) - 1 : t[i] = q[i + 1]
        /\ Len(q) \in Nat \ {0}
    BY StackParts
  <1> HIDE DEF t
  <1>2. \A i \in 1 .. Len(t) : t[i].call # "endBad" /\ t[i].call # "bad"
    BY <1>1 DEF Guarded
  <1>3. Guarded(t, FALSE)
    BY <1>2 DEF Guarded
  <1> QED
    BY <1>3 DEF t
LEMMA GuardCallStep ==
  ASSUME TypeOK, StackInv, GuardInv, MakeCall
  PROVE  GuardInv'
  <1>1. SUFFICES ASSUME ~inPollingMode PROVE GuardInv'
    <2>1. inPollingMode' = inPollingMode
      BY ModeStep DEF Next
    <2> QED
      BY <1>1, <2>1 DEF GuardInv
  <1>2. /\ todo \in Seq(OpenCalls) /\ recursing \in BOOLEAN /\ Guarded(todo, recursing)
        /\ Calling("bad") /\ recursing => Head(todo).of \subseteq sendFailed
    BY <1>1 DEF TypeOK, FlagsOK, StackInv, GuardInv
  <1>3. /\ todo # <<>> => Head(todo) = todo[1]
        /\ \A kind : Calling(kind) => todo # <<>> /\ todo[1].call = kind
    BY <1>2, StackParts DEF Calling
  <1> DEFINE StillGuarded == Guarded(todo', recursing')
             Cause == recursing' /\ Calling("bad")' => Head(todo').of \subseteq sendFailed'
  <1>4. SUFFICES StillGuarded /\ Cause
    BY DEF GuardInv
  <1>5. ASSUME NEW p \in Seq(OpenCalls), todo # <<>>, ReturnTo(p), p # <<>>
        PROVE  Head(todo') = p[1] /\ todo' # <<>>
    <2>1. todo' = p \o Tail(todo) /\ Len(p) \in Nat \ {0}
      BY <1>5 DEF ReturnTo
    <2>2. Len(todo') = Len(p) + Len(todo) - 1 /\ todo'[1] = p[1] /\ Len(todo) \in Nat \ {0}
      BY <1>2, <1>5, <2>1, Returned, StackParts
    <2>3. todo' \in Seq(OpenCalls)
      BY <1>2, <1>5, <2>1, Returned
    <2> QED
      BY <2>1, <2>2, <2>3
  <1>6. ASSUME NEW c \in OpenCalls, todo # <<>>, todo[1].call # "endBad", c.call # "endBad",
               ReturnTo(<<c>>), UNCHANGED recursing,
               c.call = "bad" => c.of \subseteq sendFailed'
        PROVE  StillGuarded /\ Cause
    <2>1. StillGuarded
      BY <1>2, <1>6, GuardedCall DEF ReturnTo
    <2>2. <<c>> \in Seq(OpenCalls) /\ <<c>> # <<>> /\ <<c>>[1] = c
      OBVIOUS
    <2>3. Head(todo') = c
      BY <1>5, <1>6, <2>2
    <2> QED
      BY <1>6, <2>1, <2>3 DEF Calling
  <1>7. ASSUME todo # <<>>, todo[1].call # "endBad", Return, UNCHANGED recursing
        PROVE  StillGuarded /\ Cause
    <2>1. StillGuarded
      <3>1. PICK c \in OpenCalls : c.call # "endBad"
        BY CallsOfDriver, CallFields
      <3> QED
        BY <1>2, <1>7, <3>1, GuardedCall DEF Return
    <2>2. ~Calling("bad")'
      <3>1. todo' = Tail(todo)
        BY <1>7 DEF Return
      <3>2. todo' # <<>> => Head(todo') = todo[2] /\ 2 \in 1 .. Len(todo)
        BY <1>2, <1>7, <3>1
      <3> QED
        BY <1>2, <3>2 DEF Calling, Guarded
    <2> QED
      BY <2>1, <2>2
  <1>8. SocketsOK
    BY DEF TypeOK
  <1>9. ASSUME NEW s \in Sockets, SendIsTooEarly(s) \/ ConnectFails(s) \/ SendFails(s)
        PROVE  StillGuarded /\ Cause
    <2>1. todo # <<>> /\ todo[1].call # "endBad"
      BY <1>3, <1>9 DEF SendIsTooEarly, ConnectFails, SendFails, CallsSend, Calling
    <2>2. SocketCall("bad", s) \in OpenCalls
      BY <1>8, <1>9, <2>1, CallerExists, CallsOfSockets DEF SendIsTooEarly, ConnectFails, SendFails
    <2>3. s \in sendFailed' /\ ReturnTo(<<SocketCall("bad", s)>>) /\ UNCHANGED recursing
      BY <1>9 DEF SendIsTooEarly, ConnectFails, SendFails, socketVars
    <2> QED
      BY <1>6, <2>1, <2>2, <2>3, CallFields
  <1>10. ASSUME NEW s \in Sockets, SendIsThrottled(s) \/ PacketIsSent(s)
         PROVE  StillGuarded /\ Cause
    BY <1>3, <1>7, <1>10 DEF SendIsThrottled, PacketIsSent, CallsSend
  <1>11. CASE ResolveAnother
    BY <1>3, <1>7, <1>11 DEF ResolveAnother
  <1>12. ASSUME NEW s \in created, todo # <<>>, todo[1].call \in {"fastest", "including"},
                ReturnTo(<<SocketCall("send", s)>>), UNCHANGED recursing
         PROVE  StillGuarded /\ Cause
    BY <1>6, <1>8, <1>12, CallsOfSockets, CallFields
  <1>13. ASSUME NEW s \in Sockets, SendToFastest(s) PROVE StillGuarded /\ Cause
    BY <1>3, <1>12, <1>13 DEF SendToFastest, IsTop, Entries, StackInv
  <1>14. ASSUME NEW s \in Sockets, SendToThisOne(s) PROVE StillGuarded /\ Cause
    BY <1>3, <1>12, <1>14, CallerExists DEF SendToThisOne
  <1>15. ASSUME NEW s \in Sockets, NEW t \in Sockets, SendToFaster(s, t)
         PROVE  StillGuarded /\ Cause
    BY <1>3, <1>12, <1>15 DEF SendToFaster, IsTop, Entries, StackInv
  <1>16. CASE GotBadPacketAgain
    <2>1. todo # <<>> /\ todo[1].call = "bad"
      BY <1>3, <1>16 DEF GotBadPacketAgain
    <2>2. ReturnTo(<<DriverCall("fastest")>>) /\ UNCHANGED recursing
      BY <1>16 DEF GotBadPacketAgain
    <2>3. DriverCall("fastest") \in OpenCalls /\ DriverCall("fastest").call = "fastest"
      BY CallsOfDriver, CallFields
    <2> QED
      BY <1>6, <2>1, <2>2, <2>3
  <1>17. ASSUME NEW s \in Sockets, GotBadPacket(s) PROVE StillGuarded /\ Cause
    <2>1. PICK c \in {SocketCall("send", s), DriverCall("fastest")} :
            ReturnTo(<<c, DriverCall("endBad")>>)
      BY <1>1, <1>17 DEF GotBadPacket
    <2>2. todo # <<>> /\ ~recursing /\ recursing'
      BY <1>3, <1>17 DEF GotBadPacket
    <2>3. c \in OpenCalls /\ DriverCall("endBad") \in OpenCalls
      BY <1>8, <1>17, <2>2, CallerExists, CallsOfSockets, CallsOfDriver DEF GotBadPacket
    <2>4. c.call \in {"send", "fastest"} /\ DriverCall("endBad").call = "endBad"
      BY CallFields
    <2>5. recursing = FALSE /\ recursing' = TRUE
      BY <1>2, <1>17, <2>2 DEF GotBadPacket
    <2>6. Guarded(todo', TRUE)
      <3>1. Guarded(todo, FALSE)
        BY <1>2, <2>5
      <3>2. todo' = <<c, DriverCall("endBad")>> \o Tail(todo)
        BY <2>1 DEF ReturnTo
      <3> QED
        BY <1>2, <2>2, <2>3, <2>4, <3>1, <3>2, GuardedBegins
    <2>7. Head(todo') = c
      <3>1. /\ <<c, DriverCall("endBad")>> \in Seq(OpenCalls) /\ <<c, DriverCall("endBad")>> # <<>>
            /\ <<c, DriverCall("endBad")>>[1] = c
        BY <2>3
      <3> QED
        BY <1>5, <2>1, <2>2, <3>1
    <2> QED
      BY <2>4, <2>5, <2>6, <2>7 DEF Calling
  <1>18. CASE EndOfBadPacket
    <2>1. todo # <<>> /\ todo[1].call = "endBad" /\ recursing' = FALSE /\ todo' = Tail(todo)
      BY <1>3, <1>18 DEF EndOfBadPacket, Return
    <2>2. Guarded(todo', FALSE)
      BY <1>2, <2>1, GuardedEnds
    <2> QED
      BY <2>1, <2>2
  <1> QED
    BY <1>9, <1>10, <1>11, <1>13, <1>14, <1>15, <1>16, <1>17, <1>18 DEF MakeCall, SendPacket

\* An event finds no call on the stack, and makes no end of a bad packet.
LEMMA GuardEventStep ==
  ASSUME TypeOK, StackInv, GuardInv, [Next]_vars, ~MakeCall
  PROVE  GuardInv'
  <1>1. SUFFICES ASSUME ~inPollingMode PROVE GuardInv'
    <2>1. inPollingMode' = inPollingMode
      BY ModeStep
    <2> QED
      BY <1>1, <2>1 DEF GuardInv
  <1>2. recursing \in BOOLEAN /\ Guarded(todo, recursing) /\ SocketsOK
    BY <1>1 DEF TypeOK, FlagsOK, GuardInv
  <1>3. CASE UNCHANGED <<todo, recursing>> /\ todo = <<>>
    <2>1. ~recursing
      BY <1>2, <1>3 DEF Guarded
    <2> QED
      BY <1>2, <1>3, <2>1 DEF GuardInv
  <1>4. ASSUME todo = <<>>, UNCHANGED recursing, NEW n, todo' = n, Len(n) \in Nat,
               \A i \in 1 .. Len(n) : n[i].call # "endBad" /\ (n[i].call = "bad" => i = 1)
        PROVE  GuardInv'
    <2>1. recursing = FALSE
      BY <1>2, <1>4 DEF Guarded
    <2>2. Guarded(n, FALSE)
      BY <1>4 DEF Guarded
    <2> QED
      BY <1>4, <2>1, <2>2 DEF GuardInv
  <1>5. ASSUME todo = <<>>, UNCHANGED recursing, NEW c, todo' = <<c>>, c.call # "endBad"
        PROVE  GuardInv'
    BY <1>4, <1>5
  <1>6. CASE UNCHANGED vars
    BY <1>2, <1>6 DEF vars, callVars, socketVars, GuardInv, Calling
  <1>7. CASE StartSyncing \/ StopSyncing \/ BumpProximity
    BY <1>3, <1>7 DEF StartSyncing, StopSyncing, BumpProximity, AtRest, callVars, StackInv
  <1>8. ASSUME NEW h \in Hosts, NameResolutionFailed(h) \/ RetryResolving(h) PROVE GuardInv'
    BY <1>3, <1>8 DEF NameResolutionFailed, RetryResolving, AtRest, callVars
  <1>9. ASSUME NEW h \in Hosts, NEW a \in (SUBSET {s \in Sockets : HostOf[s] = h}) \ {{}},
               NameResolutionComplete(h, a)
        PROVE  GuardInv'
    <2>1. todo = <<>> /\ UNCHANGED recursing
      BY <1>9 DEF NameResolutionComplete, AtRest
    <2>2. PICK order \in [1 .. Cardinality(a) -> a] :
            todo' = IF h \in UserHosts THEN [i \in DOMAIN order |-> SocketCall("send", order[i])]
                    ELSE <<DriverCall("fastest")>>
      BY <1>1, <1>9 DEF NameResolutionComplete
    <2>3. Cardinality(a) \in Nat
      BY HostsAssumption, FS_Subset, FS_CardinalityType
    <2>4. CASE h \in UserHosts
      <3> DEFINE n == [i \in 1 .. Cardinality(a) |-> SocketCall("send", order[i])]
      <3>1. todo' = n
        BY <2>2, <2>4
      <3>2. Len(n) = Cardinality(a)
        BY <2>3
      <3>3. \A i \in 1 .. Cardinality(a) : n[i].call = "send"
        BY CallFields
      <3> QED
        BY <1>4, <2>1, <2>3, <3>1, <3>2, <3>3
    <2>5. CASE h \notin UserHosts
      BY <1>5, <2>1, <2>2, <2>5, CallFields
    <2> QED
      BY <2>4, <2>5
  <1>10. CASE NoProgressTimeout
    <2>1. todo = <<>> /\ UNCHANGED recursing
      BY <1>10 DEF NoProgressTimeout, AtRest
    <2>2. todo' = <<DriverCall("fastest")>> \/ UNCHANGED todo
      BY <1>10 DEF NoProgressTimeout
    <2>3. DriverCall("fastest").call # "endBad"
      BY CallFields
    <2>4. CASE todo' = <<DriverCall("fastest")>>
      BY <1>5, <2>1, <2>3, <2>4
    <2>5. CASE UNCHANGED todo
      BY <1>3, <2>1, <2>5
    <2> QED
      BY <2>2, <2>4, <2>5
  <1>11. ASSUME NEW s \in Sockets,
                ShortTimeout(s) \/ ThrottleTimeout(s) \/ SendToNextPollingHost(s)
         PROVE  GuardInv'
    <2>1. todo = <<>> /\ UNCHANGED recursing
      BY <1>11 DEF ShortTimeout, ThrottleTimeout, SendToNextPollingHost, AtRest
    <2>2. \E kind \in {"send", "including", "sendWithTicket"} : todo' = <<SocketCall(kind, s)>>
      BY <1>1, <1>11 DEF ShortTimeout, ThrottleTimeout, SendToNextPollingHost
    <2> QED
      BY <1>5, <2>1, <2>2, CallFields
  <1>12. ASSUME NEW s \in Sockets,
                ReceiveBadPacket(s) \/ ReceiveLastPacket(s) \/ ReceiveGoodPacket(s)
         PROVE  GuardInv'
    <2>1. todo = <<>> /\ UNCHANGED recursing
      BY <1>12 DEF ReceiveBadPacket, ReceiveLastPacket, ReceiveGoodPacket, Receives
    <2>2. \/ \E kind \in {"send", "including", "bad"} : todo' = <<SocketCall(kind, s)>>
          \/ UNCHANGED todo
      BY <1>1, <1>12 DEF ReceiveBadPacket, ReceiveLastPacket, ReceiveGoodPacket
    <2> QED
      BY <1>3, <1>5, <2>1, <2>2, CallFields
  <1> QED
    BY <1>6, <1>7, <1>8, <1>9, <1>10, <1>11, <1>12 DEF Next
-----------------------------------------------------------------------------
(* No host is lost. *)

\* What is on the stack below the call that runs stays there, and what the
\* call makes comes on top.
LEMMA KeptBelow ==
  ASSUME StackInv, todo # <<>>, NEW p \in Seq(OpenCalls), todo' = p \o Tail(todo),
         NEW u, \E i \in 1 .. Len(todo) : u \in todo[i].of
  PROVE  u \in Head(todo).of \/ \E i \in 1 .. Len(todo') : u \in todo'[i].of
  <1>1. todo \in Seq(OpenCalls)
    BY DEF StackInv
  <1>2. PICK i \in 1 .. Len(todo) : u \in todo[i].of
    OBVIOUS
  <1>3. CASE i = 1
    BY <1>1, <1>2, <1>3, StackParts
  <1>4. CASE i # 1
    <2>1. /\ Len(todo') = Len(p) + Len(todo) - 1 /\ Len(p) \in Nat /\ Len(todo) \in Nat
          /\ \A j \in 1 .. Len(todo) - 1 : todo'[Len(p) + j] = todo[j + 1]
      BY <1>1, Returned, StackParts
    <2>2. i - 1 \in 1 .. Len(todo) - 1 /\ (i - 1) + 1 = i
      BY <1>2, <1>4, <2>1
    <2>3. todo'[Len(p) + (i - 1)] = todo[i]
      BY <2>1, <2>2
    <2>4. Len(p) + (i - 1) \in 1 .. Len(todo')
      BY <1>2, <1>4, <2>1
    <2> QED
      BY <1>2, <2>3, <2>4
  <1> QED
    BY <1>3, <1>4

LEMMA KeptOnTop ==
  ASSUME StackInv, todo # <<>>, NEW p \in Seq(OpenCalls), ReturnTo(p),
         NEW u, p # <<>>, u \in p[1].of
  PROVE  \E i \in 1 .. Len(todo') : u \in todo'[i].of
  <1>1. todo \in Seq(OpenCalls) /\ todo' = p \o Tail(todo)
    BY DEF StackInv, ReturnTo
  <1>2. 1 \in 1 .. Len(p) /\ Len(p) \in Nat
    OBVIOUS
  <1>3. todo'[1] = p[1] /\ Len(todo') = Len(p) + Len(todo) - 1 /\ Len(todo) \in Nat \ {0}
    BY <1>1, <1>2, Returned, StackParts
  <1>4. 1 \in 1 .. Len(todo')
    BY <1>2, <1>3
  <1> QED
    BY <1>3, <1>4

LEMMA KeptCallStep ==
  ASSUME TypeOK, StackInv, GuardInv, KeptInv, MakeCall
  PROVE  KeptInv'
  <1>1. todo # <<>> /\ UNCHANGED <<created, running, stopReading>> /\ inPollingMode' = inPollingMode
    <2>1. inPollingMode' = inPollingMode
      BY ModeStep DEF Next
    <2> QED
      BY <2>1
         DEF MakeCall, SendPacket, SendIsTooEarly, ConnectFails, SendIsThrottled, PacketIsSent,
             SendFails, ResolveAnother, SendToFastest, SendToThisOne, GotBadPacket, SendToFaster,
             GotBadPacketAgain, EndOfBadPacket, CallsSend, Calling, socketVars, syncVars
  <1>2. SUFFICES ASSUME running, ~stopReading, ~inPollingMode, NEW u \in created \ sendFailed'
                 PROVE  Kept(u)'
    BY <1>1 DEF KeptInv
  <1>3. SocketsOK /\ u \in Sockets /\ (u \notin sendFailed => Kept(u)) /\ IsUser(u)' = IsUser(u)
    BY <1>2 DEF TypeOK, SocketsOK, KeptInv, IsUser
  <1>4. ASSUME NEW p \in Seq(OpenCalls), ReturnTo(p), u \notin sendFailed,
               u \notin Head(todo).of, timer'[u] = timer[u], (queued[u] > 0 => queued'[u] > 0)
        PROVE  Kept(u)'
    <2>1. CASE \E i \in 1 .. Len(todo) : u \in todo[i].of
      BY <1>1, <1>4, <2>1, KeptBelow DEF ReturnTo, Kept
    <2>2. CASE timer[u] # "null"
      BY <1>4, <2>2 DEF Kept
    <2>3. CASE ~IsUser(u) /\ queued[u] > 0
      BY <1>3, <1>4, <2>3 DEF Kept
    <2> QED
      BY <1>3, <1>4, <2>1, <2>2, <2>3 DEF Kept
  <1>5. ASSUME Return, u \notin sendFailed, u \notin Head(todo).of, timer'[u] = timer[u],
               queued'[u] = queued[u]
        PROVE  Kept(u)'
    <2>1. todo \in Seq(OpenCalls)
      BY DEF StackInv
    <2>2. <<>> \in Seq(OpenCalls) /\ <<>> \o Tail(todo) = Tail(todo)
      BY <1>1, <2>1, StackParts
    <2>3. queued[u] > 0 => queued'[u] > 0
      BY <1>5
    <2> QED
      BY <1>4, <1>5, <2>2, <2>3 DEF Return, ReturnTo
  <1>6. \A s \in Sockets : Of(s) => s \in created /\ Head(todo).of = {s}
    BY <1>1, CallerExists
  <1>7. /\ \A s \in created : <<SocketCall("send", s)>> \in Seq(OpenCalls)
        /\ \A s \in created : <<SocketCall("bad", s)>> \in Seq(OpenCalls)
        /\ <<DriverCall("fastest")>> \in Seq(OpenCalls)
    BY <1>3, CallsOfSockets, CallsOfDriver
  <1>8. ASSUME NEW s \in created, ReturnTo(<<SocketCall("send", s)>>), u = s PROVE Kept(u)'
    <2>1. /\ <<SocketCall("send", s)>> # <<>> /\ s \in <<SocketCall("send", s)>>[1].of
      BY CallFields
    <2> QED
      BY <1>1, <1>7, <1>8, <2>1, KeptOnTop DEF Kept
  <1>9. ASSUME NEW s \in Sockets, SendIsTooEarly(s) \/ ConnectFails(s) \/ SendFails(s)
        PROVE  Kept(u)'
    <2>1. s \in created /\ Head(todo).of = {s} /\ ReturnTo(<<SocketCall("bad", s)>>)
      BY <1>6, <1>9 DEF SendIsTooEarly, ConnectFails, SendFails
    <2>2. s \in sendFailed' /\ u \notin sendFailed
      BY <1>2, <1>9 DEF SendIsTooEarly, ConnectFails, SendFails, socketVars
    <2>3. u # s /\ timer'[u] = timer[u] /\ (queued[u] > 0 => queued'[u] > 0)
      BY <1>2, <1>3, <1>9, <2>2
         DEF SendIsTooEarly, ConnectFails, SendFails, SocketsOK, socketVars, queueVars
    <2> QED
      BY <1>4, <1>7, <2>1, <2>2, <2>3
  <1>10. ASSUME NEW s \in Sockets, SendIsThrottled(s) \/ PacketIsSent(s) PROVE Kept(u)'
    <2>1. Head(todo).of = {s} /\ Return
      BY <1>6, <1>10 DEF SendIsThrottled, PacketIsSent
    <2>2. CASE u = s
      BY <1>3, <1>10, <2>2 DEF SendIsThrottled, PacketIsSent, SocketsOK, Kept
    <2>3. CASE u # s
      <3>1. u \notin sendFailed /\ timer'[u] = timer[u] /\ queued'[u] = queued[u]
        BY <1>2, <1>3, <1>10, <2>3 DEF SendIsThrottled, PacketIsSent, SocketsOK, queueVars
      <3> QED
        BY <1>5, <2>1, <2>3, <3>1
    <2> QED
      BY <2>2, <2>3
  <1>11. Calling("fastest") \/ Calling("endBad") => Head(todo).of = {}
    BY <1>1, StackParts, Caller DEF Calling, StackInv
  <1>12. CASE ResolveAnother \/ EndOfBadPacket
    <2>1. u \notin sendFailed /\ timer'[u] = timer[u] /\ queued'[u] = queued[u]
      BY <1>2, <1>12 DEF ResolveAnother, EndOfBadPacket, socketVars, queueVars
    <2> QED
      BY <1>5, <1>11, <1>12, <2>1 DEF ResolveAnother, EndOfBadPacket
  <1>13. ASSUME NEW s \in Sockets, SendToFastest(s) PROVE Kept(u)'
    <2>1. s \in created /\ ReturnTo(<<SocketCall("send", s)>>) /\ u \notin Head(todo).of
      BY <1>11, <1>13 DEF SendToFastest, IsTop, Entries, StackInv
    <2>2. CASE u # s
      <3>1. u \notin sendFailed /\ timer'[u] = timer[u] /\ (queued[u] > 0 => queued'[u] > 0)
        BY <1>2, <1>3, <1>13, <2>2 DEF SendToFastest, Pop, socketVars, SocketsOK
      <3> QED
        BY <1>4, <1>7, <2>1, <3>1
    <2> QED
      BY <1>8, <2>1, <2>2
  <1>14. ASSUME NEW s \in Sockets, SendToThisOne(s) PROVE Kept(u)'
    <2>1. s \in created /\ Head(todo).of = {s} /\ ReturnTo(<<SocketCall("send", s)>>)
      BY <1>6, <1>14 DEF SendToThisOne
    <2>2. CASE u # s
      <3>1. u \notin sendFailed /\ timer'[u] = timer[u] /\ (queued[u] > 0 => queued'[u] > 0)
        BY <1>2, <1>3, <1>14, <2>2 DEF SendToThisOne, socketVars, queueVars, SocketsOK
      <3> QED
        BY <1>4, <1>7, <2>1, <2>2, <3>1
    <2> QED
      BY <1>8, <2>1, <2>2
  <1>15. ASSUME NEW s \in Sockets, NEW t \in Sockets, SendToFaster(s, t) PROVE Kept(u)'
    <2>1. /\ s \in created /\ Head(todo).of = {s} /\ t \in created
          /\ ReturnTo(<<SocketCall("send", t)>>)
      BY <1>6, <1>15 DEF SendToFaster, IsTop, Entries, StackInv
    <2>2. CASE u # s /\ u # t
      <3>1. u \notin sendFailed /\ timer'[u] = timer[u] /\ (queued[u] > 0 => queued'[u] > 0)
        BY <1>2, <1>3, <1>15, <2>2 DEF SendToFaster, socketVars, SocketsOK
      <3> QED
        BY <1>4, <1>7, <2>1, <2>2, <3>1
    <2>3. CASE u = s /\ u # t
      <3>1. queued[s] \in 0 .. MaxEntries
        BY <1>3, <2>3 DEF SocketsOK
      <3>2. queued'[s] = More(queued[s], MaxEntries)
        BY <1>3, <1>15, <2>3 DEF SendToFaster, SocketsOK
      <3>3. queued'[s] > 0
        BY <3>1, <3>2, MoreType, BoundsAssumption
      <3>4. ~IsUser(s)
        BY <1>1, <1>15, StackParts, Caller DEF SendToFaster, Calling, Of, StackInv
      <3> QED
        BY <1>3, <2>3, <3>3, <3>4 DEF Kept
    <2> QED
      BY <1>8, <2>1, <2>2, <2>3
  <1>16. CASE GotBadPacketAgain
    <2>1. Head(todo).of \subseteq sendFailed
      BY <1>2, <1>16 DEF GotBadPacketAgain, GuardInv
    <2>2. u \notin sendFailed /\ timer'[u] = timer[u] /\ (queued[u] > 0 => queued'[u] > 0)
      BY <1>2, <1>3, <1>16 DEF GotBadPacketAgain, socketVars, queueVars, SocketsOK
    <2> QED
      BY <1>4, <1>7, <1>16, <2>1, <2>2 DEF GotBadPacketAgain
  <1>17. ASSUME NEW s \in Sockets, GotBadPacket(s) PROVE Kept(u)'
    <2>1. s \in created /\ Head(todo).of = {s}
      BY <1>6, <1>17 DEF GotBadPacket
    <2>2. PICK p \in {<<SocketCall("send", s), DriverCall("endBad")>>,
                      <<DriverCall("fastest"), DriverCall("endBad")>>} :
            ReturnTo(p) /\ (IsUser(s) => p = <<SocketCall("send", s), DriverCall("endBad")>>)
      BY <1>2, <1>17 DEF GotBadPacket
    <2>3. p \in Seq(OpenCalls)
      <3>1. /\ SocketCall("send", s) \in OpenCalls /\ DriverCall("fastest") \in OpenCalls
            /\ DriverCall("endBad") \in OpenCalls
        BY <1>3, <2>1, CallsOfSockets, CallsOfDriver
      <3>2. /\ <<SocketCall("send", s), DriverCall("endBad")>> \in Seq(OpenCalls)
            /\ <<DriverCall("fastest"), DriverCall("endBad")>> \in Seq(OpenCalls)
        BY <3>1
      <3> QED
        BY <2>2, <3>2
    <2>4. queued[s] \in 0 .. MaxEntries /\ s \in Sockets
      BY <1>3 DEF SocketsOK
    <2>5. ~IsUser(s) => queued' = [queued EXCEPT ![s] = More(@, MaxEntries)]
      BY <1>17 DEF GotBadPacket, Push
    <2>6. IsUser(s) => queued' = queued
      BY <1>17 DEF GotBadPacket
    <2>7. CASE u # s
      <3>1. u \notin sendFailed /\ timer'[u] = timer[u]
        BY <1>2, <1>17 DEF GotBadPacket, socketVars
      <3>2. (queued[u] > 0 => queued'[u] > 0)
        BY <1>3, <2>5, <2>6, <2>7 DEF SocketsOK
      <3> QED
        BY <1>4, <2>1, <2>2, <2>3, <2>7, <3>1, <3>2
    <2>8. CASE u = s /\ IsUser(s)
      <3>1. p # <<>> /\ p[1] = SocketCall("send", s)
        BY <2>2, <2>8
      <3>2. u \in p[1].of
        BY <2>8, <3>1, CallFields
      <3> QED
        BY <1>1, <2>2, <2>3, <3>1, <3>2, KeptOnTop DEF Kept
    <2>9. CASE u = s /\ ~IsUser(s)
      <3>1. queued'[s] = More(queued[s], MaxEntries)
        BY <1>3, <2>5, <2>9 DEF SocketsOK
      <3>2. queued'[s] > 0
        BY <2>4, <3>1, MoreType, BoundsAssumption
      <3> QED
        BY <1>3, <2>9, <3>2 DEF Kept
    <2> QED
      BY <2>7, <2>8, <2>9
  <1> QED
    BY <1>9, <1>10, <1>12, <1>13, <1>14, <1>15, <1>16, <1>17 DEF MakeCall, SendPacket

\* A handler is over when the next event comes: a socket that is kept then is
\* queued or waits for a timer, or the event's own call is about it.
LEMMA KeptEventStep ==
  ASSUME TypeOK, StackInv, KeptInv, [Next]_vars, ~MakeCall
  PROVE  KeptInv'
  <1>1. inPollingMode' = inPollingMode /\ SocketsOK
    BY ModeStep DEF TypeOK
  <1>2. CASE UNCHANGED vars
    BY <1>2 DEF vars, syncVars, socketVars, queueVars, callVars, KeptInv, Kept, IsUser
  <1>3. CASE StartSyncing \/ StopSyncing
    BY <1>3 DEF StartSyncing, StopSyncing, NothingThere, KeptInv
  <1>4. SUFFICES ASSUME Next, ~StartSyncing, ~StopSyncing, running', ~stopReading', ~inPollingMode,
                        NEW u \in created' \ sendFailed'
                 PROVE  Kept(u)'
    BY <1>1, <1>2, <1>3 DEF KeptInv
  <1> DEFINE Waits == timer[u] # "null" \/ (~IsUser(u) /\ queued[u] > 0)
  <1>5. ASSUME running, ~stopReading, todo = <<>>, u \in created, u \notin sendFailed
        PROVE  Waits
    BY <1>4, <1>5 DEF KeptInv, Kept
  <1>6. ASSUME Waits, timer'[u] = timer[u], queued'[u] = queued[u] PROVE Kept(u)'
    BY <1>6 DEF Kept, IsUser
  <1>7. ASSUME NEW c, todo' = <<c>>, u \in c.of PROVE Kept(u)'
    <2>1. 1 \in 1 .. Len(todo') /\ todo'[1] = c
      BY <1>7
    <2> QED
      BY <1>7, <2>1 DEF Kept
  <1>8. CASE BumpProximity \/ NoProgressTimeout
    BY <1>4, <1>5, <1>6, <1>8 DEF BumpProximity, NoProgressTimeout, AtRest, socketVars, queueVars
  <1>9. ASSUME NEW h \in Hosts, NameResolutionFailed(h) \/ RetryResolving(h) PROVE Kept(u)'
    BY <1>4, <1>5, <1>6, <1>9
       DEF NameResolutionFailed, RetryResolving, AtRest, socketVars, queueVars
  <1>10. ASSUME NEW h \in Hosts, NEW a \in (SUBSET {s \in Sockets : HostOf[s] = h}) \ {{}},
                NameResolutionComplete(h, a)
         PROVE  Kept(u)'
    <2>1. CASE u \notin a
      BY <1>1, <1>4, <1>5, <1>6, <1>10, <2>1 DEF NameResolutionComplete, AtRest, SocketsOK
    <2>2. CASE u \in a /\ h \notin UserHosts
      BY <1>10, <2>2 DEF NameResolutionComplete, Kept, IsUser
    <2>3. CASE u \in a /\ h \in UserHosts
      <3>1. PICK order \in [1 .. Cardinality(a) -> a] :
              /\ {order[i] : i \in DOMAIN order} = a
              /\ todo' = [i \in DOMAIN order |-> SocketCall("send", order[i])]
        BY <1>4, <1>10, <2>3 DEF NameResolutionComplete
      <3>2. Cardinality(a) \in Nat
        BY HostsAssumption, FS_Subset, FS_CardinalityType
      <3>3. PICK i \in 1 .. Cardinality(a) : order[i] = u
        BY <2>3, <3>1
      <3>4. Len(todo') = Cardinality(a) /\ todo'[i] = SocketCall("send", u)
        BY <3>1, <3>2, <3>3
      <3>5. i \in 1 .. Len(todo') /\ u \in todo'[i].of
        BY <3>3, <3>4, CallFields
      <3> QED
        BY <3>5 DEF Kept
    <2> QED
      BY <2>1, <2>2, <2>3
  <1>11. ASSUME NEW s \in Sockets, ShortTimeout(s) \/ ThrottleTimeout(s) PROVE Kept(u)'
    <2>1. \E kind \in {"send", "including", "sendWithTicket"} : todo' = <<SocketCall(kind, s)>>
      BY <1>4, <1>11 DEF ShortTimeout, ThrottleTimeout
    <2>2. CASE u = s
      BY <1>7, <2>1, <2>2, CallFields
    <2>3. CASE u # s
      BY <1>1, <1>4, <1>5, <1>6, <1>11, <2>3
         DEF ShortTimeout, ThrottleTimeout, AtRest, queueVars, SocketsOK
    <2> QED
      BY <2>2, <2>3
  <1>12. ASSUME NEW s \in Sockets, SendToNextPollingHost(s) PROVE Kept(u)'
    BY <1>4, <1>12 DEF SendToNextPollingHost
  <1>13. ASSUME NEW s \in Sockets,
                ReceiveBadPacket(s) \/ ReceiveLastPacket(s) \/ ReceiveGoodPacket(s)
         PROVE  Kept(u)'
    <2>1. ~ReceiveLastPacket(s)
      BY <1>4 DEF ReceiveLastPacket
    <2>2. Receives(s) /\ UNCHANGED stopReading
      BY <1>13, <2>1 DEF ReceiveBadPacket, ReceiveGoodPacket
    <2>3. \E kind \in {"send", "including", "bad"} : todo' = <<SocketCall(kind, s)>>
      BY <1>4, <1>13, <2>1 DEF ReceiveBadPacket, ReceiveGoodPacket
    <2>4. CASE u = s
      BY <1>7, <2>3, <2>4, CallFields
    <2>5. CASE u # s
      BY <1>1, <1>4, <1>5, <1>6, <2>2, <2>5 DEF Receives, SocketsOK
    <2> QED
      BY <2>4, <2>5
  <1>14. ~MakeCall
    OBVIOUS
  <1> QED
    BY <1>4, <1>8, <1>9, <1>10, <1>11, <1>12, <1>13, <1>14 DEF Next

-----------------------------------------------------------------------------
(* What will wake the driver up. *)

Pending == resolving # {} \/ retryTimer # {} \/ \E s \in Sockets : timer[s] # "null"

\* A call on the stack goes on; the end of a bad packet only opens the guard.
Busy == \E i \in 1 .. Len(todo) : todo[i].call # "endBad"

\* Without sockets there is a name being looked up; with some whose last send
\* did not fail, something is pending or a handler is still busy.
PendingInv ==
  running /\ ~stopReading /\ ~inPollingMode =>
    /\ created = {} => resolving # {} \/ retryTimer # {}
    /\ Pending \/ created \subseteq sendFailed \/ Busy

\* A call that makes another one is still busy.
LEMMA BusyOnTop ==
  ASSUME StackInv, todo # <<>>, NEW p \in Seq(OpenCalls), ReturnTo(p),
         p # <<>>, p[1].call # "endBad"
  PROVE  Busy'
  <1>1. todo \in Seq(OpenCalls) /\ todo' = p \o Tail(todo)
    BY DEF StackInv, ReturnTo
  <1>2. 1 \in 1 .. Len(p) /\ Len(p) \in Nat
    OBVIOUS
  <1>3. todo'[1] = p[1] /\ Len(todo') = Len(p) + Len(todo) - 1 /\ Len(todo) \in Nat \ {0}
    BY <1>1, <1>2, Returned, StackParts
  <1>4. 1 \in 1 .. Len(todo')
    BY <1>2, <1>3
  <1> QED
    BY <1>3, <1>4 DEF Busy

\* A call below the top is still there after the return.
LEMMA BusyBelow ==
  ASSUME StackInv, todo # <<>>, Return, NEW i \in 1 .. Len(todo), i # 1
  PROVE  \E j \in 1 .. Len(todo') : todo'[j] = todo[i]
  <1>1. /\ Len(todo') = Len(todo) - 1 /\ Len(todo) \in Nat
        /\ \A j \in 1 .. Len(todo) - 1 : todo'[j] = todo[j + 1]
    BY StackParts DEF StackInv, Return
  <1>2. i - 1 \in 1 .. Len(todo') /\ (i - 1) + 1 = i
    BY <1>1
  <1> QED
    BY <1>1, <1>2

LEMMA PendingCallStep ==
  ASSUME TypeOK, StackInv, KeptInv, PendingInv, MakeCall
  PROVE  PendingInv'
  <1>1. /\ todo # <<>> /\ UNCHANGED <<created, running, stopReading, retryTimer>>
        /\ resolving \subseteq resolving' /\ inPollingMode' = inPollingMode
    <2>1. inPollingMode' = inPollingMode
      BY ModeStep DEF Next
    <2> QED
      BY <2>1
         DEF MakeCall, SendPacket, SendIsTooEarly, ConnectFails, SendIsThrottled, PacketIsSent,
             SendFails, ResolveAnother, SendToFastest, SendToThisOne, GotBadPacket, SendToFaster,
             GotBadPacketAgain, EndOfBadPacket, CallsSend, Calling, socketVars, syncVars, hostVars,
             ResolveOne
  <1>2. SUFFICES ASSUME running, ~stopReading, ~inPollingMode
                 PROVE  Pending' \/ (created \subseteq sendFailed)' \/ Busy'
    BY <1>1 DEF PendingInv
  <1>3. SocketsOK /\ (Pending \/ created \subseteq sendFailed \/ Busy)
    BY <1>2 DEF TypeOK, PendingInv
  <1>4. ASSUME NEW c \in OpenCalls, c.call # "endBad", ReturnTo(<<c>>) PROVE Busy'
    <2>1. <<c>> \in Seq(OpenCalls) /\ <<c>> # <<>> /\ <<c>>[1] = c
      OBVIOUS
    <2> QED
      BY <1>1, <1>4, <2>1, BusyOnTop
  <1>5. \A s \in Sockets : Of(s) => s \in created
    BY <1>1, CallerExists
  <1>6. ASSUME NEW s \in Sockets, SendIsTooEarly(s) \/ ConnectFails(s) \/ SendFails(s)
        PROVE  Busy'
    <2>1. ReturnTo(<<SocketCall("bad", s)>>) /\ SocketCall("bad", s) \in OpenCalls
      BY <1>3, <1>5, <1>6, CallsOfSockets DEF SendIsTooEarly, ConnectFails, SendFails
    <2> QED
      BY <1>4, <2>1, CallFields
  <1>7. ASSUME NEW s \in Sockets, SendIsThrottled(s) \/ PacketIsSent(s) PROVE Pending'
    <2>1. timer'[s] # "null"
      BY <1>3, <1>7 DEF SendIsThrottled, PacketIsSent, SocketsOK
    <2> QED
      BY <2>1 DEF Pending
  <1>8. ASSUME NEW s \in Sockets, NEW t \in Sockets,
               SendToFastest(s) \/ SendToThisOne(s) \/ SendToFaster(t, s)
        PROVE  Busy'
    <2>1. s \in created
      BY <1>5, <1>8 DEF SendToFastest, SendToThisOne, SendToFaster, IsTop, Entries, StackInv
    <2>2. ReturnTo(<<SocketCall("send", s)>>) /\ SocketCall("send", s) \in OpenCalls
      BY <1>3, <1>8, <2>1, CallsOfSockets DEF SendToFastest, SendToThisOne, SendToFaster
    <2> QED
      BY <1>4, <2>2, CallFields
  <1>9. CASE GotBadPacketAgain
    <2>1. ReturnTo(<<DriverCall("fastest")>>) /\ DriverCall("fastest") \in OpenCalls
      BY <1>9, CallsOfDriver DEF GotBadPacketAgain
    <2> QED
      BY <1>4, <2>1, CallFields
  <1>10. ASSUME NEW s \in Sockets, GotBadPacket(s) PROVE Busy'
    <2>1. PICK c \in {SocketCall("send", s), DriverCall("fastest")} :
            ReturnTo(<<c, DriverCall("endBad")>>)
      BY <1>2, <1>10 DEF GotBadPacket
    <2>2. c \in OpenCalls /\ c.call # "endBad" /\ DriverCall("endBad") \in OpenCalls
      BY <1>3, <1>5, <1>10, <2>1, CallsOfSockets, CallsOfDriver, CallFields DEF GotBadPacket
    <2> DEFINE p == <<c, DriverCall("endBad")>>
    <2>3. p \in Seq(OpenCalls) /\ p # <<>> /\ p[1] = c
      BY <2>2
    <2> QED
      BY <1>1, <2>1, <2>2, <2>3, BusyOnTop
  <1>11. CASE ResolveAnother
    <2>1. Calling("fastest") /\ Return /\ UNCHANGED <<timer, sendFailed>>
      BY <1>11 DEF ResolveAnother, socketVars
    <2>2. CASE NextToResolve # {}
      BY <1>11, <2>2 DEF ResolveAnother, ResolveOne, Pending
    <2>3. CASE Entries = {} /\ ~(created \subseteq sendFailed)
      <3>1. PICK u \in created \ sendFailed : Kept(u)
        BY <1>2, <2>3 DEF KeptInv
      <3>2. u \in Sockets /\ queued[u] <= 0
        BY <1>3, <2>3, <3>1 DEF SocketsOK, Entries
      <3>3. CASE timer[u] # "null"
        BY <2>1, <3>2, <3>3 DEF Pending
      <3>4. CASE \E i \in 1 .. Len(todo) : u \in todo[i].of
        <4>1. PICK i \in 1 .. Len(todo) : u \in todo[i].of
          BY <3>4
        <4>2. todo[i] \in OpenCalls /\ Head(todo) \in OpenCalls /\ Head(todo) = todo[1]
          BY <1>1, <4>1, StackParts DEF StackInv
        <4>3. todo[i].call # "endBad" /\ Head(todo).of = {}
          BY <2>1, <4>1, <4>2, Caller DEF Calling
        <4>4. PICK j \in 1 .. Len(todo') : todo'[j] = todo[i]
          BY <1>1, <2>1, <4>1, <4>2, <4>3, BusyBelow
        <4> QED
          BY <4>3, <4>4 DEF Busy
      <3>5. CASE queued[u] > 0
        BY <1>3, <3>2, <3>5 DEF SocketsOK
      <3> QED
        BY <3>1, <3>3, <3>4, <3>5 DEF Kept
    <2>4. CASE created \subseteq sendFailed
      BY <1>1, <2>1, <2>4
    <2> QED
      BY <1>11, <2>2, <2>3, <2>4 DEF ResolveAnother
  <1>12. CASE EndOfBadPacket
    <2>1. Calling("endBad") /\ Return /\ UNCHANGED <<timer, sendFailed, resolving>>
      BY <1>12 DEF EndOfBadPacket, socketVars, hostVars
    <2>2. CASE Busy
      <3>1. PICK i \in 1 .. Len(todo) : todo[i].call # "endBad"
        BY <2>2 DEF Busy
      <3>2. Head(todo) = todo[1]
        BY <1>1, StackParts DEF StackInv
      <3>3. PICK j \in 1 .. Len(todo') : todo'[j] = todo[i]
        BY <1>1, <2>1, <3>1, <3>2, BusyBelow DEF Calling
      <3> QED
        BY <3>1, <3>3 DEF Busy
    <2> QED
      BY <1>1, <1>3, <2>1, <2>2 DEF Pending
  <1> QED
    BY <1>6, <1>7, <1>8, <1>9, <1>10, <1>11, <1>12 DEF MakeCall, SendPacket

LEMMA PendingEventStep ==
  ASSUME NumHosts > 0, TypeOK, StackInv, PendingInv, [Next]_vars, ~MakeCall
  PROVE  PendingInv'
  <1>1. inPollingMode' = inPollingMode /\ SocketsOK
    BY ModeStep DEF TypeOK
  <1>2. CASE UNCHANGED vars
    BY <1>2 DEF vars, syncVars, hostVars, socketVars, callVars, PendingInv, Pending, Busy
  <1>3. CASE StartSyncing
    <2>1. UserHosts \union FirstPoolHost # {}
      <3>1. 1 \in Hosts /\ \A g \in Hosts : 1 <= g
        BY HostsAssumption DEF Hosts
      <3> QED
        BY <3>1 DEF FirstPoolHost
    <2> QED
      BY <1>1, <1>3, <2>1 DEF StartSyncing, PendingInv, Pending
  <1>4. CASE StopSyncing
    BY <1>4 DEF StopSyncing, PendingInv
  <1>5. SUFFICES ASSUME Next, ~StartSyncing, ~StopSyncing, running', ~stopReading', ~inPollingMode
                 PROVE  /\ created' = {} => resolving' # {} \/ retryTimer' # {}
                        /\ Pending' \/ (created \subseteq sendFailed)' \/ Busy'
    BY <1>1, <1>2, <1>3, <1>4 DEF PendingInv
  <1>6. ASSUME running, ~stopReading, todo = <<>>
        PROVE  /\ created = {} => resolving # {} \/ retryTimer # {}
               /\ Pending \/ created \subseteq sendFailed
    <2>1. ~Busy
      BY <1>6 DEF Busy
    <2> QED
      BY <1>5, <1>6, <2>1 DEF PendingInv
  <1>7. ASSUME NEW c, todo' = <<c>>, c.call # "endBad" PROVE Busy'
    <2>1. 1 \in 1 .. Len(todo') /\ todo'[1] = c
      BY <1>7
    <2> QED
      BY <1>7, <2>1 DEF Busy
  <1>8. CASE BumpProximity
    BY <1>6, <1>8 DEF BumpProximity, AtRest, hostVars, socketVars, Pending
  <1>9. CASE NoProgressTimeout
    <2>1. resolving \subseteq resolving' /\ UNCHANGED <<retryTimer, socketVars>>
      BY <1>9 DEF NoProgressTimeout, EnsureFreshHostAvailable, ResolveOne
    <2> QED
      BY <1>6, <1>9, <2>1 DEF NoProgressTimeout, AtRest, socketVars, Pending
  <1>10. ASSUME NEW h \in Hosts, NameResolutionFailed(h) \/ RetryResolving(h)
         PROVE  resolving' # {} \/ retryTimer' # {}
    BY <1>10 DEF NameResolutionFailed, RetryResolving
  <1>11. ASSUME NEW h \in Hosts, NEW a \in (SUBSET {s \in Sockets : HostOf[s] = h}) \ {{}},
                NameResolutionComplete(h, a)
         PROVE  created' # {} /\ Busy'
    <2>1. a # {} /\ created' # {}
      <3>1. a # {}
        BY <1>11, Zenon
      <3>2. created' = created \union a
        BY <1>11, Zenon DEF NameResolutionComplete
      <3> QED
        BY <3>1, <3>2
    <2>2. CASE h \notin UserHosts
      <3>1. todo' = <<DriverCall("fastest")>>
        <4>1. \E order : todo' = IF inPollingMode THEN <<>>
                                 ELSE IF h \in UserHosts
                                 THEN [i \in DOMAIN order |-> SocketCall("send", order[i])]
                                 ELSE <<DriverCall("fastest")>>
          BY <1>11, Zenon DEF NameResolutionComplete
        <4> QED
          BY <1>5, <2>2, <4>1, Zenon
      <3>2. DriverCall("fastest").call # "endBad"
        BY DEF DriverCall
      <3>3. Busy'
        BY <1>7, <3>1, <3>2
      <3> QED
        BY <2>1, <3>3
    <2>3. CASE h \in UserHosts
      <3>1. PICK order \in [1 .. Cardinality(a) -> a] :
              /\ {order[i] : i \in DOMAIN order} = a
              /\ todo' = [i \in DOMAIN order |-> SocketCall("send", order[i])]
        BY <1>5, <1>11, <2>3 DEF NameResolutionComplete
      <3>2. Cardinality(a) \in Nat
        BY HostsAssumption, FS_Subset, FS_CardinalityType
      <3>3. PICK i \in 1 .. Cardinality(a) : order[i] \in a
        <4>1. PICK u \in a : TRUE
          BY <2>1
        <4> QED
          BY <3>1, <4>1
      <3>4. Len(todo') = Cardinality(a) /\ todo'[i] = SocketCall("send", order[i])
        BY <3>1, <3>2, <3>3
      <3>5. i \in 1 .. Len(todo') /\ todo'[i].call # "endBad"
        BY <3>3, <3>4, CallFields
      <3> QED
        BY <2>1, <3>5 DEF Busy
    <2> QED
      BY <2>1, <2>2, <2>3
  <1>12. ASSUME NEW s \in Sockets,
                \/ ShortTimeout(s) \/ ThrottleTimeout(s)
                \/ ReceiveBadPacket(s) \/ ReceiveLastPacket(s) \/ ReceiveGoodPacket(s)
         PROVE  /\ created' = {} => resolving' # {} \/ retryTimer' # {}
                /\ Busy'
    <2>1. ~ReceiveLastPacket(s)
      BY <1>5 DEF ReceiveLastPacket
    <2>2. \E kind \in {"send", "including", "sendWithTicket", "bad"} :
            todo' = <<SocketCall(kind, s)>>
      BY <1>5, <1>12, <2>1
         DEF ShortTimeout, ThrottleTimeout, ReceiveBadPacket, ReceiveGoodPacket
    <2>3. Busy'
      BY <1>7, <2>2, CallFields
    <2>4. /\ running /\ ~stopReading /\ todo = <<>>
          /\ created' = created /\ resolving \subseteq resolving' /\ retryTimer' = retryTimer
      <3>1. CASE ShortTimeout(s) \/ ThrottleTimeout(s)
        BY <1>5, <3>1
           DEF ShortTimeout, ThrottleTimeout, AtRest, EnsureFreshHostAvailable, ResolveOne, hostVars
      <3>2. CASE ReceiveBadPacket(s) \/ ReceiveGoodPacket(s)
        <4>1. Receives(s) /\ UNCHANGED stopReading
          BY <3>2, Zenon DEF ReceiveBadPacket, ReceiveGoodPacket
        <4> QED
          BY <1>5, <4>1 DEF Receives, hostVars
      <3> QED
        BY <1>12, <2>1, <3>1, <3>2
    <2> QED
      BY <1>6, <2>3, <2>4
  <1>13. ASSUME NEW s \in Sockets PROVE ~SendToNextPollingHost(s)
    BY <1>5 DEF SendToNextPollingHost
  <1>14. ~MakeCall
    OBVIOUS
  <1> QED
    BY <1>5, <1>8, <1>9, <1>10, <1>11, <1>12, <1>13, <1>14 DEF Next, Pending

-----------------------------------------------------------------------------
(* The theorems. *)

LEMMA PoolInit == Init => PoolInv
  <1> SUFFICES ASSUME Init PROVE PoolInv
    OBVIOUS
  <1> USE DEF Init
  <1>1. FlagsOK
    BY BoundsAssumption, Zenon DEF FlagsOK
  <1>2. SyncOK /\ HostsOK
    BY BoundsAssumption DEF SyncOK, HostsOK
  <1>3. SocketsOK
    BY BoundsAssumption DEF SocketsOK, BadHostRTT
  <1>4. TypeOK
    BY <1>1, <1>2, <1>3 DEF TypeOK
  <1>5. StackInv /\ ResolverInv
    BY DEF StackInv, ResolverInv, ResolverIsAlone
  <1>6. TimeoutHasItsPacket /\ KeptInv
    BY DEF TimeoutHasItsPacket, KeptInv
  <1>7. GuardInv
    BY DEF GuardInv, Guarded, Calling
  <1> QED
    BY <1>4, <1>5, <1>6, <1>7 DEF PoolInv

\* The strengthened invariant holds in every run of a sync.
THEOREM PoolCorrect == Spec => []PoolInv
  <1>1. PoolInv /\ [Next]_vars => PoolInv'
    <2> SUFFICES ASSUME PoolInv, [Next]_vars PROVE PoolInv'
      OBVIOUS
    <2>1. TypeOK /\ StackInv /\ ResolverInv /\ TimeoutHasItsPacket /\ GuardInv /\ KeptInv
      BY DEF PoolInv
    <2>2. TypeOK'
      BY <2>1, TypeStep
    <2>3. StackInv'
      BY <2>1, StackStep
    <2>4. ResolverInv'
      BY <2>1, ResolverStep DEF TypeOK
    <2>5. TimeoutHasItsPacket'
      BY <2>1, TimeoutStep
    <2>6. GuardInv'
      BY <2>1, GuardCallStep, GuardEventStep
    <2>7. KeptInv'
      BY <2>1, KeptCallStep, KeptEventStep
    <2> QED
      BY <2>2, <2>3, <2>4, <2>5, <2>6, <2>7 DEF PoolInv
  <1> QED
    BY <1>1, PoolInit, PTL DEF Spec

\* Sockets are open, or have failed, only if they exist, and every queue,
\* list and counter keeps its range.
THEOREM TypeCorrect == Spec => []TypeOK
  <1>1. PoolInv => TypeOK
    BY DEF PoolInv
  <1> QED
    BY <1>1, PoolCorrect, PTL

\* A name is looked up by one resolver at a time and a time-out finds its packet,
\* however resolutions, retries, new levels of proximity, answers and resends
\* interleave: the assertions of notifyNameResolutionComplete,
\* setupPostResolutionFailureTimer and sendTimeoutShort hold.
THEOREM AssertionsNeverFail == Spec => []AssertionsHold
  <1>1. PoolInv => AssertionsHold
    BY DEF PoolInv, ResolverInv, AssertionsHold
  <1> QED
    BY <1>1, PoolCorrect, PTL

\* Every recursion of stateGotBadPacket, however deep failing sends make it,
\* leaves its guard open.
THEOREM GuardOpens == Spec => []GuardIsOpenAtRest
  <1>1. PoolInv => GuardIsOpenAtRest
    BY DEF PoolInv, GuardInv, Guarded, GuardIsOpenAtRest
  <1> QED
    BY <1>1, PoolCorrect, PTL

\* The driver never forgets a socket whose last send did not fail, for any
\* number of hosts and addresses.
THEOREM NoHostLost == Spec => []NoHostIsLost
  <1>1. PoolInv => NoHostIsLost
    BY DEF PoolInv, KeptInv, Kept, NoHostIsLost, AtRest
  <1> QED
    BY <1>1, PoolCorrect, PTL

\* As long as there is a host at all, the driver never falls asleep for good:
\* between two events a name is looked up, a retry is due, or a packet's time-out or
\* ticket will come (sendPacketToFastestPoolHost, notifyNameResolutionFailed),
\* however the recursion of failing sends has ended.  Without the pool and with
\* the user's last host removed there is nothing to wait for.
THEOREM SomethingPending ==
  ASSUME NumHosts > 0
  PROVE  Spec => []SomethingIsPending
  <1>1. Init => PendingInv
    BY DEF Init, PendingInv
  <1>2. PoolInv /\ PendingInv /\ [Next]_vars => PendingInv'
    <2> SUFFICES ASSUME PoolInv, PendingInv, [Next]_vars PROVE PendingInv'
      OBVIOUS
    <2>1. TypeOK /\ StackInv /\ KeptInv
      BY DEF PoolInv
    <2> QED
      BY <2>1, PendingCallStep, PendingEventStep
  <1>3. PendingInv => SomethingIsPending
    <2> SUFFICES ASSUME PendingInv, AtRest, ~inPollingMode,
                        created # {} => ~(created \subseteq sendFailed)
                 PROVE  Pending
      BY DEF SomethingIsPending, Pending
    <2>1. ~Busy
      BY DEF AtRest, Busy
    <2> QED
      BY <2>1 DEF PendingInv, AtRest, Pending
  <1> QED
    BY <1>1, <1>2, <1>3, PoolCorrect, PTL DEF Spec
=============================================================================
