---------------------------- MODULE ESTimerProofs ----------------------------
(***************************************************************************)
(* Proofs about ESTimer, for any number of timers and threads, any times   *)
(* and any lengths of the message queues.                                  *)
(***************************************************************************)
EXTENDS ESTimer, TLAPS

(***************************************************************************)
(* The invariant.  The counts in the releases on their way to the timer    *)
(* thread go up and never exceed what the owner has received; the numbers  *)
(* of the notifications on their way to the owner go up between what it    *)
(* has received and what was sent.  So when a count equals the number sent *)
(* there is neither a notification nor another release behind it.          *)
(***************************************************************************)

\* A call on its way to the timer thread.
CallOK(m) ==
  /\ m.kind = "activate" =>
       /\ m.timer \in started
       /\ m.timer \notin activated /\ m.timer \notin deleted
       /\ sent[m.timer] = 0
  /\ m.kind = "release" =>
       /\ m.timer \in releasePending /\ m.timer \notin deleted
       /\ m.count <= received[m.timer]
  /\ m.kind = "recalculate" => m.timer = NoTimer

\* The call n was made after the call m.
CallsOrdered(m, n) ==
  m.timer = n.timer /\ m.kind # "recalculate" =>
    /\ n.kind = "release"
    /\ m.kind = "release" => m.count < n.count

CallsInv ==
  /\ \A i \in 1 .. Len(timerInbox) : CallOK(timerInbox[i])
  /\ \A i, j \in 1 .. Len(timerInbox) :
       i < j => CallsOrdered(timerInbox[i], timerInbox[j])

\* A notification on its way to the thread h.
NotificationOK(h, m) ==
  /\ h = ThreadOf[m.timer]
  /\ m.timer \in started /\ m.timer \notin deleted
  /\ received[m.timer] < m.number /\ m.number <= sent[m.timer]

NotificationsInv ==
  \A h \in Threads :
    /\ \A i \in 1 .. Len(inbox[h]) : NotificationOK(h, inbox[h][i])
    /\ \A i, j \in 1 .. Len(inbox[h]) :
         i < j /\ inbox[h][i].timer = inbox[h][j].timer =>
           inbox[h][i].number < inbox[h][j].number

\* The life of a timer.
LifeInv ==
  /\ queued \subseteq activated /\ activated \subseteq started
  /\ deleted \subseteq releasePending /\ deleted \intersect activated = {}
  /\ \A t \in Timers :
       /\ received[t] <= sent[t] /\ notified[t] <= received[t]
       /\ sent[t] > 0 => t \in started
       /\ Repeat[t] = 0 => sent[t] <= 1 /\ (t \in activated => sent[t] = 0)

CountingInv == TypeOK /\ CallsInv /\ NotificationsInv /\ LifeInv

-----------------------------------------------------------------------------
(* Queues. *)

LEMMA HeadTail ==
  ASSUME NEW S, NEW q \in Seq(S), q # <<>>
  PROVE  /\ Len(q) \in Nat /\ Len(q) >= 1
         /\ Head(q) = q[1] /\ Head(q) \in S
         /\ Tail(q) \in Seq(S) /\ Len(Tail(q)) = Len(q) - 1
         /\ \A i \in 1 .. Len(Tail(q)) : Tail(q)[i] = q[i + 1]
  OBVIOUS

LEMMA Appended ==
  ASSUME NEW S, NEW q \in Seq(S), NEW x \in S
  PROVE  /\ Append(q, x) \in Seq(S) /\ Len(q) \in Nat
         /\ Len(Append(q, x)) = Len(q) + 1
         /\ \A i \in 1 .. Len(q) : Append(q, x)[i] = q[i]
         /\ Append(q, x)[Len(q) + 1] = x
  OBVIOUS

\* A step that leaves the calls alone, makes one or takes one.
LEMMA CallsKept ==
  ASSUME timerInbox \in Seq(Messages), CallsInv, UNCHANGED timerInbox,
         \A c \in Messages : CallOK(c) => CallOK(c)'
  PROVE  CallsInv'
  <1>1. \A i \in 1 .. Len(timerInbox) : timerInbox[i] \in Messages
    OBVIOUS
  <1>2. \A i \in 1 .. Len(timerInbox') : CallOK(timerInbox[i])'
    BY <1>1 DEF CallsInv
  <1> QED
    BY <1>2 DEF CallsInv, CallsOrdered

LEMMA CallMade ==
  ASSUME timerInbox \in Seq(Messages), CallsInv, NEW m \in Messages,
         timerInbox' = Append(timerInbox, m), CallOK(m)',
         \A c \in Messages : CallOK(c) => CallOK(c)' /\ CallsOrdered(c, m)
  PROVE  CallsInv'
  <1>1. /\ Len(timerInbox) \in Nat /\ Len(timerInbox') = Len(timerInbox) + 1
        /\ \A i \in 1 .. Len(timerInbox) : timerInbox'[i] = timerInbox[i]
        /\ timerInbox'[Len(timerInbox) + 1] = m
    BY Appended
  <1>2. \A i \in 1 .. Len(timerInbox) : timerInbox[i] \in Messages
    OBVIOUS
  <1>3. ASSUME NEW i \in 1 .. Len(timerInbox') PROVE CallOK(timerInbox[i])'
    <2>1. CASE i = Len(timerInbox) + 1
      BY <1>1, <2>1
    <2>2. CASE i \in 1 .. Len(timerInbox)
      <3>1. CallOK(timerInbox[i]) /\ timerInbox[i] \in Messages
        BY <1>2, <2>2 DEF CallsInv
      <3> QED
        BY <1>1, <2>2, <3>1
    <2> QED
      BY <1>1, <2>1, <2>2
  <1>4. ASSUME NEW i \in 1 .. Len(timerInbox'), NEW j \in 1 .. Len(timerInbox'), i < j
        PROVE  CallsOrdered(timerInbox'[i], timerInbox'[j])
    <2>1. i \in 1 .. Len(timerInbox) /\ timerInbox'[i] = timerInbox[i]
      BY <1>1, <1>4
    <2>2. CallOK(timerInbox[i]) /\ timerInbox[i] \in Messages
      BY <1>2, <2>1 DEF CallsInv
    <2>3. CASE j = Len(timerInbox) + 1
      BY <1>1, <2>1, <2>2, <2>3
    <2>4. CASE j \in 1 .. Len(timerInbox)
      BY <1>1, <1>4, <2>1, <2>4 DEF CallsInv
    <2> QED
      BY <1>1, <2>3, <2>4
  <1> QED
    BY <1>3, <1>4 DEF CallsInv, CallsOrdered

LEMMA CallTaken ==
  ASSUME timerInbox \in Seq(Messages), CallsInv, timerInbox # <<>>,
         timerInbox' = Tail(timerInbox),
         \A c \in Messages :
           CallOK(c) /\ CallsOrdered(Head(timerInbox), c) => CallOK(c)'
  PROVE  CallsInv'
  <1>1. /\ Len(timerInbox) \in Nat /\ Len(timerInbox) >= 1
        /\ Len(timerInbox') = Len(timerInbox) - 1
        /\ Head(timerInbox) = timerInbox[1]
        /\ \A i \in 1 .. Len(timerInbox') : timerInbox'[i] = timerInbox[i + 1]
    BY HeadTail
  <1>2. \A i \in 1 .. Len(timerInbox) : timerInbox[i] \in Messages
    OBVIOUS
  <1>3. ASSUME NEW i \in 1 .. Len(timerInbox') PROVE CallOK(timerInbox[i])'
    <2>1. i + 1 \in 1 .. Len(timerInbox) /\ 1 \in 1 .. Len(timerInbox) /\ 1 < i + 1
      BY <1>1
    <2>2. /\ CallOK(timerInbox[i + 1]) /\ timerInbox[i + 1] \in Messages
          /\ CallsOrdered(Head(timerInbox), timerInbox[i + 1])
      BY <1>1, <1>2, <2>1 DEF CallsInv
    <2> QED
      BY <1>1, <2>2
  <1>4. ASSUME NEW i \in 1 .. Len(timerInbox'), NEW j \in 1 .. Len(timerInbox'), i < j
        PROVE  CallsOrdered(timerInbox'[i], timerInbox'[j])
    <2>1. /\ i + 1 \in 1 .. Len(timerInbox) /\ j + 1 \in 1 .. Len(timerInbox)
          /\ i + 1 < j + 1
      BY <1>1, <1>4
    <2> QED
      BY <1>1, <2>1 DEF CallsInv
  <1> QED
    BY <1>3, <1>4 DEF CallsInv, CallsOrdered

\* A step that leaves the notifications alone, or sends or takes one.
LEMMA NotificationsKept ==
  ASSUME inbox \in [Threads -> Seq(Notifications)], NotificationsInv, UNCHANGED inbox,
         \A h \in Threads, m \in Notifications :
           NotificationOK(h, m) => NotificationOK(h, m)'
  PROVE  NotificationsInv'
  <1>1. \A h \in Threads : \A i \in 1 .. Len(inbox[h]) : inbox[h][i] \in Notifications
    OBVIOUS
  <1>2. \A h \in Threads : \A i \in 1 .. Len(inbox'[h]) : NotificationOK(h, inbox[h][i])'
    BY <1>1 DEF NotificationsInv
  <1> QED
    BY <1>2 DEF NotificationsInv

LEMMA NotificationSent ==
  ASSUME inbox \in [Threads -> Seq(Notifications)], NotificationsInv,
         NEW g \in Threads, NEW n \in Notifications,
         inbox' = [inbox EXCEPT ![g] = Append(@, n)], NotificationOK(g, n)',
         \A h \in Threads, m \in Notifications :
           NotificationOK(h, m) => NotificationOK(h, m)',
         \A m \in Notifications :
           NotificationOK(g, m) /\ m.timer = n.timer => m.number < n.number
  PROVE  NotificationsInv'
  <1> SUFFICES ASSUME NEW h \in Threads
               PROVE  /\ \A i \in 1 .. Len(inbox'[h]) : NotificationOK(h, inbox[h][i])'
                      /\ \A i, j \in 1 .. Len(inbox'[h]) :
                           i < j /\ inbox'[h][i].timer = inbox'[h][j].timer =>
                             inbox'[h][i].number < inbox'[h][j].number
    BY DEF NotificationsInv
  <1>1. \A i \in 1 .. Len(inbox[h]) :
          inbox[h][i] \in Notifications /\ NotificationOK(h, inbox[h][i])
    BY DEF NotificationsInv
  <1>2. CASE h # g
    <2>1. inbox'[h] = inbox[h]
      BY <1>2
    <2> QED
      BY <1>1, <2>1 DEF NotificationsInv
  <1>3. CASE h = g
    <2> DEFINE q == inbox[g]
    <2>1. q \in Seq(Notifications) /\ inbox'[h] = Append(q, n)
      BY <1>3
    <2> HIDE DEF q
    <2>2. /\ Len(q) \in Nat /\ Len(inbox'[h]) = Len(q) + 1
          /\ \A i \in 1 .. Len(q) : inbox'[h][i] = q[i]
          /\ inbox'[h][Len(q) + 1] = n
      <3>1. /\ Len(q) \in Nat /\ Len(Append(q, n)) = Len(q) + 1
            /\ \A i \in 1 .. Len(q) : Append(q, n)[i] = q[i]
            /\ Append(q, n)[Len(q) + 1] = n
        BY <2>1, Appended
      <3> QED
        BY <2>1, <3>1
    <2>3. \A i \in 1 .. Len(q) : q[i] \in Notifications /\ NotificationOK(g, q[i])
      BY <1>1, <1>3 DEF q
    <2>4. ASSUME NEW i \in 1 .. Len(inbox'[h]) PROVE NotificationOK(h, inbox[h][i])'
      <3>1. CASE i = Len(q) + 1
        BY <1>3, <2>2, <3>1
      <3>2. CASE i \in 1 .. Len(q)
        BY <1>3, <2>2, <2>3, <3>2
      <3> QED
        BY <2>2, <3>1, <3>2
    <2>5. ASSUME NEW i \in 1 .. Len(inbox'[h]), NEW j \in 1 .. Len(inbox'[h]), i < j,
                 inbox'[h][i].timer = inbox'[h][j].timer
          PROVE  inbox'[h][i].number < inbox'[h][j].number
      <3>1. i \in 1 .. Len(q) /\ inbox'[h][i] = q[i]
        BY <2>2, <2>5
      <3>2. CASE j = Len(q) + 1
        BY <2>2, <2>3, <2>5, <3>1, <3>2
      <3>3. CASE j \in 1 .. Len(q)
        <4>1. inbox'[h][j] = q[j] /\ q[i].timer = q[j].timer
          BY <2>2, <2>5, <3>1, <3>3
        <4> QED
          BY <1>3, <2>5, <3>1, <3>3, <4>1 DEF NotificationsInv, q
      <3> QED
        BY <2>2, <3>2, <3>3
    <2> QED
      BY <2>4, <2>5
  <1> QED
    BY <1>2, <1>3

LEMMA NotificationTaken ==
  ASSUME inbox \in [Threads -> Seq(Notifications)], NotificationsInv,
         NEW g \in Threads, inbox[g] # <<>>,
         inbox' = [inbox EXCEPT ![g] = Tail(@)],
         \A h \in Threads \ {g}, m \in Notifications :
           NotificationOK(h, m) => NotificationOK(h, m)',
         \A m \in Notifications :
           NotificationOK(g, m)
           /\ (m.timer = Head(inbox[g]).timer => Head(inbox[g]).number < m.number)
             => NotificationOK(g, m)'
  PROVE  NotificationsInv'
  <1> SUFFICES ASSUME NEW h \in Threads
               PROVE  /\ \A i \in 1 .. Len(inbox'[h]) : NotificationOK(h, inbox[h][i])'
                      /\ \A i, j \in 1 .. Len(inbox'[h]) :
                           i < j /\ inbox'[h][i].timer = inbox'[h][j].timer =>
                             inbox'[h][i].number < inbox'[h][j].number
    BY DEF NotificationsInv
  <1>1. \A i \in 1 .. Len(inbox[h]) :
          inbox[h][i] \in Notifications /\ NotificationOK(h, inbox[h][i])
    BY DEF NotificationsInv
  <1>2. CASE h # g
    <2>1. inbox'[h] = inbox[h]
      BY <1>2
    <2> QED
      BY <1>1, <1>2, <2>1 DEF NotificationsInv
  <1>3. CASE h = g
    <2> DEFINE q == inbox[g]
    <2>1. q \in Seq(Notifications) /\ inbox'[h] = Tail(q) /\ q # <<>>
      BY <1>3
    <2> HIDE DEF q
    <2>2. /\ Len(q) \in Nat /\ Len(q) >= 1
          /\ Len(inbox'[h]) = Len(q) - 1 /\ Head(q) = q[1]
          /\ \A i \in 1 .. Len(inbox'[h]) : inbox'[h][i] = q[i + 1]
      <3>1. /\ Len(q) \in Nat /\ Len(q) >= 1 /\ Head(q) = q[1]
            /\ Len(Tail(q)) = Len(q) - 1
            /\ \A i \in 1 .. Len(Tail(q)) : Tail(q)[i] = q[i + 1]
        BY <2>1, HeadTail
      <3> QED
        BY <2>1, <3>1
    <2>3. \A i, j \in 1 .. Len(q) :
            i < j /\ q[i].timer = q[j].timer => q[i].number < q[j].number
      BY DEF NotificationsInv, q
    <2>4. ASSUME NEW i \in 1 .. Len(inbox'[h]) PROVE NotificationOK(h, inbox[h][i])'
      <3>1. i + 1 \in 1 .. Len(q) /\ 1 \in 1 .. Len(q) /\ 1 < i + 1
        BY <2>2
      <3>2. PICK c \in Notifications : c = q[i + 1] /\ NotificationOK(g, c)
        BY <1>1, <1>3, <3>1 DEF q
      <3>3. c.timer = Head(q).timer => Head(q).number < c.number
        BY <2>2, <2>3, <3>1, <3>2
      <3>4. NotificationOK(g, c)'
        BY <3>2, <3>3 DEF q
      <3>5. inbox'[h][i] = c
        BY <2>2, <3>2
      <3> QED
        BY <1>3, <3>4, <3>5
    <2>5. ASSUME NEW i \in 1 .. Len(inbox'[h]), NEW j \in 1 .. Len(inbox'[h]), i < j,
                 inbox'[h][i].timer = inbox'[h][j].timer
          PROVE  inbox'[h][i].number < inbox'[h][j].number
      <3>1. /\ i + 1 \in 1 .. Len(q) /\ j + 1 \in 1 .. Len(q) /\ i + 1 < j + 1
            /\ inbox'[h][i] = q[i + 1] /\ inbox'[h][j] = q[j + 1]
        BY <2>2, <2>5
      <3> QED
        BY <2>3, <2>5, <3>1
    <2> QED
      BY <2>4, <2>5
  <1> QED
    BY <1>2, <1>3

-----------------------------------------------------------------------------
(* Every step keeps the invariant. *)

\* The messages a step makes.
LEMMA MessageType ==
  ASSUME NEW t \in Timers, NEW n \in Nat
  PROVE  /\ [kind |-> "activate", timer |-> t, count |-> 0] \in Messages
         /\ [kind |-> "release", timer |-> t, count |-> n] \in Messages
         /\ [kind |-> "recalculate", timer |-> NoTimer, count |-> 0] \in Messages
         /\ [timer |-> t, number |-> n] \in Notifications
  BY DEF Messages, Notifications

LEMMA InitCounting == Init => CountingInv
  <1> SUFFICES ASSUME Init PROVE CountingInv
    OBVIOUS
  <1>1. TypeOK
    <2>1. inbox \in [Threads -> Seq(Notifications)] /\ timerInbox \in Seq(Messages)
      BY DEF Init
    <2>2. /\ received \in [Timers -> Nat] /\ notified \in [Timers -> Nat]
          /\ sent \in [Timers -> Nat] /\ fireTime \in [Timers -> Int]
      BY DEF Init
    <2>3. atTime \in [Timers -> Int] /\ skew \in Int /\ clock \in Int /\ now \in Int
      BY TimersAssumption, TimeAssumption DEF Init
    <2> QED
      BY <2>1, <2>2, <2>3 DEF Init, TypeOK
  <1>2. CallsInv /\ NotificationsInv
    BY DEF Init, CallsInv, NotificationsInv
  <1>3. LifeInv
    BY DEF Init, LifeInv
  <1> QED
    BY <1>1, <1>2, <1>3 DEF CountingInv

LEMMA ActivateStep ==
  ASSUME CountingInv, NEW t \in Timers, Activate(t)
  PROVE  CountingInv'
  <1> USE DEF CountingInv
  <1>1. PICK m \in Messages : /\ m.kind = "activate" /\ m.timer = t
                              /\ timerInbox' = Append(timerInbox, m)
    BY MessageType DEF Activate, Tell
  <1>3. TypeOK'
    <2>1. timerInbox' \in Seq(Messages)
      BY <1>1, Appended DEF TypeOK
    <2> QED
      BY <2>1 DEF Activate, TypeOK, threadVars, scanVars, timeVars
  <1>4. CallOK(m)'
    BY <1>1 DEF Activate, CallOK, LifeInv, TypeOK, threadVars
  <1>5. \A c \in Messages : CallOK(c) => CallOK(c)' /\ CallsOrdered(c, m)
    BY <1>1, TimersAssumption DEF Activate, CallOK, CallsOrdered, threadVars, Messages
  <1>6. CallsInv'
    BY <1>1, <1>4, <1>5, CallMade DEF TypeOK
  <1>7. NotificationsInv'
    BY NotificationsKept DEF Activate, TypeOK, NotificationOK, threadVars
  <1>8. LifeInv'
    BY DEF Activate, LifeInv, threadVars
  <1> QED
    BY <1>3, <1>6, <1>7, <1>8

LEMMA ReleaseStep ==
  ASSUME CountingInv, NEW t \in Timers, Release(t)
  PROVE  CountingInv'
  <1> USE DEF CountingInv
  <1>0. received[t] \in Nat
    BY DEF TypeOK
  <1>1. PICK m \in Messages :
          /\ m.kind = "release" /\ m.timer = t /\ m.count = received[t]
          /\ timerInbox' = Append(timerInbox, m)
    BY <1>0, MessageType DEF Release, Tell
  <1>3. TypeOK'
    <2>1. timerInbox' \in Seq(Messages)
      BY <1>1, Appended DEF TypeOK
    <2> QED
      BY <2>1 DEF Release, TypeOK, threadVars, scanVars, timeVars
  <1>4. CallOK(m)'
    BY <1>1 DEF Release, CallOK, LifeInv, TypeOK, threadVars
  <1>5. \A c \in Messages : CallOK(c) => CallOK(c)' /\ CallsOrdered(c, m)
    BY <1>1 DEF Release, CallOK, CallsOrdered, threadVars
  <1>6. CallsInv'
    BY <1>1, <1>4, <1>5, CallMade DEF TypeOK
  <1>7. NotificationsInv'
    BY NotificationsKept DEF Release, TypeOK, NotificationOK, threadVars
  <1>8. LifeInv'
    BY DEF Release, LifeInv, threadVars
  <1> QED
    BY <1>3, <1>6, <1>7, <1>8

LEMMA ReceiveStep ==
  ASSUME CountingInv, NEW g \in Threads, ReceiveNotification(g)
  PROVE  CountingInv'
  <1> USE DEF CountingInv
  <1>1. inbox[g] # <<>> /\ inbox[g] \in Seq(Notifications)
    BY DEF ReceiveNotification, TypeOK
  <1>2. PICK x \in Notifications :
          x = Head(inbox[g]) /\ NotificationOK(g, x) /\ Tail(inbox[g]) \in Seq(Notifications)
    BY <1>1, HeadTail DEF NotificationsInv
  <1>3. PICK t \in Timers, n \in Nat : t = x.timer /\ n = x.number
    BY DEF Notifications
  <1>4. /\ received[t] \in Nat /\ sent[t] \in Nat
        /\ received[t] < n /\ n <= sent[t]
        /\ t \in started /\ t \notin deleted /\ ThreadOf[t] = g
    BY <1>2, <1>3 DEF NotificationOK, TypeOK
  <1>5. /\ inbox' = [inbox EXCEPT ![g] = Tail(@)]
        /\ received' = [received EXCEPT ![t] = @ + 1]
        /\ UNCHANGED <<started, releasePending, threadVars, scanVars, timeVars>>
    BY <1>2, <1>3 DEF ReceiveNotification
  <1>6. PICK m \in Messages :
          m.kind = "release" /\ m.timer = t /\ m.count = received[t] + 1
          /\ m = [kind |-> "release", timer |-> t, count |-> received[t] + 1]
    <2>1. received[t] + 1 \in Nat
      BY <1>4
    <2> QED
      BY <2>1, MessageType
  <1>7. \/ /\ t \in releasePending /\ timerInbox' = Append(timerInbox, m)
           /\ UNCHANGED notified
        \/ /\ t \notin releasePending /\ UNCHANGED timerInbox
           /\ notified' = [notified EXCEPT ![t] = @ + 1]
    BY <1>2, <1>3, <1>6 DEF ReceiveNotification, Tell
  <1>8. TypeOK'
    <2>1. timerInbox' \in Seq(Messages)
      <3>1. Append(timerInbox, m) \in Seq(Messages)
        BY Appended DEF TypeOK
      <3> QED
        BY <1>7, <3>1 DEF TypeOK
    <2>2. inbox' \in [Threads -> Seq(Notifications)]
      BY <1>2, <1>5 DEF TypeOK
    <2>3. received' \in [Timers -> Nat] /\ notified' \in [Timers -> Nat]
      <3>1. received' \in [Timers -> Nat]
        BY <1>5 DEF TypeOK
      <3>2. [notified EXCEPT ![t] = @ + 1] \in [Timers -> Nat]
        BY DEF TypeOK
      <3> QED
        BY <1>7, <3>1, <3>2 DEF TypeOK
    <2> QED
      BY <1>5, <2>1, <2>2, <2>3 DEF TypeOK, threadVars, scanVars, timeVars
  <1>9. CallsInv'
    <2>1. \A c \in Messages : CallOK(c) => CallOK(c)'
      BY <1>5 DEF CallOK, threadVars, TypeOK, Messages
    <2>2. CASE UNCHANGED timerInbox
      BY <2>1, <2>2, CallsKept DEF TypeOK
    <2>3. CASE t \in releasePending /\ timerInbox' = Append(timerInbox, m)
      <3>1. CallOK(m)'
        BY <1>4, <1>5, <1>6, <2>3 DEF CallOK, threadVars, TypeOK
      <3>2. \A c \in Messages : CallOK(c) => CallsOrdered(c, m)
        BY <1>4, <1>6 DEF CallOK, CallsOrdered, Messages
      <3> QED
        BY <2>1, <2>3, <3>1, <3>2, CallMade DEF TypeOK
    <2> QED
      BY <1>7, <2>2, <2>3
  <1>10. NotificationsInv'
    <2>1. \A h \in Threads \ {g}, c \in Notifications :
            NotificationOK(h, c) => NotificationOK(h, c)'
      BY <1>4, <1>5 DEF NotificationOK, threadVars, TypeOK, Notifications
    <2>2. \A c \in Notifications :
            NotificationOK(g, c) /\ (c.timer = t => n < c.number)
              => NotificationOK(g, c)'
      BY <1>4, <1>5 DEF NotificationOK, threadVars, TypeOK, Notifications
    <2> QED
      BY <1>1, <1>2, <1>3, <1>5, <2>1, <2>2, NotificationTaken DEF TypeOK
  <1>11. LifeInv'
    <2>1. /\ queued' \subseteq activated' /\ activated' \subseteq started'
          /\ deleted' \subseteq releasePending' /\ deleted' \intersect activated' = {}
      BY <1>5, Zenon DEF LifeInv, threadVars
    <2>2. ASSUME NEW u \in Timers
          PROVE  /\ received'[u] <= sent'[u] /\ notified'[u] <= received'[u]
                 /\ sent'[u] > 0 => u \in started'
                 /\ Repeat[u] = 0 => sent'[u] <= 1 /\ (u \in activated' => sent'[u] = 0)
      <3>1. /\ received[u] \in Nat /\ notified[u] \in Nat /\ sent[u] \in Nat
            /\ received[u] <= sent[u] /\ notified[u] <= received[u]
        BY <2>2, Zenon DEF LifeInv, TypeOK
      <3>2. sent' = sent /\ started' = started /\ activated' = activated
        BY <1>5, Zenon DEF threadVars
      <3>3. received'[u] = IF u = t THEN received[u] + 1 ELSE received[u]
        BY <1>5, <2>2, Zenon DEF TypeOK
      <3>4. notified'[u] = notified[u] \/ (u = t /\ notified'[u] = notified[u] + 1)
        BY <1>7, <2>2, Zenon DEF TypeOK
      <3>5. received'[u] <= sent'[u] /\ notified'[u] <= received'[u]
        BY <1>4, <3>1, <3>2, <3>3, <3>4
      <3> QED
        BY <2>2, <3>2, <3>5, Zenon DEF LifeInv
    <2> QED
      BY <2>1, <2>2, Zenon DEF LifeInv
  <1> QED
    BY <1>8, <1>9, <1>10, <1>11

LEMMA HandleActivateStep ==
  ASSUME CountingInv, HandleActivate
  PROVE  CountingInv'
  <1> USE DEF CountingInv
  <1>1. timerInbox \in Seq(Messages) /\ timerInbox # <<>> /\ timerInbox' = Tail(timerInbox)
    BY DEF HandleActivate, NextMessage, TypeOK
  <1>2. PICK m \in Messages :
          /\ m = Head(timerInbox) /\ m.kind = "activate" /\ CallOK(m)
          /\ Tail(timerInbox) \in Seq(Messages)
    BY <1>1, HeadTail DEF HandleActivate, NextMessage, CallsInv
  <1>3. PICK t \in Timers :
          /\ t = m.timer /\ t \in started /\ t \notin activated
          /\ t \notin deleted /\ sent[t] = 0
    BY <1>2 DEF CallOK, TypeOK
  <1>4. /\ fireTime' = [fireTime EXCEPT ![t] = FireTimeFor(t, atTime[t])]
        /\ queued' = queued \union {t} /\ activated' = activated \union {t}
        /\ UNCHANGED <<ownerVars, sent, atTime, deleted, scanVars, timeVars>>
    BY <1>2, <1>3 DEF HandleActivate
  <1>5. TypeOK'
    <2>1. FireTimeFor(t, atTime[t]) \in Int
      BY DEF FireTimeFor, TypeOK
    <2>2. fireTime' \in [Timers -> Int]
      BY <1>4, <2>1 DEF TypeOK
    <2> QED
      BY <1>1, <1>2, <1>4, <2>2 DEF TypeOK, ownerVars, scanVars, timeVars
  <1>6. CallsInv'
    <2>1. \A c \in Messages : CallOK(c) /\ CallsOrdered(m, c) => CallOK(c)'
      BY <1>2, <1>3, <1>4 DEF CallOK, CallsOrdered, ownerVars
    <2> QED
      BY <1>1, <1>2, <2>1, CallTaken
  <1>7. NotificationsInv'
    BY <1>4, NotificationsKept DEF TypeOK, NotificationOK, ownerVars
  <1>8. LifeInv'
    BY <1>3, <1>4 DEF LifeInv, ownerVars
  <1> QED
    BY <1>5, <1>6, <1>7, <1>8

LEMMA HandleReleaseStep ==
  ASSUME CountingInv, HandleRelease
  PROVE  CountingInv'
  <1> USE DEF CountingInv
  <1>1. timerInbox \in Seq(Messages) /\ timerInbox # <<>> /\ timerInbox' = Tail(timerInbox)
    BY DEF HandleRelease, NextMessage, TypeOK
  <1>2. PICK m \in Messages :
          /\ m = Head(timerInbox) /\ m.kind = "release" /\ CallOK(m)
          /\ Tail(timerInbox) \in Seq(Messages)
    BY <1>1, HeadTail DEF HandleRelease, NextMessage, CallsInv
  <1>3. PICK t \in Timers :
          /\ t = m.timer /\ t \in releasePending /\ t \notin deleted
          /\ m.count <= received[t] /\ m.count \in Nat
          /\ received[t] \in Nat /\ sent[t] \in Nat /\ received[t] <= sent[t]
    BY <1>2 DEF CallOK, TypeOK, LifeInv, Messages
  <1>4. /\ queued' = IF t \in activated THEN queued \ EqualKeys(t) ELSE queued
        /\ activated' = activated \ {t}
        /\ deleted' = IF m.count = sent[t] THEN deleted \union {t} ELSE deleted
        /\ UNCHANGED <<ownerVars, sent, atTime, fireTime, scanVars, timeVars>>
    BY <1>2, <1>3 DEF HandleRelease
  <1>5. t \notin queued' /\ queued' \subseteq queued
    BY <1>3, <1>4 DEF EqualKeys, LifeInv
  <1>6. t \in deleted' => received[t] = sent[t] /\ m.count = received[t]
    BY <1>3, <1>4
  <1>7. TypeOK'
    BY <1>1, <1>2, <1>4, <1>5 DEF TypeOK, ownerVars, scanVars, timeVars
  <1>8. CallsInv'
    <2>1. ASSUME NEW c \in Messages, CallOK(c), CallsOrdered(m, c)
          PROVE  CallOK(c)'
      <3>1. c.timer = t => c.kind = "release" /\ m.count < c.count
        BY <1>2, <1>3, <2>1 DEF CallsOrdered
      <3>2. c.timer = t => c.count <= received[t] /\ c.count \in Nat
        BY <2>1, <3>1 DEF CallOK, Messages
      <3>3. c.timer = t => t \notin deleted'
        BY <1>3, <1>6, <3>1, <3>2
      <3> QED
        BY <1>4, <2>1, <3>3 DEF CallOK, ownerVars
    <2> QED
      BY <1>1, <1>2, <2>1, CallTaken
  <1>9. NotificationsInv'
    <2>1. ASSUME NEW h \in Threads, NEW c \in Notifications, NotificationOK(h, c)
          PROVE  NotificationOK(h, c)'
      <3>1. c.timer = t => t \notin deleted'
        BY <1>3, <1>6, <2>1 DEF NotificationOK, Notifications
      <3> QED
        BY <1>4, <2>1, <3>1 DEF NotificationOK, ownerVars
    <2> QED
      BY <1>4, <2>1, NotificationsKept DEF TypeOK, ownerVars
  <1>10. LifeInv'
    BY <1>3, <1>4, <1>5 DEF LifeInv, ownerVars
  <1> QED
    BY <1>7, <1>8, <1>9, <1>10

LEMMA HandleRecalculateStep ==
  ASSUME CountingInv, HandleRecalculate
  PROVE  CountingInv'
  <1> USE DEF CountingInv
  <1>1. timerInbox \in Seq(Messages) /\ timerInbox # <<>> /\ timerInbox' = Tail(timerInbox)
    BY DEF HandleRecalculate, NextMessage, TypeOK
  <1>2. UNCHANGED <<ownerVars, queued, activated, sent, atTime, deleted, passed, timeVars>>
    BY DEF HandleRecalculate
  <1>3. TypeOK'
    <2>1. \A t \in Timers : FireTimeFor(t, atTime[t]) \in Int
      BY DEF FireTimeFor, TypeOK
    <2>2. fireTime' \in [Timers -> Int]
      BY <2>1 DEF HandleRecalculate, TypeOK
    <2>3. firing' \in BOOLEAN /\ now' \in Int
      BY DEF HandleRecalculate, TypeOK
    <2> QED
      BY <1>1, <1>2, <2>2, <2>3, HeadTail DEF TypeOK, ownerVars, timeVars
  <1>4. CallsInv'
    BY <1>1, <1>2, CallTaken DEF CallOK, ownerVars
  <1>5. NotificationsInv'
    BY <1>2, NotificationsKept DEF TypeOK, NotificationOK, ownerVars
  <1>6. LifeInv'
    BY <1>2 DEF LifeInv, ownerVars
  <1> QED
    BY <1>3, <1>4, <1>5, <1>6

\* What firing a timer has in common, whether it repeats or not.
LEMMA FireStep ==
  ASSUME CountingInv, NEW t \in Timers, AtIterator(t), Deliver(t), TypeOK',
         UNCHANGED <<started, releasePending, received, notified, timerInbox, deleted>>,
         \/ Repeat[t] = 0 /\ queued' = queued \ {t} /\ activated' = activated \ {t}
         \/ Repeat[t] # 0 /\ UNCHANGED <<queued, activated>>
  PROVE  CountingInv'
  <1> USE DEF CountingInv
  <1>1. t \in queued /\ t \in activated /\ t \in started /\ t \notin deleted
    BY DEF AtIterator, Ahead, LifeInv
  <1>2. /\ sent[t] \in Nat /\ received[t] \in Nat /\ received[t] <= sent[t]
        /\ sent' = [sent EXCEPT ![t] = @ + 1]
    BY DEF TypeOK, LifeInv, Deliver
  <1>3. PICK g \in Threads : g = ThreadOf[t]
    BY TimersAssumption
  <1>4. PICK n \in Notifications :
          /\ n.timer = t /\ n.number = sent[t] + 1
          /\ inbox' = [inbox EXCEPT ![g] = Append(@, n)]
    <2>1. sent[t] + 1 \in Nat
      BY <1>2
    <2> QED
      BY <1>3, <2>1, MessageType DEF Deliver
  <1>5. CallsInv'
    <2>1. \A c \in Messages : CallOK(c) => CallOK(c)'
      BY <1>1, <1>2 DEF CallOK
    <2> QED
      BY <2>1, CallsKept DEF TypeOK
  <1>6. NotificationsInv'
    <2>1. NotificationOK(g, n)'
      BY <1>1, <1>2, <1>3, <1>4 DEF NotificationOK, TypeOK
    <2>2. \A h \in Threads, c \in Notifications :
            NotificationOK(h, c) => NotificationOK(h, c)'
      BY <1>2 DEF NotificationOK, TypeOK, Notifications
    <2>3. \A c \in Notifications :
            NotificationOK(g, c) /\ c.timer = n.timer => c.number < n.number
      BY <1>2, <1>4 DEF NotificationOK, Notifications
    <2> QED
      BY <1>4, <2>1, <2>2, <2>3, NotificationSent DEF TypeOK
  <1>7. LifeInv'
    <2>1. /\ queued' \subseteq activated' /\ activated' \subseteq started'
          /\ deleted' \subseteq releasePending' /\ deleted' \intersect activated' = {}
      BY DEF LifeInv
    <2>2. ASSUME NEW u \in Timers
          PROVE  /\ received'[u] <= sent'[u] /\ notified'[u] <= received'[u]
                 /\ sent'[u] > 0 => u \in started'
                 /\ Repeat[u] = 0 => sent'[u] <= 1 /\ (u \in activated' => sent'[u] = 0)
      <3>1. CASE u = t
        BY <1>1, <1>2, <3>1 DEF LifeInv, TypeOK
      <3>2. CASE u # t
        <4>1. sent'[u] = sent[u] /\ (u \in activated' => u \in activated)
          BY <1>2, <3>2 DEF TypeOK
        <4> QED
          BY <4>1 DEF LifeInv, TypeOK
      <3> QED
        BY <3>1, <3>2
    <2> QED
      BY <2>1, <2>2 DEF LifeInv
  <1> QED
    BY <1>5, <1>6, <1>7

LEMMA FireOnceStep ==
  ASSUME CountingInv, NEW t \in Timers, FireOnce(t)
  PROVE  CountingInv'
  <1>1. TypeOK'
    <2>1. sent' \in [Timers -> Nat]
      BY DEF FireOnce, Deliver, CountingInv, TypeOK
    <2>2. inbox' \in [Threads -> Seq(Notifications)]
      <3>1. sent[t] + 1 \in Nat
        BY DEF CountingInv, TypeOK
      <3>2. [timer |-> t, number |-> sent[t] + 1] \in Notifications
        BY <3>1, MessageType
      <3> QED
        BY <3>2, Appended DEF FireOnce, Deliver, CountingInv, TypeOK
    <2> QED
      BY <2>1, <2>2 DEF FireOnce, CountingInv, TypeOK, scanVars, timeVars
  <1> QED
    BY <1>1, FireStep DEF FireOnce

LEMMA FireRepeatingStep ==
  ASSUME CountingInv, NEW t \in Timers, FireRepeating(t)
  PROVE  CountingInv'
  <1>1. TypeOK'
    <2>1. sent' \in [Timers -> Nat]
      BY DEF FireRepeating, Deliver, CountingInv, TypeOK
    <2>2. inbox' \in [Threads -> Seq(Notifications)]
      <3>1. sent[t] + 1 \in Nat
        BY DEF CountingInv, TypeOK
      <3>2. [timer |-> t, number |-> sent[t] + 1] \in Notifications
        BY <3>1, MessageType
      <3> QED
        BY <3>2, Appended DEF FireRepeating, Deliver, CountingInv, TypeOK
    <2>3. atTime' \in [Timers -> Int] /\ fireTime' \in [Timers -> Int]
      <3>1. atTime[t] + Repeat[t] \in Int /\ skew \in Int
        BY TimersAssumption DEF CountingInv, TypeOK
      <3>2. FireTimeFor(t, atTime[t] + Repeat[t]) \in Int
        BY <3>1 DEF FireTimeFor
      <3> QED
        BY <3>1, <3>2 DEF FireRepeating, CountingInv, TypeOK
    <2>4. passed' \subseteq Timers
      BY DEF FireRepeating, CountingInv, TypeOK
    <2> QED
      BY <2>1, <2>2, <2>3, <2>4 DEF FireRepeating, CountingInv, TypeOK, timeVars
  <1> QED
    BY <1>1, FireStep DEF FireRepeating

\* Steps that touch neither a timer nor a message, but for a reset's call.
LEMMA QuietStep ==
  ASSUME CountingInv, TypeOK', CallsInv', UNCHANGED <<ownerVars, threadVars>>
  PROVE  CountingInv'
  <1>1. NotificationsInv'
    BY NotificationsKept DEF CountingInv, TypeOK, NotificationOK, ownerVars, threadVars
  <1>2. LifeInv'
    BY DEF CountingInv, LifeInv, ownerVars, threadVars
  <1> QED
    BY <1>1, <1>2 DEF CountingInv

LEMMA TimeStep ==
  ASSUME CountingInv,
         BeginFiring \/ EndFiring \/ Tick \/ SyncValueChanged \/ UNCHANGED vars
  PROVE  CountingInv'
  <1>1. UNCHANGED <<ownerVars, timerInbox, threadVars>>
    BY DEF BeginFiring, EndFiring, Tick, SyncValueChanged, vars
  <1>2. TypeOK'
    <2>1. /\ firing' \in BOOLEAN /\ now' \in Int /\ passed' \subseteq Timers
          /\ clock' \in Int /\ skew' \in Int
      <3>1. CASE BeginFiring
        BY <3>1 DEF CountingInv, TypeOK, BeginFiring, timeVars
      <3>2. CASE EndFiring
        BY <3>2 DEF CountingInv, TypeOK, EndFiring, timeVars
      <3>3. CASE Tick
        <4>1. clock' \in Int
          BY <3>3 DEF CountingInv, TypeOK, Tick
        <4> QED
          BY <3>3, <4>1 DEF CountingInv, TypeOK, Tick, scanVars
      <3>4. CASE SyncValueChanged
        BY <3>4, TimeAssumption DEF CountingInv, TypeOK, SyncValueChanged, scanVars
      <3>5. CASE UNCHANGED vars
        BY <3>5 DEF CountingInv, TypeOK, vars, scanVars, timeVars
      <3> QED
        BY <3>1, <3>2, <3>3, <3>4, <3>5
    <2> QED
      BY <1>1, <2>1 DEF CountingInv, TypeOK, ownerVars, threadVars
  <1>3. CallsInv'
    BY <1>1, CallsKept DEF CountingInv, TypeOK, CallOK, ownerVars, threadVars
  <1> QED
    BY <1>1, <1>2, <1>3, QuietStep

LEMMA ResetStep ==
  ASSUME CountingInv, ContinuousTimeReset
  PROVE  CountingInv'
  <1>1. UNCHANGED <<ownerVars, threadVars, scanVars, skew>>
    BY DEF ContinuousTimeReset
  <1>2. PICK m \in Messages :
          /\ m.kind = "recalculate" /\ m.timer = NoTimer
          /\ timerInbox' = Append(timerInbox, m)
    <2>1. [kind |-> "recalculate", timer |-> NoTimer, count |-> 0] \in Messages
      BY DEF Messages
    <2> QED
      BY <2>1 DEF ContinuousTimeReset, Tell
  <1>3. TypeOK'
    <2>1. timerInbox' \in Seq(Messages)
      BY <1>2, Appended DEF CountingInv, TypeOK
    <2>2. clock' \in Int
      BY TimeAssumption DEF ContinuousTimeReset
    <2> QED
      BY <1>1, <2>1, <2>2 DEF CountingInv, TypeOK, ownerVars, threadVars, scanVars
  <1>4. CallsInv'
    <2>1. \A c \in Messages : CallOK(c) => CallOK(c)'
      BY <1>1 DEF CallOK, ownerVars, threadVars
    <2>2. ASSUME NEW c \in Messages, CallOK(c) PROVE CallsOrdered(c, m)
      <3>1. c.kind # "recalculate" => c.timer \in Timers
        BY <2>2 DEF CallOK, Messages, CountingInv, TypeOK
      <3> QED
        BY <1>2, <3>1, TimersAssumption DEF CallsOrdered
    <2>3. CallOK(m)'
      BY <1>2 DEF CallOK
    <2> QED
      BY <1>2, <2>1, <2>2, <2>3, CallMade DEF CountingInv, TypeOK
  <1> QED
    BY <1>1, <1>3, <1>4, QuietStep

\* The invariant holds in every behaviour.
THEOREM CountingCorrect == Spec => []CountingInv
  <1>1. CountingInv /\ [Next]_vars => CountingInv'
    BY ActivateStep, ReleaseStep, ReceiveStep, HandleActivateStep, HandleReleaseStep,
       HandleRecalculateStep, FireOnceStep, FireRepeatingStep, TimeStep, ResetStep
    DEF Next, HandleMessage, FireLapsedTimers
  <1> QED
    BY InitCounting, <1>1, PTL DEF Spec

\* The fields of timers, queues and messages keep their types.
THEOREM TypeCorrect == Spec => []TypeOK
  <1>1. CountingInv => TypeOK
    BY DEF CountingInv
  <1> QED
    BY <1>1, CountingCorrect, PTL

\* The protocol of counts does what the comment above ESTimerThread::release
\* wants: no notification, call or queue entry refers to a deleted timer, and
\* equal counts mean that nothing is on its way to the owner.
THEOREM DeletionIsSafe ==
  Spec => [](NothingRefersToDeleted /\ EqualCountsMeanNoneOnItsWay)
  <1>1. ASSUME CountingInv
        PROVE  NothingRefersToDeleted /\ EqualCountsMeanNoneOnItsWay
    <2>1. ASSUME NEW i \in 1 .. Len(timerInbox)
          PROVE  timerInbox[i].timer \notin deleted
      <3>1. CallOK(timerInbox[i]) /\ timerInbox[i] \in Messages
        BY <1>1 DEF CountingInv, CallsInv, TypeOK
      <3> QED
        BY <1>1, <3>1, TimersAssumption DEF CallOK, Messages, CountingInv, TypeOK
    <2>2. \A h \in Threads : \A i \in 1 .. Len(inbox[h]) :
            inbox[h][i] \in Notifications /\ NotificationOK(h, inbox[h][i])
      BY <1>1 DEF CountingInv, NotificationsInv, TypeOK
    <2>3. deleted \intersect (queued \union activated) = {}
      BY <1>1 DEF CountingInv, LifeInv
    <2>4. ASSUME NEW t \in Timers, received[t] = sent[t],
                 NEW h \in Threads, NEW i \in 1 .. Len(inbox[h])
          PROVE  inbox[h][i].timer # t
      BY <1>1, <2>2, <2>4 DEF NotificationOK, Notifications, CountingInv, TypeOK
    <2> QED
      BY <1>1, <2>1, <2>2, <2>3, <2>4 DEF NothingRefersToDeleted,
         EqualCountsMeanNoneOnItsWay, NotificationOK, CountingInv, LifeInv
  <1> QED
    BY <1>1, CountingCorrect, PTL

-----------------------------------------------------------------------------
(* ESTimer implements TimerContract. *)

LEMMA InitContract == Init => Contract!Init
  BY DEF Init, Contract!Init, TimerState

LEMMA ActivateContract ==
  ASSUME CountingInv, NEW t \in Timers, Activate(t)
  PROVE  Contract!Activate(t)
  <1>1. t \notin deleted /\ t \notin releasePending /\ t \notin started
    BY DEF Activate, CountingInv, LifeInv
  <1>2. started' = started \union {t} /\ UNCHANGED <<releasePending, deleted, notified>>
    BY DEF Activate, threadVars
  <1>3. TimerState[t] = "new"
    BY <1>1 DEF TimerState
  <1>4. TimerState' = [TimerState EXCEPT ![t] = "active"]
    BY <1>1, <1>2 DEF TimerState
  <1> QED
    BY <1>2, <1>3, <1>4 DEF Contract!Activate

LEMMA ReleaseContract ==
  ASSUME CountingInv, NEW t \in Timers, Release(t)
  PROVE  Contract!Release(t)
  <1>1. t \notin deleted /\ t \notin releasePending
    BY DEF Release, CountingInv, LifeInv
  <1>2. /\ releasePending' = releasePending \union {t}
        /\ UNCHANGED <<started, deleted, notified>>
    BY DEF Release, threadVars
  <1>3. TimerState[t] \in {"new", "active"}
    BY <1>1 DEF TimerState
  <1>4. TimerState' = [TimerState EXCEPT ![t] = "released"]
    BY <1>1, <1>2 DEF TimerState
  <1> QED
    BY <1>2, <1>3, <1>4 DEF Contract!Release

\* A notification that arrives before the release is the first one of a timer
\* that does not repeat; one that arrives after it goes no further.
LEMMA ReceiveContract ==
  ASSUME CountingInv, NEW g \in Threads, ReceiveNotification(g)
  PROVE  (\E t \in Timers : Contract!Notify(t)) \/ UNCHANGED <<TimerState, notified>>
  <1>1. inbox[g] # <<>> /\ inbox[g] \in Seq(Notifications)
    BY DEF ReceiveNotification, CountingInv, TypeOK
  <1>2. PICK x \in Notifications : x = Head(inbox[g]) /\ NotificationOK(g, x)
    BY <1>1, HeadTail DEF CountingInv, NotificationsInv
  <1>3. PICK t \in Timers : t = x.timer /\ t \in started /\ t \notin deleted
                            /\ received[t] < sent[t]
    <2>1. x.timer \in Timers /\ x.number \in Nat
      BY DEF Notifications
    <2>2. received[x.timer] \in Nat /\ sent[x.timer] \in Nat
      BY <2>1 DEF CountingInv, TypeOK
    <2>3. /\ x.timer \in started /\ x.timer \notin deleted
          /\ received[x.timer] < x.number /\ x.number <= sent[x.timer]
      BY <1>2 DEF NotificationOK
    <2>4. \A a, b, c \in Nat : a < b /\ b <= c => a < c
      OBVIOUS
    <2> QED
      BY <2>1, <2>2, <2>3, <2>4
  <1>4. UNCHANGED TimerState
    BY DEF ReceiveNotification, TimerState, threadVars
  <1>5. CASE t \in releasePending
    BY <1>2, <1>3, <1>4, <1>5 DEF ReceiveNotification
  <1>6. CASE t \notin releasePending
    <2>1. notified' = [notified EXCEPT ![t] = @ + 1]
      BY <1>2, <1>3, <1>6 DEF ReceiveNotification
    <2>2. TimerState[t] = "active"
      BY <1>3, <1>6 DEF TimerState
    <2>3. Repeat[t] = 0 => notified[t] = 0
      BY <1>3 DEF CountingInv, LifeInv, TypeOK
    <2> QED
      BY <1>4, <2>1, <2>2, <2>3 DEF Contract!Notify
  <1> QED
    BY <1>5, <1>6

LEMMA HandleReleaseContract ==
  ASSUME CountingInv, HandleRelease
  PROVE  (\E t \in Timers : Contract!Delete(t)) \/ UNCHANGED <<TimerState, notified>>
  <1>1. timerInbox \in Seq(Messages) /\ timerInbox # <<>>
    BY DEF HandleRelease, NextMessage, CountingInv, TypeOK
  <1>2. PICK m \in Messages :
          m = Head(timerInbox) /\ m.kind = "release" /\ CallOK(m)
    BY <1>1, HeadTail DEF HandleRelease, NextMessage, CountingInv, CallsInv
  <1>3. PICK t \in Timers : t = m.timer /\ t \in releasePending /\ t \notin deleted
    BY <1>2 DEF CallOK, CountingInv, TypeOK
  <1>4. UNCHANGED <<started, releasePending, notified>>
    BY DEF HandleRelease, ownerVars
  <1>5. CASE deleted' = deleted
    BY <1>4, <1>5 DEF TimerState
  <1>6. CASE deleted' = deleted \union {t}
    <2>1. TimerState[t] = "released"
      BY <1>3 DEF TimerState
    <2>2. TimerState' = [TimerState EXCEPT ![t] = "deleted"]
      BY <1>3, <1>4, <1>6 DEF TimerState
    <2> QED
      BY <1>4, <2>1, <2>2 DEF Contract!Delete
  <1> QED
    BY <1>2, <1>3, <1>5, <1>6 DEF HandleRelease

\* Every other step is invisible to the owners of timers.
LEMMA InvisibleSteps ==
  ASSUME \/ HandleActivate \/ HandleRecalculate \/ BeginFiring \/ EndFiring
         \/ (\E t \in Timers : FireOnce(t) \/ FireRepeating(t))
         \/ Tick \/ SyncValueChanged \/ ContinuousTimeReset \/ UNCHANGED vars
  PROVE  UNCHANGED <<TimerState, notified>>
  <1>1. UNCHANGED <<started, releasePending, deleted, notified>>
    BY DEF HandleActivate, HandleRecalculate, BeginFiring, EndFiring, FireOnce,
       FireRepeating, Tick, SyncValueChanged, ContinuousTimeReset, vars, ownerVars,
       threadVars
  <1> QED
    BY <1>1 DEF TimerState

\* However the threads interleave, ESTimer notifies, releases and deletes only
\* as TimerContract allows.
THEOREM ImplementsContract == Spec => KeepsContract
  <1>1. CountingInv /\ [Next]_vars => [Contract!Next]_(Contract!contractVars)
    <2> SUFFICES ASSUME CountingInv, [Next]_vars
                 PROVE  Contract!Next \/ UNCHANGED <<TimerState, notified>>
      BY DEF Contract!contractVars
    <2>1. ASSUME NEW t \in Timers, Activate(t) \/ Release(t) PROVE Contract!Next
      BY <2>1, ActivateContract, ReleaseContract DEF Contract!Next
    <2>2. ASSUME NEW h \in Threads, ReceiveNotification(h)
          PROVE  Contract!Next \/ UNCHANGED <<TimerState, notified>>
      BY <2>2, ReceiveContract DEF Contract!Next
    <2>3. CASE HandleRelease
      BY <2>3, HandleReleaseContract DEF Contract!Next
    <2>4. CASE \/ HandleActivate \/ HandleRecalculate \/ BeginFiring \/ EndFiring
               \/ (\E t \in Timers : FireOnce(t) \/ FireRepeating(t))
               \/ Tick \/ SyncValueChanged \/ ContinuousTimeReset \/ UNCHANGED vars
      BY <2>4, InvisibleSteps
    <2> QED
      BY <2>1, <2>2, <2>3, <2>4 DEF Next, HandleMessage, FireLapsedTimers
  <1> QED
    BY InitContract, <1>1, CountingCorrect, PTL DEF Spec, KeepsContract, Contract!SafeSpec
=============================================================================
