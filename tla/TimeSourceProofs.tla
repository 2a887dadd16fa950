--------------------------- MODULE TimeSourceProofs ---------------------------
(***************************************************************************)
(* Proofs about TimeSource, for any table of leap seconds, any observers   *)
(* and any clock that stays short of "never": no report gets lost, and     *)
(* what ESTime vouches for is UTC, at every leap second and across them.   *)
(***************************************************************************)
EXTENDS TimeSource, FiniteSetTheorems, TLAPS

-----------------------------------------------------------------------------
(* The table. *)

LEMMA Constants ==
  /\ Second \in Nat \ {0} /\ Hold \in Nat \ {0} /\ Hold < Second
  /\ MaxTime \in Nat /\ Accurate \in Nat /\ Unknown \in Nat
  /\ Never \in Int /\ MaxTime + Second < Never /\ Last \in Nat
  /\ \A i \in Entries : i \in Int /\ Begins[i] \in Int /\ Begins[i] < Never
  BY ClockAssumption, TableAssumption DEF Entries

LEMMA Multiples ==
  ASSUME NEW i \in Int, NEW j \in Int, i < j
  PROVE  /\ i * Second \in Int /\ j * Second \in Int /\ Second * j = j * Second
         /\ i * Second + Second <= j * Second
         /\ (i + 1) * Second = i * Second + Second
  <1>1. Second \in Nat
    BY Constants
  <1>2. \A n \in Nat : n * Second >= 0 /\ n * Second \in Int
    BY <1>1
  <1>3. (j - i - 1) \in Nat /\ (j - i - 1) * Second = j * Second - i * Second - Second
    BY <1>1
  <1>4. (i + 1) * Second = i * Second + Second /\ Second * j = j * Second
    BY <1>1
  <1> QED
    BY <1>1, <1>2, <1>3, <1>4

\* Where the leap second of an entry lies.
LEMMA LeapTimes ==
  ASSUME NEW i \in Entries
  PROVE  /\ LeapStart(i) \in Int /\ LeapEnd(i) \in Int
         /\ LeapStart(i) = Begins[i] + i * Second
         /\ LeapEnd(i) = Begins[i] + (i + 1) * Second
         /\ LeapEnd(i) = LeapStart(i) + Second
         /\ i * Second \in Int /\ (i + 1) * Second \in Int
  <1>1. i \in Int /\ Begins[i] \in Int /\ Second \in Int
    BY Constants
  <1>2. (i + 1) * Second = i * Second + Second /\ i * Second \in Int
    BY <1>1
  <1> QED
    BY <1>1, <1>2 DEF LeapStart, LeapEnd

\* A leap second is over before the next one begins.
LEMMA LeapOrder ==
  ASSUME NEW i \in Entries, NEW j \in Entries, i < j
  PROVE  LeapEnd(i) < LeapStart(j)
  <1>1. i \in Int /\ j \in Int /\ Begins[i] < Begins[j] /\ Begins[i] \in Int /\ Begins[j] \in Int
    BY Constants, TableAssumption
  <1>2. i * Second + Second <= j * Second /\ (i + 1) * Second = i * Second + Second
    BY <1>1, Multiples
  <1>3. i * Second \in Int /\ j * Second \in Int /\ Second \in Int
    BY <1>1, Constants
  <1>4. LeapEnd(i) = Begins[i] + i * Second + Second /\ LeapStart(j) = Begins[j] + j * Second
    BY DEF LeapEnd, LeapStart
  <1> QED
    BY <1>1, <1>2, <1>3, <1>4

\* How many of increasing times are before t: as many as the first of them.
LEMMA CountBefore ==
  ASSUME NEW time \in [Entries -> Int], NEW t \in Int,
         \A i, j \in Entries : i < j => time[i] < time[j]
  PROVE  /\ Cardinality({i \in Entries : time[i] < t}) \in 0 .. Last + 1
         /\ \A i \in Entries : time[i] < t <=> i < Cardinality({j \in Entries : time[j] < t})
  <1> DEFINE S == {i \in Entries : time[i] < t}
             n == Cardinality(S)
  <1>1. Last \in Nat
    BY Constants
  <1>2. /\ IsFiniteSet(Entries) /\ Cardinality(Entries) = Last + 1
    BY <1>1, FS_Interval DEF Entries
  <1>3. IsFiniteSet(S) /\ n <= Last + 1 /\ n \in Nat
    BY <1>2, FS_Subset, FS_CardinalityType
  <1>4. ASSUME NEW i \in S PROVE i \in 0 .. n - 1
    <2>1. i \in 0 .. Last /\ time[i] < t
      BY DEF Entries
    <2>2. 0 .. i \subseteq S
      <3> SUFFICES ASSUME NEW j \in 0 .. i, j # i PROVE j \in S
        OBVIOUS
      <3>1. j \in Entries /\ j < i /\ i \in Entries
        BY <2>1, <1>1 DEF Entries
      <3>2. time[j] < time[i] /\ time[j] \in Int /\ time[i] \in Int
        BY <3>1
      <3> QED
        BY <2>1, <3>1, <3>2
    <2>3. Cardinality(0 .. i) = i + 1
      BY <2>1, FS_Interval
    <2>4. Cardinality(0 .. i) <= n
      BY <1>3, <2>2, FS_Subset
    <2> QED
      BY <1>3, <2>1, <2>3, <2>4
  <1>5. Cardinality(0 .. n - 1) = n /\ IsFiniteSet(0 .. n - 1)
    BY <1>3, FS_Interval
  <1>6. S = 0 .. n - 1
    BY <1>4, <1>5, FS_Subset
  <1>7. \A i \in Entries : time[i] < t <=> i < n
    <2> SUFFICES ASSUME NEW i \in Entries PROVE i \in S <=> i < n
      OBVIOUS
    <2>1. i \in 0 .. Last
      BY DEF Entries
    <2> QED
      BY <1>1, <1>3, <1>6, <2>1
  <1>8. n \in 0 .. Last + 1
    BY <1>1, <1>3
  <1> QED
    BY <1>7, <1>8

\* k seconds have been inserted.
Passed(k) == k \in 0 .. Last + 1 /\ \A i \in Entries : LeapEnd(i) < now <=> i < k

LEMMA InsertedIsPassed ==
  ASSUME now \in Int
  PROVE  Passed(Inserted)
  <1> DEFINE time == [i \in Entries |-> LeapEnd(i)]
  <1>1. time \in [Entries -> Int]
    BY LeapTimes
  <1>2. ASSUME NEW i \in Entries, NEW j \in Entries, i < j PROVE time[i] < time[j]
    <2>1. /\ LeapEnd(i) < LeapStart(j) /\ LeapEnd(j) = LeapStart(j) + Second
          /\ LeapEnd(i) \in Int /\ LeapStart(j) \in Int /\ Second \in Nat
      BY <1>2, LeapOrder, LeapTimes, Constants
    <2> QED
      BY <2>1
  <1>3. /\ Inserted = Cardinality({i \in Entries : time[i] < now})
        /\ \A i \in Entries : time[i] = LeapEnd(i)
    BY DEF Inserted
  <1> HIDE DEF time
  <1>4. /\ Cardinality({i \in Entries : time[i] < now}) \in 0 .. Last + 1
        /\ \A i \in Entries : time[i] < now <=> i < Cardinality({j \in Entries : time[j] < now})
    BY <1>1, <1>2, CountBefore
  <1> QED
    BY <1>3, <1>4 DEF Passed

\* There is only one such number.
LEMMA PassedIsInserted ==
  ASSUME now \in Int, NEW k, Passed(k)
  PROVE  Inserted = k
  <1> DEFINE n == Inserted
  <1>1. Passed(n)
    BY InsertedIsPassed
  <1> HIDE DEF n
  <1>2. n \in 0 .. Last + 1 /\ k \in 0 .. Last + 1 /\ Last \in Nat
    BY <1>1, Constants DEF Passed
  <1>3. \A i \in 0 .. Last : i < n <=> i < k
    BY <1>1 DEF Passed, Entries
  <1>4. ~(n < k)
    <2> SUFFICES ASSUME n < k PROVE FALSE
      OBVIOUS
    <2>1. n \in 0 .. Last
      BY <1>2
    <2> QED
      BY <1>2, <1>3, <2>1
  <1>5. ~(k < n)
    <2> SUFFICES ASSUME k < n PROVE FALSE
      OBVIOUS
    <2>1. k \in 0 .. Last
      BY <1>2
    <2> QED
      BY <1>2, <1>3, <2>1
  <1> QED
    BY <1>2, <1>4, <1>5 DEF n

\* The date of entry k, or never.
DateOf(k) == IF k <= Last THEN Begins[k] ELSE Never

LEMMA NextIsDateOf ==
  ASSUME NEW k \in 0 .. Last + 1, NEW utc \in Int,
         \A i \in Entries : i < k => Begins[i] < utc,
         \A i \in Entries : k <= i => utc <= Begins[i]
  PROVE  NextLeapSecondAfter(utc) = DateOf(k)
  <1> DEFINE D == {Begins[i] : i \in Entries} \cup {Never}
  <1>1. \A i \in Entries : Begins[i] \in Int /\ Begins[i] < Never /\ i \in Int
    BY Constants
  <1>2. \A i \in Entries : utc <= Begins[i] <=> k <= i
    BY <1>1 DEF Entries
  <1>3. IsNext(utc, DateOf(k)) /\ DateOf(k) \in D
    <2>1. CASE k <= Last
      <3>1. k \in Entries /\ DateOf(k) = Begins[k]
        BY <2>1, Constants DEF DateOf, Entries
      <3>2. \A i \in Entries : k <= i => Begins[k] <= Begins[i]
        BY <1>1, <3>1, TableAssumption
      <3> QED
        BY <1>2, <3>1, <3>2 DEF IsNext
    <2>2. CASE ~(k <= Last)
      <3>1. DateOf(k) = Never /\ \A i \in Entries : i < k
        BY <2>2, Constants DEF DateOf, Entries
      <3>2. \A i \in Entries : Begins[i] < utc
        BY <3>1
      <3> QED
        BY <1>1, <3>1, <3>2 DEF IsNext
    <2> QED
      BY <2>1, <2>2
  <1>4. ASSUME NEW date \in D, IsNext(utc, date) PROVE date = DateOf(k)
    <2>1. CASE k <= Last
      <3>1. k \in Entries /\ DateOf(k) = Begins[k] /\ utc <= Begins[k]
        BY <2>1, <1>2, Constants DEF DateOf, Entries
      <3>2. PICK i \in Entries : date = Begins[i] /\ utc <= Begins[i]
        <4>1. ~(Begins[k] < utc)
          BY <1>1, <3>1
        <4> QED
          BY <1>4, <3>1, <4>1 DEF IsNext
      <3>3. k <= i /\ Begins[i] <= Begins[k]
        BY <1>2, <1>4, <3>1, <3>2 DEF IsNext
      <3>4. ~(k < i)
        BY <1>1, <3>1, <3>2, <3>3, TableAssumption
      <3>5. k = i
        BY <1>1, <3>1, <3>2, <3>3, <3>4
      <3> QED
        BY <3>1, <3>2, <3>5
    <2>2. CASE ~(k <= Last)
      <3>1. DateOf(k) = Never /\ \A i \in Entries : ~(k <= i)
        BY <2>2, Constants DEF DateOf, Entries
      <3> QED
        BY <1>2, <1>4, <3>1 DEF IsNext
    <2> QED
      BY <2>1, <2>2
  <1> QED
    BY <1>3, <1>4 DEF NextLeapSecondAfter

\* There is a next leap second, or never one.
LEMMA NextIsInTable ==
  ASSUME NEW utc \in Int
  PROVE  NextLeapSecondAfter(utc) \in {Begins[i] : i \in Entries} \cup {Never}
  <1> DEFINE k == Cardinality({i \in Entries : Begins[i] < utc})
  <1>1. /\ k \in 0 .. Last + 1
        /\ \A i \in Entries : Begins[i] < utc <=> i < k
    BY CountBefore, TableAssumption
  <1> HIDE DEF k
  <1>2. \A i \in Entries : i \in Int /\ Begins[i] \in Int
    BY Constants
  <1>3. NextLeapSecondAfter(utc) = DateOf(k)
    BY <1>1, <1>2, NextIsDateOf
  <1>4. k <= Last => k \in Entries
    BY <1>1 DEF Entries
  <1> QED
    BY <1>3, <1>4 DEF DateOf

LEMMA CumulativeIs ==
  ASSUME NEW k \in 0 .. Last + 1, NEW utc \in Int,
         \A i \in Entries : i < k => Begins[i] < utc,
         \A i \in Entries : k <= i => utc <= Begins[i]
  PROVE  CumulativeLeapSecondsForUTC(utc) = k
  <1>1. \A i \in Entries : Begins[i] \in Int /\ i \in Int
    BY Constants
  <1>2. Last \in Nat
    BY Constants
  <1>3. \A i \in Entries : i < k <=> Begins[i] < utc
    BY <1>1, <1>2
  <1>4. IsCumulative(utc, k)
    BY <1>3 DEF IsCumulative
  <1>5. ASSUME NEW n \in 0 .. Last + 1, IsCumulative(utc, n) PROVE n = k
    <2>1. \A i \in Entries : i < k <=> i < n
      BY <1>3, <1>5 DEF IsCumulative
    <2>2. ~(n < k)
      <3> SUFFICES ASSUME n < k PROVE FALSE
        OBVIOUS
      <3>1. n \in Entries
        BY <1>2 DEF Entries
      <3> QED
        BY <2>1, <3>1, <1>2
    <2>3. ~(k < n)
      <3> SUFFICES ASSUME k < n PROVE FALSE
        OBVIOUS
      <3>1. k \in Entries
        BY <1>2 DEF Entries
      <3> QED
        BY <2>1, <3>1, <1>2
    <2> QED
      BY <1>2, <2>2, <2>3
  <1> QED
    BY <1>4, <1>5 DEF CumulativeLeapSecondsForUTC

LEMMA CumulativeType ==
  ASSUME NEW utc \in Int
  PROVE  CumulativeLeapSecondsForUTC(utc) \in Nat
  <1> DEFINE k == Cardinality({i \in Entries : Begins[i] < utc})
  <1>1. /\ k \in 0 .. Last + 1
        /\ \A i \in Entries : Begins[i] < utc <=> i < k
    BY CountBefore, TableAssumption
  <1> HIDE DEF k
  <1>2. \A i \in Entries : i \in Int /\ Begins[i] \in Int
    BY Constants
  <1>3. CumulativeLeapSecondsForUTC(utc) = k
    BY <1>1, <1>2, CumulativeIs
  <1> QED
    BY <1>1, <1>3

-----------------------------------------------------------------------------
(* The best driver. *)

Kinds == {"value", "status"}
Reports == {<<"leap">>} \cup {<<kind, o>> : kind \in Kinds, o \in ObserverSet}

(***************************************************************************)
(* The GPS driver never synchronizes, so that it is never the best one and *)
(* has nothing to report; the next leap second is one of the table.        *)
(***************************************************************************)
SourceInv ==
  /\ now \in 0 .. MaxTime
  /\ bestDriver = "NTP"
  /\ contSkew \in [Drivers -> Int] /\ timeError \in [Drivers -> Int]
  /\ status \in [Drivers -> NTPStatuses \cup {"Off", "FailedUnsynchronized"}]
  /\ status["XGPS150"] \in {"Off", "FailedUnsynchronized"}
  /\ todo \in [Drivers -> Seq(Reports)] /\ todo["XGPS150"] = <<>>
  /\ inbox \in [ObserverSet -> Seq(Kinds)]
  /\ \E S : seen \in [ObserverSet -> [skew : Int, error : Int, status : S]]

\* The next leap second is one of the table, if it is known.
TableInv ==
  /\ nextLeapDate \in {Begins[i] : i \in Entries} \cup {Never}
  /\ nextLeapDelta = IF nextLeapDate = Never THEN 0 ELSE Second

LEMMA ReportKinds ==
  ASSUME NEW kind \in Kinds, NEW o
  PROVE  /\ <<kind, o>>[1] = kind /\ <<kind, o>>[2] = o /\ <<kind, o>> # <<"leap">>
  <1>1. <<kind, o>>[1] = kind /\ <<kind, o>>[2] = o /\ <<"leap">>[1] = "leap" /\ kind # "leap"
    BY DEF Kinds
  <1> QED
    BY <1>1

LEMMA NotLeap ==
  ASSUME NEW r \in Reports, r # <<"leap">>
  PROVE  \E kind \in Kinds, o \in ObserverSet : r = <<kind, o>> /\ r[1] = kind /\ r[2] = o
  BY ReportKinds DEF Reports

\* The loops over the observers make one call of each.
LEMMA CallsToAll ==
  ASSUME NEW kind \in Kinds
  PROVE  /\ Calls(kind) \in Seq(Reports) /\ Len(Calls(kind)) = Len(Observers)
         /\ \A o \in ObserverSet : \E i \in 1 .. Len(Calls(kind)) : Calls(kind)[i] = <<kind, o>>
  <1>1. /\ Len(Observers) \in Nat /\ DOMAIN Observers = 1 .. Len(Observers)
        /\ \A i \in 1 .. Len(Observers) : Observers[i] \in ObserverSet
    BY ObserversAssumption
  <1>2. \A i \in 1 .. Len(Observers) : <<kind, Observers[i]>> \in Reports
    BY <1>1 DEF Reports
  <1>3. /\ Calls(kind) \in Seq(Reports) /\ Len(Calls(kind)) = Len(Observers)
        /\ \A i \in 1 .. Len(Observers) : Calls(kind)[i] = <<kind, Observers[i]>>
    BY <1>1, <1>2 DEF Calls
  <1> QED
    BY <1>1, <1>3 DEF ObserverSet

\* A call is in the queue.
In(c, q) == \E i \in 1 .. Len(q) : q[i] = c

LEMMA InLonger ==
  ASSUME NEW S, NEW p \in Seq(S), NEW q \in Seq(S), NEW c
  PROVE  p \o q \in Seq(S) /\ (In(c, p \o q) <=> In(c, p) \/ In(c, q))
  <1>1. /\ Len(p) \in Nat /\ Len(q) \in Nat /\ Len(p \o q) = Len(p) + Len(q)
        /\ \A i \in 1 .. Len(p) : (p \o q)[i] = p[i]
        /\ \A i \in 1 .. Len(q) : (p \o q)[Len(p) + i] = q[i]
        /\ p \o q \in Seq(S)
    OBVIOUS
  <1> DEFINE r == p \o q
  <1>2. /\ Len(r) = Len(p) + Len(q) /\ \A i \in 1 .. Len(p) : r[i] = p[i]
        /\ \A i \in 1 .. Len(q) : r[Len(p) + i] = q[i]
    BY <1>1
  <1> HIDE DEF r
  <1>3. ASSUME In(c, p) PROVE In(c, r)
    <2>1. PICK i \in 1 .. Len(p) : p[i] = c
      BY <1>3 DEF In
    <2>2. i \in 1 .. Len(r) /\ r[i] = c
      BY <1>1, <1>2, <2>1
    <2> QED
      BY <2>2 DEF In
  <1>4. ASSUME In(c, q) PROVE In(c, r)
    <2>1. PICK i \in 1 .. Len(q) : q[i] = c
      BY <1>4 DEF In
    <2>2. Len(p) + i \in 1 .. Len(r) /\ r[Len(p) + i] = c
      BY <1>1, <1>2, <2>1
    <2> QED
      BY <2>2 DEF In
  <1>5. ASSUME In(c, r) PROVE In(c, p) \/ In(c, q)
    <2>1. PICK i \in 1 .. Len(r) : r[i] = c
      BY <1>5 DEF In
    <2>2. CASE i <= Len(p)
      <3>1. i \in 1 .. Len(p) /\ p[i] = c
        BY <1>1, <1>2, <2>1, <2>2
      <3> QED
        BY <3>1 DEF In
    <2>3. CASE ~(i <= Len(p))
      <3>1. i - Len(p) \in 1 .. Len(q) /\ Len(p) + (i - Len(p)) = i
        BY <1>1, <1>2, <2>1, <2>3
      <3>2. q[i - Len(p)] = r[Len(p) + (i - Len(p))]
        BY <1>2, <3>1
      <3>3. q[i - Len(p)] = c
        BY <2>1, <3>1, <3>2
      <3> QED
        BY <3>1, <3>3 DEF In
    <2> QED
      BY <2>2, <2>3
  <1> QED
    BY <1>1, <1>3, <1>4, <1>5 DEF r

LEMMA InRest ==
  ASSUME NEW S, NEW q \in Seq(S), q # <<>>
  PROVE  /\ Head(q) \in S /\ Tail(q) \in Seq(S)
         /\ \A c : In(c, q) <=> c = Head(q) \/ In(c, Tail(q))
  <1>1. /\ Len(q) \in Nat \ {0} /\ Len(Tail(q)) = Len(q) - 1 /\ Head(q) = q[1]
        /\ \A i \in 1 .. Len(q) - 1 : Tail(q)[i] = q[i + 1]
        /\ Head(q) \in S /\ Tail(q) \in Seq(S)
    OBVIOUS
  <1>2. ASSUME NEW c, In(c, q) PROVE c = Head(q) \/ In(c, Tail(q))
    <2>1. PICK i \in 1 .. Len(q) : q[i] = c
      BY <1>2 DEF In
    <2>2. CASE i # 1
      <3>1. i - 1 \in 1 .. Len(q) - 1 /\ (i - 1) + 1 = i
        BY <1>1, <2>1, <2>2
      <3>2. Tail(q)[i - 1] = c
        BY <1>1, <2>1, <3>1
      <3> QED
        BY <1>1, <3>1, <3>2 DEF In
    <2> QED
      BY <1>1, <2>1, <2>2
  <1>3. ASSUME NEW c, c = Head(q) \/ In(c, Tail(q)) PROVE In(c, q)
    <2>1. CASE c = Head(q)
      <3>1. 1 \in 1 .. Len(q)
        BY <1>1
      <3> QED
        BY <1>1, <2>1, <3>1 DEF In
    <2>2. CASE In(c, Tail(q))
      <3>1. PICK i \in 1 .. Len(Tail(q)) : Tail(q)[i] = c
        BY <2>2 DEF In
      <3>2. i + 1 \in 1 .. Len(q) /\ q[i + 1] = c
        BY <1>1, <3>1
      <3> QED
        BY <3>2 DEF In
    <2> QED
      BY <1>3, <2>1, <2>2
  <1> QED
    BY <1>1, <1>2, <1>3

LEMMA InAppended ==
  ASSUME NEW S, NEW q \in Seq(S), NEW e \in S, NEW c
  PROVE  Append(q, e) \in Seq(S) /\ (In(c, Append(q, e)) <=> In(c, q) \/ c = e)
  <1>1. /\ Len(q) \in Nat /\ Len(Append(q, e)) = Len(q) + 1 /\ Append(q, e) \in Seq(S)
        /\ \A i \in 1 .. Len(q) : Append(q, e)[i] = q[i]
        /\ Append(q, e)[Len(q) + 1] = e
    OBVIOUS
  <1>2. \A i \in 1 .. Len(q) + 1 : i \in 1 .. Len(q) \/ i = Len(q) + 1
    BY <1>1
  <1>3. 1 .. Len(q) \subseteq 1 .. Len(q) + 1 /\ Len(q) + 1 \in 1 .. Len(q) + 1
    BY <1>1
  <1> QED
    BY <1>1, <1>2, <1>3 DEF In

\* What the driver's thread has to do when a value or a status has changed.
LEMMA ReallyChanged ==
  /\ ValueReallyChanged \in Seq(Reports) /\ StatusReallyChanged \in Seq(Reports)
  /\ In(<<"leap">>, ValueReallyChanged)
  /\ \A o \in ObserverSet : In(<<"value", o>>, ValueReallyChanged)
  /\ \A o \in ObserverSet : In(<<"status", o>>, StatusReallyChanged)
  <1>1. "value" \in Kinds /\ "status" \in Kinds
    BY DEF Kinds
  <1>2. <<<<"leap">>>> \in Seq(Reports) /\ In(<<"leap">>, <<<<"leap">>>>)
    <2>1. <<"leap">> \in Reports
      BY DEF Reports
    <2> DEFINE c == <<"leap">>
    <2>2. c \in Reports
      BY <2>1
    <2> HIDE DEF c
    <2>3. <<c>> \in Seq(Reports) /\ Len(<<c>>) = 1 /\ <<c>>[1] = c
      BY <2>2
    <2>4. 1 \in 1 .. Len(<<c>>)
      BY <2>3
    <2> QED
      BY <2>3, <2>4 DEF In, c
  <1>3. Calls("value") \in Seq(Reports) /\ Calls("status") \in Seq(Reports)
    BY <1>1, CallsToAll
  <1>4. /\ \A o \in ObserverSet : In(<<"value", o>>, Calls("value"))
        /\ \A o \in ObserverSet : In(<<"status", o>>, Calls("status"))
    BY <1>1, CallsToAll DEF In
  <1> QED
    BY <1>2, <1>3, <1>4, InLonger DEF ValueReallyChanged, StatusReallyChanged

-----------------------------------------------------------------------------
(* Every step keeps to SourceInv. *)

LEMMA NotBetter ==
  ASSUME SourceInv, NEW d \in Drivers, NEW change, ChangedByDriver(d, change),
         status'["XGPS150"] \in {"Off", "FailedUnsynchronized"}
  PROVE  /\ bestDriver' = "NTP"
         /\ todo' = [todo EXCEPT ![d] = IF d = "NTP" THEN change ELSE <<>>]
  <1>1. bestDriver = "NTP" /\ Drivers \ {bestDriver} = {"XGPS150"}
    BY DEF SourceInv, Drivers
  <1>2. status'["XGPS150"] \notin UsableStatuses
    BY DEF UsableStatuses
  <1>3. Better(timeError', status') = {}
    BY <1>1, <1>2 DEF Better
  <1>4. BestOf(timeError', status') = bestDriver
    BY <1>3 DEF BestOf
  <1> QED
    BY <1>1, <1>4 DEF ChangedByDriver

\* What a new value of the NTP driver changes.
LEMMA ValueSteps ==
  ASSUME SourceInv, NEW skew \in Int, NEW error \in Int, SetContSkew("NTP", skew, error)
  PROVE  /\ SourceInv' /\ bestDriver' = "NTP"
         /\ todo' = [todo EXCEPT !["NTP"] = ValueReallyChanged]
  <1>1. "NTP" \in Drivers /\ "XGPS150" \in Drivers
    BY DEF Drivers
  <1>2. status' = status /\ status["XGPS150"] \in {"Off", "FailedUnsynchronized"}
    BY DEF SetContSkew, SourceInv
  <1>3. ChangedByDriver("NTP", ValueReallyChanged)
    BY DEF SetContSkew
  <1>4. bestDriver' = "NTP" /\ todo' = [todo EXCEPT !["NTP"] = ValueReallyChanged]
    BY <1>1, <1>2, <1>3, NotBetter
  <1>5. todo' \in [Drivers -> Seq(Reports)] /\ todo'["XGPS150"] = <<>>
    BY <1>1, <1>4, ReallyChanged DEF SourceInv
  <1>6. contSkew' \in [Drivers -> Int] /\ timeError' \in [Drivers -> Int]
    BY DEF SetContSkew, SourceInv
  <1>7. UNCHANGED <<now, status, inbox, seen>>
    BY DEF SetContSkew
  <1> QED
    BY <1>4, <1>5, <1>6, <1>7 DEF SourceInv

\* What a new status of a driver changes.
LEMMA StatusSteps ==
  ASSUME SourceInv, NEW d \in Drivers,
         NEW s \in NTPStatuses \cup {"Off", "FailedUnsynchronized"},
         d = "NTP" \/ s = "FailedUnsynchronized", SetStatus(d, s)
  PROVE  /\ SourceInv' /\ bestDriver' = "NTP"
         /\ todo' = [todo EXCEPT ![d] = IF d = "NTP" THEN StatusReallyChanged ELSE <<>>]
  <1>1. "NTP" \in Drivers /\ "XGPS150" \in Drivers
    BY DEF Drivers
  <1>2. status' = [status EXCEPT ![d] = s]
    BY DEF SetStatus
  <1>3. /\ status' \in [Drivers -> NTPStatuses \cup {"Off", "FailedUnsynchronized"}]
        /\ status'["XGPS150"] \in {"Off", "FailedUnsynchronized"}
    BY <1>1, <1>2 DEF SourceInv
  <1>4. ChangedByDriver(d, StatusReallyChanged)
    BY DEF SetStatus
  <1>5. /\ bestDriver' = "NTP"
        /\ todo' = [todo EXCEPT ![d] = IF d = "NTP" THEN StatusReallyChanged ELSE <<>>]
    BY <1>3, <1>4, NotBetter
  <1>6. <<>> \in Seq(Reports) /\ StatusReallyChanged \in Seq(Reports)
    BY ReallyChanged
  <1>7. todo' \in [Drivers -> Seq(Reports)] /\ todo'["XGPS150"] = <<>>
    BY <1>1, <1>5, <1>6 DEF SourceInv
  <1>8. UNCHANGED <<now, contSkew, timeError, inbox, seen>>
    BY DEF SetStatus
  <1> QED
    BY <1>3, <1>5, <1>7, <1>8 DEF SourceInv

\* A driver's thread has work: it is the NTP driver's.
LEMMA Working ==
  ASSUME SourceInv, NEW d \in Drivers, ~AtRest(d)
  PROVE  /\ d = "NTP" /\ todo["NTP"] \in Seq(Reports) /\ todo["NTP"] # <<>>
         /\ Head(todo["NTP"]) \in Reports /\ Tail(todo["NTP"]) \in Seq(Reports)
  <1>1. todo[d] # <<>> /\ todo["XGPS150"] = <<>> /\ d \in {"NTP", "XGPS150"}
    BY DEF AtRest, SourceInv, Drivers
  <1>2. d = "NTP" /\ todo["NTP"] # <<>>
    BY <1>1
  <1>3. todo["NTP"] \in Seq(Reports)
    BY DEF SourceInv, Drivers
  <1> QED
    BY <1>2, <1>3, InRest

LEMMA TodoShrinks ==
  ASSUME SourceInv, NEW d \in Drivers, ~AtRest(d), todo' = [todo EXCEPT ![d] = Tail(@)]
  PROVE  /\ todo' \in [Drivers -> Seq(Reports)] /\ todo'["XGPS150"] = <<>>
         /\ todo'["NTP"] = Tail(todo["NTP"])
  <1>1. d = "NTP" /\ Tail(todo["NTP"]) \in Seq(Reports)
    BY Working
  <1>2. todo' = [todo EXCEPT !["NTP"] = Tail(todo["NTP"])]
    BY <1>1
  <1> QED
    BY <1>1, <1>2 DEF SourceInv, Drivers

LEMMA SetupSteps ==
  ASSUME SourceInv, NEW d \in Drivers, SetupNextLeapSecondData(d)
  PROVE  SourceInv'
  <1>1. ~AtRest(d) /\ todo' = [todo EXCEPT ![d] = Tail(@)]
    BY DEF SetupNextLeapSecondData
  <1>2. todo' \in [Drivers -> Seq(Reports)] /\ todo'["XGPS150"] = <<>>
    BY <1>1, TodoShrinks
  <1>3. UNCHANGED <<now, bestDriver, contSkew, timeError, status, inbox, seen>>
    BY DEF SetupNextLeapSecondData
  <1> QED
    BY <1>2, <1>3 DEF SourceInv

\* What an observer reads is what the NTP driver shows.
LEMMA ReadingIs ==
  ASSUME SourceInv, NEW o \in ObserverSet, NEW kind \in Kinds,
         seen' = [seen EXCEPT ![o] = Reading(o, kind)]
  PROVE  /\ \E S : seen' \in [ObserverSet -> [skew : Int, error : Int, status : S]]
         /\ kind = "value" => /\ seen'[o].skew = contSkew["NTP"]
                              /\ seen'[o].error = timeError["NTP"]
                              /\ seen'[o].status = seen[o].status
         /\ kind = "status" => /\ seen'[o].status = status["NTP"]
                               /\ seen'[o].skew = seen[o].skew
                               /\ seen'[o].error = seen[o].error
         /\ \A p \in ObserverSet \ {o} : seen'[p] = seen[p]
  <1>1. PICK S : seen \in [ObserverSet -> [skew : Int, error : Int, status : S]]
    BY DEF SourceInv
  <1>2. /\ bestDriver = "NTP" /\ contSkew["NTP"] \in Int /\ timeError["NTP"] \in Int
    BY DEF SourceInv, Drivers
  <1> DEFINE T == S \cup {status["NTP"]}
             r == Reading(o, kind)
  <1>3. seen[o] \in [skew : Int, error : Int, status : T]
    BY <1>1
  <1>4. CASE kind = "value"
    <2>1. r = [seen[o] EXCEPT !.skew = contSkew["NTP"], !.error = timeError["NTP"]]
      BY <1>2, <1>4 DEF Reading
    <2>2. /\ r \in [skew : Int, error : Int, status : T]
          /\ r.skew = contSkew["NTP"] /\ r.error = timeError["NTP"] /\ r.status = seen[o].status
      BY <1>2, <1>3, <2>1
    <2> HIDE DEF r
    <2>3. seen' = [seen EXCEPT ![o] = r]
      BY DEF r
    <2>4. seen' \in [ObserverSet -> [skew : Int, error : Int, status : T]]
      BY <1>1, <2>2, <2>3
    <2>5. seen'[o] = r /\ \A p \in ObserverSet \ {o} : seen'[p] = seen[p]
      BY <1>1, <2>3
    <2> QED
      BY <1>4, <2>2, <2>4, <2>5
  <1>5. CASE kind = "status"
    <2>1. r = [seen[o] EXCEPT !.status = status["NTP"]]
      BY <1>2, <1>5 DEF Reading
    <2>2. /\ r \in [skew : Int, error : Int, status : T]
          /\ r.skew = seen[o].skew /\ r.error = seen[o].error /\ r.status = status["NTP"]
      BY <1>2, <1>3, <2>1
    <2> HIDE DEF r
    <2>3. seen' = [seen EXCEPT ![o] = r]
      BY DEF r
    <2>4. seen' \in [ObserverSet -> [skew : Int, error : Int, status : T]]
      BY <1>1, <2>2, <2>3
    <2>5. seen'[o] = r /\ \A p \in ObserverSet \ {o} : seen'[p] = seen[p]
      BY <1>1, <2>3
    <2> QED
      BY <1>5, <2>2, <2>4, <2>5
  <1> QED
    BY <1>4, <1>5 DEF Kinds

\* A call in the driver's thread either reaches the observer or joins its calls.
LEMMA CallSteps ==
  ASSUME SourceInv, NEW d \in Drivers, CallObserver(d)
  PROVE  \E kind \in Kinds, o \in ObserverSet :
           /\ Head(todo["NTP"]) = <<kind, o>> /\ todo'["NTP"] = Tail(todo["NTP"])
           /\ \/ seen' = [seen EXCEPT ![o] = Reading(o, kind)] /\ inbox' = inbox
              \/ seen' = seen /\ inbox' = [inbox EXCEPT ![o] = Append(@, kind)]
           /\ SourceInv'
  <1>1. ~AtRest(d) /\ Head(todo[d]) # <<"leap">> /\ todo' = [todo EXCEPT ![d] = Tail(@)]
    BY DEF CallObserver
  <1>2. d = "NTP" /\ Head(todo["NTP"]) \in Reports
    BY <1>1, Working
  <1>3. PICK kind \in Kinds, o \in ObserverSet :
          /\ Head(todo["NTP"]) = <<kind, o>>
          /\ Head(todo["NTP"])[1] = kind /\ Head(todo["NTP"])[2] = o
    BY <1>1, <1>2, NotLeap
  <1>4. \/ seen' = [seen EXCEPT ![o] = Reading(o, kind)] /\ inbox' = inbox
        \/ seen' = seen /\ inbox' = [inbox EXCEPT ![o] = Append(@, kind)]
    BY <1>2, <1>3 DEF CallObserver
  <1>5. /\ todo' \in [Drivers -> Seq(Reports)] /\ todo'["XGPS150"] = <<>>
        /\ todo'["NTP"] = Tail(todo["NTP"])
    BY <1>1, TodoShrinks
  <1>6. \E S : seen' \in [ObserverSet -> [skew : Int, error : Int, status : S]]
    <2>1. CASE seen' = seen
      BY <2>1 DEF SourceInv
    <2>2. CASE seen' = [seen EXCEPT ![o] = Reading(o, kind)]
      BY <2>2, ReadingIs
    <2> QED
      BY <1>4, <2>1, <2>2
  <1>7. inbox' \in [ObserverSet -> Seq(Kinds)]
    <2>1. inbox \in [ObserverSet -> Seq(Kinds)] /\ inbox[o] \in Seq(Kinds)
      BY DEF SourceInv
    <2>2. Append(inbox[o], kind) \in Seq(Kinds)
      BY <2>1
    <2> QED
      BY <1>4, <2>1, <2>2
  <1>8. UNCHANGED <<now, bestDriver, contSkew, timeError, status>>
    BY DEF CallObserver
  <1>9. SourceInv'
    BY <1>5, <1>6, <1>7, <1>8 DEF SourceInv
  <1> QED
    BY <1>3, <1>4, <1>5, <1>9

LEMMA CalledSteps ==
  ASSUME SourceInv, NEW o \in ObserverSet, ObserverIsCalled(o)
  PROVE  /\ SourceInv' /\ Head(inbox[o]) \in Kinds
         /\ inbox[o] \in Seq(Kinds) /\ inbox[o] # <<>>
         /\ inbox'[o] = Tail(inbox[o]) /\ \A p \in ObserverSet \ {o} : inbox'[p] = inbox[p]
  <1>1. inbox \in [ObserverSet -> Seq(Kinds)] /\ inbox[o] \in Seq(Kinds) /\ inbox[o] # <<>>
    BY DEF SourceInv, ObserverIsCalled
  <1>2. Head(inbox[o]) \in Kinds /\ Tail(inbox[o]) \in Seq(Kinds)
    BY <1>1, InRest
  <1>3. /\ inbox' = [inbox EXCEPT ![o] = Tail(inbox[o])]
        /\ seen' = [seen EXCEPT ![o] = Reading(o, Head(inbox[o]))]
        /\ UNCHANGED <<now, bestDriver, contSkew, timeError, status, todo>>
    BY DEF ObserverIsCalled, reportVars
  <1>4. \E S : seen' \in [ObserverSet -> [skew : Int, error : Int, status : S]]
    BY <1>2, <1>3, ReadingIs
  <1>5. inbox' \in [ObserverSet -> Seq(Kinds)]
    BY <1>1, <1>2, <1>3
  <1>6. SourceInv'
    BY <1>3, <1>4, <1>5 DEF SourceInv
  <1> QED
    BY <1>1, <1>2, <1>3, <1>6

LEMMA InsertedType ==
  ASSUME now \in Int
  PROVE  Inserted \in Nat /\ Inserted <= Last + 1 /\ Second * Inserted \in Nat
  <1>1. Inserted \in 0 .. Last + 1
    BY InsertedIsPassed DEF Passed
  <1> DEFINE n == Inserted
  <1> HIDE DEF n
  <1>2. n \in 0 .. Last + 1
    BY <1>1 DEF n
  <1>3. Second * n \in Nat
    BY <1>2, Constants
  <1> QED
    BY <1>2, <1>3, Constants DEF n

\* A synchronization measures the seconds inserted so far, or already the next one.
LEMMA MeasuredSkewIs ==
  ASSUME now \in Int, NEW skew \in MeasuredSkews
  PROVE  /\ skew \in Int
         /\ \/ skew = - Second * Inserted
            \/ skew = - Second * (Inserted + 1) /\ \E i \in Entries : DuringLeap(i)
  <1> DEFINE n == Inserted
  <1>1. n \in Nat /\ Second \in Int
    BY InsertedType, Constants
  <1>2. \/ skew = - Second * n
        \/ skew = - Second * (n + 1) /\ \E i \in Entries : DuringLeap(i)
    BY DEF MeasuredSkews
  <1> HIDE DEF n
  <1>3. - Second * n \in Int /\ - Second * (n + 1) \in Int
    BY <1>1
  <1> QED
    BY <1>2, <1>3 DEF n

LEMMA SourceInit ==
  Init => SourceInv
  <1> SUFFICES ASSUME Init PROVE SourceInv
    OBVIOUS
  <1>1. PICK error \in {Accurate, Unknown} : timeError = [d \in Drivers |-> error]
    BY DEF Init
  <1>2. /\ timeError \in [Drivers -> Int] /\ timeError["NTP"] \in Int
        /\ contSkew \in [Drivers -> Int]
    BY <1>1, Constants DEF Init, Drivers
  <1>3. bestDriver = "NTP" /\ now \in 0 .. MaxTime
    BY Constants DEF Init
  <1>4. /\ status = [d \in Drivers |-> "Off"] /\ "XGPS150" \in Drivers
        /\ status["XGPS150"] = "Off"
    BY DEF Init, Drivers
  <1>5. todo \in [Drivers -> Seq(Reports)] /\ todo["XGPS150"] = <<>>
    BY DEF Init, Drivers
  <1>6. inbox \in [ObserverSet -> Seq(Kinds)]
    BY DEF Init
  <1>7. seen = [o \in ObserverSet |-> [skew |-> 0, error |-> timeError["NTP"], status |-> "Off"]]
    BY <1>3 DEF Init
  <1>8. seen \in [ObserverSet -> [skew : Int, error : Int, status : {"Off"}]]
    BY <1>2, <1>7
  <1> QED
    BY <1>2, <1>3, <1>4, <1>5, <1>6, <1>8 DEF SourceInv

LEMMA SourceNext ==
  SourceInv /\ [Next]_vars => SourceInv'
  <1> SUFFICES ASSUME SourceInv, [Next]_vars PROVE SourceInv'
    OBVIOUS
  <1>0. now \in Int
    BY Constants DEF SourceInv
  <1>1. CASE Synchronize
    <2>1. PICK skew \in MeasuredSkews : SetContSkew("NTP", skew, Accurate)
      BY <1>1 DEF Synchronize
    <2>2. skew \in Int /\ Accurate \in Int
      BY <1>0, MeasuredSkewIs, Constants
    <2> QED
      BY <2>1, <2>2, ValueSteps
  <1>2. CASE StartSyncing
    <2>1. contSkew["NTP"] \in Int /\ Unknown \in Int
      BY Constants DEF SourceInv, Drivers
    <2> QED
      BY <1>2, <2>1, ValueSteps DEF StartSyncing
  <1>3. CASE NTPStatus
    BY <1>3, StatusSteps DEF NTPStatus, Drivers
  <1>4. CASE XGPSStatus
    BY <1>4, StatusSteps DEF XGPSStatus, Drivers
  <1>5. CASE \E d \in Drivers : SetupNextLeapSecondData(d)
    BY <1>5, SetupSteps
  <1>6. CASE \E d \in Drivers : CallObserver(d)
    BY <1>6, CallSteps
  <1>7. CASE \E o \in ObserverSet : ObserverIsCalled(o)
    BY <1>7, CalledSteps
  <1>8. CASE Tick
    <2>1. now' \in 0 .. MaxTime /\ UNCHANGED <<reportVars, inbox, seen>>
      BY <1>8, Constants DEF Tick, SourceInv
    <2> QED
      BY <2>1 DEF SourceInv, reportVars
  <1>9. CASE Look \/ UNCHANGED vars
    <2>1. UNCHANGED <<now, reportVars, inbox, seen>>
      BY <1>9 DEF Look, vars
    <2> QED
      BY <2>1 DEF SourceInv, reportVars
  <1> QED
    BY <1>1, <1>2, <1>3, <1>4, <1>5, <1>6, <1>7, <1>8, <1>9 DEF Next

\* recheckForBestDriver: the GPS driver, which never synchronizes, is never preferred,
\* whatever errors the two drivers have read from the preferences.
THEOREM NoUnusableSource == Spec => []BestIsUsable
  <1>1. SourceInv => BestIsUsable
    BY DEF SourceInv, BestIsUsable
  <1> QED
    BY <1>1, SourceInit, SourceNext, PTL DEF Spec

-----------------------------------------------------------------------------
(* No change gets lost on its way. *)

ValueSeen(o) == seen[o].skew = contSkew["NTP"] /\ seen[o].error = timeError["NTP"]
StatusSeen(o) == seen[o].status = status["NTP"]

(***************************************************************************)
(* An observer that has not seen the value, or the status, is still to be  *)
(* called about it: the call is with the driver's thread or with its own.  *)
(***************************************************************************)
OnItsWay ==
  \A o \in ObserverSet :
    /\ ValueSeen(o) \/ In(<<"value", o>>, todo["NTP"]) \/ In("value", inbox[o])
    /\ StatusSeen(o) \/ In(<<"status", o>>, todo["NTP"]) \/ In("status", inbox[o])

\* Nothing is in an empty queue.
LEMMA InEmpty ==
  ASSUME NEW c PROVE ~In(c, <<>>)
  BY DEF In

\* A call of one kind is not one of the other, nor one to another observer.
LEMMA SameCall ==
  ASSUME NEW k, NEW l, NEW o, NEW p, <<k, o>> = <<l, p>>
  PROVE  k = l /\ o = p
  OBVIOUS

\* What the driver's thread has left to do, once the leap data are looked up.
LEMMA StillToDo ==
  ASSUME SourceInv, NEW c, In(c, todo["NTP"]), todo'["NTP"] = Tail(todo["NTP"]),
         todo["NTP"] # <<>>
  PROVE  c = Head(todo["NTP"]) \/ In(c, todo'["NTP"])
  <1>1. todo["NTP"] \in Seq(Reports)
    BY DEF SourceInv, Drivers
  <1> QED
    BY <1>1, InRest

LEMMA OnItsWayValue ==
  ASSUME SourceInv, OnItsWay, NEW skew \in Int, NEW error \in Int,
         SetContSkew("NTP", skew, error)
  PROVE  OnItsWay'
  <1>1. AtRest("NTP") /\ UNCHANGED <<status, inbox, seen>>
    BY DEF SetContSkew
  <1>2. todo'["NTP"] = ValueReallyChanged
    BY ValueSteps DEF SourceInv, Drivers
  <1> SUFFICES ASSUME NEW o \in ObserverSet
               PROVE  /\ In(<<"value", o>>, todo'["NTP"])
                      /\ StatusSeen(o)' \/ In("status", inbox[o]')
    BY DEF OnItsWay
  <1>3. In(<<"value", o>>, todo'["NTP"])
    BY <1>2, ReallyChanged
  <1>4. ~In(<<"status", o>>, todo["NTP"])
    BY <1>1, InEmpty DEF AtRest
  <1> QED
    BY <1>1, <1>3, <1>4 DEF OnItsWay, StatusSeen

LEMMA OnItsWayStatus ==
  ASSUME SourceInv, OnItsWay, NEW s \in NTPStatuses, SetStatus("NTP", s)
  PROVE  OnItsWay'
  <1>1. AtRest("NTP") /\ UNCHANGED <<contSkew, timeError, inbox, seen>>
    BY DEF SetStatus
  <1>2. todo'["NTP"] = StatusReallyChanged
    BY StatusSteps DEF SourceInv, Drivers
  <1> SUFFICES ASSUME NEW o \in ObserverSet
               PROVE  /\ ValueSeen(o)' \/ In("value", inbox[o]')
                      /\ In(<<"status", o>>, todo'["NTP"])
    BY DEF OnItsWay
  <1>3. In(<<"status", o>>, todo'["NTP"])
    BY <1>2, ReallyChanged
  <1>4. ~In(<<"value", o>>, todo["NTP"])
    BY <1>1, InEmpty DEF AtRest
  <1> QED
    BY <1>1, <1>3, <1>4 DEF OnItsWay, ValueSeen

\* Nothing changes for the observers.
LEMMA OnItsWaySame ==
  ASSUME SourceInv, OnItsWay, contSkew'["NTP"] = contSkew["NTP"],
         timeError'["NTP"] = timeError["NTP"], status'["NTP"] = status["NTP"],
         todo'["NTP"] = todo["NTP"], UNCHANGED <<inbox, seen>>
  PROVE  OnItsWay'
  BY DEF OnItsWay, ValueSeen, StatusSeen

LEMMA OnItsWayXGPS ==
  ASSUME SourceInv, OnItsWay, XGPSStatus
  PROVE  OnItsWay'
  <1>1. UNCHANGED <<contSkew, timeError, inbox, seen>>
    BY DEF XGPSStatus, SetStatus
  <1>2. status' = [status EXCEPT !["XGPS150"] = "FailedUnsynchronized"]
    BY DEF XGPSStatus, SetStatus
  <1>3. todo' = [todo EXCEPT !["XGPS150"] = <<>>]
    BY StatusSteps DEF XGPSStatus, Drivers
  <1>4. status'["NTP"] = status["NTP"] /\ todo'["NTP"] = todo["NTP"]
    BY <1>2, <1>3 DEF SourceInv, Drivers
  <1> QED
    BY <1>1, <1>4, OnItsWaySame

LEMMA OnItsWaySetup ==
  ASSUME SourceInv, OnItsWay, NEW d \in Drivers, SetupNextLeapSecondData(d)
  PROVE  OnItsWay'
  <1>1. ~AtRest(d) /\ Head(todo[d]) = <<"leap">> /\ todo' = [todo EXCEPT ![d] = Tail(@)]
    BY DEF SetupNextLeapSecondData
  <1>2. d = "NTP" /\ todo["NTP"] # <<>> /\ todo'["NTP"] = Tail(todo["NTP"])
    BY <1>1, Working, TodoShrinks
  <1>3. UNCHANGED <<contSkew, timeError, status, inbox, seen>>
    BY DEF SetupNextLeapSecondData
  <1>4. \A o \in ObserverSet : <<"value", o>> # <<"leap">> /\ <<"status", o>> # <<"leap">>
    BY ReportKinds DEF Kinds
  <1>5. ASSUME NEW o \in ObserverSet
        PROVE  /\ In(<<"value", o>>, todo["NTP"]) => In(<<"value", o>>, todo'["NTP"])
               /\ In(<<"status", o>>, todo["NTP"]) => In(<<"status", o>>, todo'["NTP"])
    BY <1>1, <1>2, <1>4, StillToDo
  <1> QED
    BY <1>3, <1>5 DEF OnItsWay, ValueSeen, StatusSeen

\* An observer that is called about the value, or the status, sees it.
LEMMA OnItsWayReading ==
  ASSUME SourceInv, NEW o \in ObserverSet, NEW kind \in Kinds,
         seen' = [seen EXCEPT ![o] = Reading(o, kind)],
         UNCHANGED <<contSkew, timeError, status>>
  PROVE  /\ kind = "value" => ValueSeen(o)' /\ (StatusSeen(o) => StatusSeen(o)')
         /\ kind = "status" => StatusSeen(o)' /\ (ValueSeen(o) => ValueSeen(o)')
         /\ \A p \in ObserverSet \ {o} : /\ ValueSeen(p) => ValueSeen(p)'
                                         /\ StatusSeen(p) => StatusSeen(p)'
  BY ReadingIs DEF ValueSeen, StatusSeen

LEMMA OnItsWayCall ==
  ASSUME SourceInv, OnItsWay, NEW d \in Drivers, CallObserver(d)
  PROVE  OnItsWay'
  <1>1. PICK kind \in Kinds, o \in ObserverSet :
           /\ Head(todo["NTP"]) = <<kind, o>> /\ todo'["NTP"] = Tail(todo["NTP"])
           /\ \/ seen' = [seen EXCEPT ![o] = Reading(o, kind)] /\ inbox' = inbox
              \/ seen' = seen /\ inbox' = [inbox EXCEPT ![o] = Append(@, kind)]
    BY CallSteps
  <1>2. todo["NTP"] # <<>>
    BY Working DEF CallObserver
  <1>3. UNCHANGED <<contSkew, timeError, status>>
    BY DEF CallObserver
  <1>4. inbox \in [ObserverSet -> Seq(Kinds)] /\ inbox[o] \in Seq(Kinds)
    BY DEF SourceInv
  <1>5. ASSUME NEW p \in ObserverSet, NEW k \in Kinds, In(<<k, p>>, todo["NTP"])
        PROVE  (k = kind /\ p = o) \/ In(<<k, p>>, todo'["NTP"])
    <2>1. <<k, p>> = <<kind, o>> \/ In(<<k, p>>, todo'["NTP"])
      BY <1>1, <1>2, <1>5, StillToDo
    <2> QED
      BY <2>1
  <1>6. CASE seen' = [seen EXCEPT ![o] = Reading(o, kind)] /\ inbox' = inbox
    <2> SUFFICES ASSUME NEW p \in ObserverSet
                 PROVE  /\ ValueSeen(p)' \/ In(<<"value", p>>, todo'["NTP"]) \/ In("value", inbox'[p])
                        /\ StatusSeen(p)' \/ In(<<"status", p>>, todo'["NTP"]) \/ In("status", inbox'[p])
      BY DEF OnItsWay
    <2>1. /\ kind = "value" => ValueSeen(o)' /\ (StatusSeen(o) => StatusSeen(o)')
          /\ kind = "status" => StatusSeen(o)' /\ (ValueSeen(o) => ValueSeen(o)')
          /\ p # o => (ValueSeen(p) => ValueSeen(p)') /\ (StatusSeen(p) => StatusSeen(p)')
      BY <1>3, <1>6, OnItsWayReading
    <2>2. kind = "value" \/ kind = "status"
      BY DEF Kinds
    <2>3. ValueSeen(p)' \/ In(<<"value", p>>, todo'["NTP"]) \/ In("value", inbox'[p])
      <3>1. ValueSeen(p) \/ In(<<"value", p>>, todo["NTP"]) \/ In("value", inbox[p])
        BY DEF OnItsWay
      <3>2. ValueSeen(p) => ValueSeen(p)'
        BY <2>1, <2>2
      <3>3. In(<<"value", p>>, todo["NTP"]) =>
              (kind = "value" /\ p = o) \/ In(<<"value", p>>, todo'["NTP"])
        BY <1>5 DEF Kinds
      <3> QED
        BY <1>6, <2>1, <3>1, <3>2, <3>3
    <2>4. StatusSeen(p)' \/ In(<<"status", p>>, todo'["NTP"]) \/ In("status", inbox'[p])
      <3>1. StatusSeen(p) \/ In(<<"status", p>>, todo["NTP"]) \/ In("status", inbox[p])
        BY DEF OnItsWay
      <3>2. StatusSeen(p) => StatusSeen(p)'
        BY <2>1, <2>2
      <3>3. In(<<"status", p>>, todo["NTP"]) =>
              (kind = "status" /\ p = o) \/ In(<<"status", p>>, todo'["NTP"])
        BY <1>5 DEF Kinds
      <3> QED
        BY <1>6, <2>1, <3>1, <3>2, <3>3
    <2> QED
      BY <2>3, <2>4
  <1>7. CASE seen' = seen /\ inbox' = [inbox EXCEPT ![o] = Append(@, kind)]
    <2>1. inbox'[o] = Append(inbox[o], kind) /\ \A p \in ObserverSet \ {o} : inbox'[p] = inbox[p]
      BY <1>4, <1>7
    <2>2. \A k : In(k, inbox[o]) \/ k = kind => In(k, inbox'[o])
      BY <1>4, <2>1, InAppended
    <2>3. ASSUME NEW p \in ObserverSet, NEW k \in Kinds,
                 In(<<k, p>>, todo["NTP"]) \/ In(k, inbox[p])
          PROVE  In(<<k, p>>, todo'["NTP"]) \/ In(k, inbox'[p])
      BY <1>5, <2>1, <2>2, <2>3
    <2> QED
      BY <1>3, <1>7, <2>3 DEF OnItsWay, ValueSeen, StatusSeen, Kinds
  <1> QED
    BY <1>1, <1>6, <1>7

LEMMA OnItsWayCalled ==
  ASSUME SourceInv, OnItsWay, NEW o \in ObserverSet, ObserverIsCalled(o)
  PROVE  OnItsWay'
  <1> DEFINE kind == Head(inbox[o])
  <1>1. /\ kind \in Kinds /\ inbox[o] \in Seq(Kinds) /\ inbox[o] # <<>>
        /\ inbox'[o] = Tail(inbox[o]) /\ \A p \in ObserverSet \ {o} : inbox'[p] = inbox[p]
    BY CalledSteps
  <1>2. /\ UNCHANGED <<contSkew, timeError, status, todo>>
        /\ seen' = [seen EXCEPT ![o] = Reading(o, kind)]
    BY DEF ObserverIsCalled, reportVars
  <1>3. \A k : In(k, inbox[o]) => k = kind \/ In(k, inbox'[o])
    BY <1>1, InRest
  <1>4. kind = "value" \/ kind = "status"
    BY <1>1 DEF Kinds
  <1> HIDE DEF kind
  <1>5. /\ kind = "value" => ValueSeen(o)' /\ (StatusSeen(o) => StatusSeen(o)')
        /\ kind = "status" => StatusSeen(o)' /\ (ValueSeen(o) => ValueSeen(o)')
        /\ \A p \in ObserverSet \ {o} : /\ ValueSeen(p) => ValueSeen(p)'
                                        /\ StatusSeen(p) => StatusSeen(p)'
    BY <1>1, <1>2, OnItsWayReading
  <1> SUFFICES ASSUME NEW p \in ObserverSet
               PROVE  /\ ValueSeen(p)' \/ In(<<"value", p>>, todo'["NTP"]) \/ In("value", inbox'[p])
                      /\ StatusSeen(p)' \/ In(<<"status", p>>, todo'["NTP"]) \/ In("status", inbox'[p])
    BY DEF OnItsWay
  <1>6. /\ ValueSeen(p) \/ In(<<"value", p>>, todo'["NTP"]) \/ In("value", inbox[p])
        /\ StatusSeen(p) \/ In(<<"status", p>>, todo'["NTP"]) \/ In("status", inbox[p])
    BY <1>2 DEF OnItsWay
  <1>7. CASE p = o
    BY <1>3, <1>4, <1>5, <1>6, <1>7
  <1>8. CASE p # o
    BY <1>1, <1>5, <1>6, <1>8
  <1> QED
    BY <1>7, <1>8

LEMMA OnItsWayInit ==
  Init => OnItsWay
  <1> SUFFICES ASSUME Init, NEW o \in ObserverSet PROVE ValueSeen(o) /\ StatusSeen(o)
    BY DEF OnItsWay
  <1>1. bestDriver = "NTP" /\ "NTP" \in Drivers
    BY DEF Init, Drivers
  <1>2. /\ contSkew = [d \in Drivers |-> 0] /\ status = [d \in Drivers |-> "Off"]
        /\ seen = [p \in ObserverSet |-> [skew |-> 0, error |-> timeError["NTP"], status |-> "Off"]]
    BY <1>1 DEF Init
  <1> QED
    BY <1>1, <1>2 DEF ValueSeen, StatusSeen

LEMMA OnItsWayNext ==
  SourceInv /\ OnItsWay /\ [Next]_vars => OnItsWay'
  <1> SUFFICES ASSUME SourceInv, OnItsWay, [Next]_vars PROVE OnItsWay'
    OBVIOUS
  <1>0. now \in Int
    BY Constants DEF SourceInv
  <1>1. CASE Synchronize
    <2>1. PICK skew \in MeasuredSkews : SetContSkew("NTP", skew, Accurate)
      BY <1>1 DEF Synchronize
    <2>2. skew \in Int /\ Accurate \in Int
      BY <1>0, MeasuredSkewIs, Constants
    <2> QED
      BY <2>1, <2>2, OnItsWayValue
  <1>2. CASE StartSyncing
    <2>1. contSkew["NTP"] \in Int /\ Unknown \in Int
      BY Constants DEF SourceInv, Drivers
    <2> QED
      BY <1>2, <2>1, OnItsWayValue DEF StartSyncing
  <1>3. CASE NTPStatus
    BY <1>3, OnItsWayStatus DEF NTPStatus
  <1>4. CASE XGPSStatus
    BY <1>4, OnItsWayXGPS
  <1>5. CASE \E d \in Drivers : SetupNextLeapSecondData(d)
    BY <1>5, OnItsWaySetup
  <1>6. CASE \E d \in Drivers : CallObserver(d)
    BY <1>6, OnItsWayCall
  <1>7. CASE \E o \in ObserverSet : ObserverIsCalled(o)
    BY <1>7, OnItsWayCalled
  <1>8. CASE Tick \/ Look \/ UNCHANGED vars
    <2>1. UNCHANGED <<contSkew, timeError, status, todo, inbox, seen>>
      BY <1>8 DEF Tick, Look, vars, reportVars
    <2> QED
      BY <2>1, OnItsWaySame
  <1> QED
    BY <1>1, <1>2, <1>3, <1>4, <1>5, <1>6, <1>7, <1>8 DEF Next

\* syncValueReallyChanged, syncStatusReallyChanged and the calls from thread to thread:
\* once every call is made, each observer has seen what ESTime shows, for any number of
\* observers, with or without threads of their own.
THEOREM NoChangeIsLost == Spec => []ObserversCatchUp
  <1>1. SourceInv /\ OnItsWay => ObserversCatchUp
    <2> SUFFICES ASSUME SourceInv, OnItsWay, \A d \in Drivers : AtRest(d),
                        NEW o \in ObserverSet, inbox[o] = <<>>
                 PROVE  seen[o] = [skew |-> contSkew[bestDriver], error |-> timeError[bestDriver],
                                   status |-> status[bestDriver]]
      BY DEF ObserversCatchUp
    <2>1. todo["NTP"] = <<>> /\ bestDriver = "NTP"
      BY DEF AtRest, Drivers, SourceInv
    <2>2. ValueSeen(o) /\ StatusSeen(o)
      BY <2>1, InEmpty DEF OnItsWay
    <2>3. PICK S : seen[o] \in [skew : Int, error : Int, status : S]
      BY DEF SourceInv
    <2> QED
      BY <2>1, <2>2, <2>3 DEF ValueSeen, StatusSeen
  <1> QED
    BY <1>1, SourceInit, SourceNext, OnItsWayInit, OnItsWayNext, PTL DEF Spec

-----------------------------------------------------------------------------
(* What ESTime vouches for is UTC. *)

LEMMA TimesSecond ==
  ASSUME NEW k \in 0 .. Last + 1
  PROVE  /\ Second * k \in Nat /\ k * Second = Second * k
         /\ Second * (k + 1) = Second * k + Second /\ Second * (k + 1) \in Nat
         /\ - Second * k = - (Second * k)
  <1>1. Second \in Nat /\ k \in Nat
    BY Constants
  <1>2. Second * k \in Nat /\ k * Second = Second * k
    BY <1>1
  <1>3. (k + 1) * Second = k * Second + Second /\ Second * (k + 1) = (k + 1) * Second
    BY <1>1
  <1>4. - Second * k = - (Second * k)
    OBVIOUS
  <1>5. Second * (k + 1) = Second * k + Second
    BY <1>2, <1>3
  <1>6. Second * (k + 1) \in Nat
    BY <1>1, <1>2, <1>5
  <1> QED
    BY <1>2, <1>4, <1>5, <1>6

\* The seconds that have been inserted, from where the clock stands in the table.
LEMMA InsertedIs ==
  ASSUME now \in Int, NEW k \in 0 .. Last + 1,
         \A i \in Entries : i < k => LeapEnd(i) < now,
         \A i \in Entries : k <= i => now <= LeapEnd(i)
  PROVE  Inserted = k
  <1>1. \A i \in Entries : LeapEnd(i) < now <=> i < k
    <2> SUFFICES ASSUME NEW i \in Entries PROVE LeapEnd(i) < now <=> i < k
      OBVIOUS
    <2>1. LeapEnd(i) \in Int /\ i \in Int /\ Last \in Nat
      BY LeapTimes, Constants
    <2> QED
      BY <2>1
  <1> QED
    BY <1>1, PassedIsInserted DEF Passed

\* With k seconds inserted for good, UTC has passed the first k leap seconds.
LEMMA PastUTC ==
  ASSUME now \in Int, NEW k \in 0 .. Last + 1, NEW extra \in Nat,
         \A i \in Entries : i < k => LeapEnd(i) + extra < now
  PROVE  \A i \in Entries : i < k => Begins[i] + extra < now - Second * k
  <1> SUFFICES ASSUME NEW i \in Entries, i < k
               PROVE  Begins[i] + extra < now - Second * k
    OBVIOUS
  <1>1. /\ k - 1 \in Entries /\ i \in Int /\ k \in Int /\ i <= k - 1 /\ (k - 1) + 1 = k
        /\ k - 1 < k
    BY Constants DEF Entries
  <1>2. LeapEnd(k - 1) = Begins[k - 1] + k * Second /\ k * Second \in Int
    BY <1>1, LeapTimes
  <1>3. Second * k = k * Second
    BY TimesSecond
  <1>4. LeapEnd(k - 1) + extra < now
    BY <1>1
  <1>5. Begins[i] <= Begins[k - 1] /\ Begins[i] \in Int /\ Begins[k - 1] \in Int
    <2>1. i = k - 1 \/ i < k - 1
      BY <1>1
    <2> QED
      BY <1>1, <2>1, Constants, TableAssumption
  <1> QED
    BY <1>2, <1>3, <1>4, <1>5

\* Before the leap second of entry k, UTC has not passed it.
LEMMA FutureUTC ==
  ASSUME now \in Int, NEW k \in 0 .. Last + 1,
         \A i \in Entries : k <= i => now < LeapStart(i)
  PROVE  \A i \in Entries : k <= i => now - Second * k < Begins[i]
  <1> SUFFICES ASSUME NEW i \in Entries, k <= i
               PROVE  now - Second * k < Begins[i]
    OBVIOUS
  <1>1. k \in Entries /\ i \in Int /\ k \in Int
    BY Constants DEF Entries
  <1>2. LeapStart(k) = Begins[k] + k * Second /\ k * Second \in Int /\ now < LeapStart(k)
    BY <1>1, LeapTimes
  <1>3. Second * k = k * Second
    BY TimesSecond
  <1>4. Begins[k] <= Begins[i] /\ Begins[i] \in Int /\ Begins[k] \in Int
    <2>1. i = k \/ k < i
      BY <1>1
    <2> QED
      BY <1>1, <2>1, Constants, TableAssumption
  <1> QED
    BY <1>2, <1>3, <1>4

(***************************************************************************)
(* ESTime knows that k seconds have been inserted, and which leap second   *)
(* is the next: its data were looked up well after the one before.         *)
(***************************************************************************)
Knows(k) ==
  /\ contSkew["NTP"] = - (Second * k)
  /\ nextLeapDate = DateOf(k)
  /\ nextLeapDelta = IF k <= Last THEN Second ELSE 0
  /\ \A i \in Entries : i < k => LeapEnd(i) + Second < now

\* Until the known leap second: UTC is read off, as far as the digits go on in the
\* last moment before.
LEMMA BeforeLeap ==
  ASSUME SourceInv, NEW k \in Entries, Knows(k), now < LeapStart(k)
  PROVE  /\ Inserted = k /\ ~\E i \in Entries : DuringLeap(i)
         /\ CumulativeLeapSecondsForUTC(LiveTime.utc) = k
         /\ LiveTime.utc = now - Second * k /\ CurrentTime = now - Second * k
         /\ Digits(LiveTime.correction) \in 0 .. Hold
  <1>1. k \in 0 .. Last + 1 /\ now \in Int /\ bestDriver = "NTP"
    BY Constants DEF Entries, SourceInv
  <1>2. ASSUME NEW i \in Entries, k <= i PROVE now < LeapStart(i) /\ now <= LeapEnd(i)
    <2>1. /\ i \in Int /\ k \in Int /\ LeapStart(i) \in Int /\ LeapEnd(i) = LeapStart(i) + Second
          /\ LeapStart(k) \in Int /\ LeapEnd(k) = LeapStart(k) + Second /\ Second \in Nat
      BY LeapTimes, Constants
    <2>2. i = k \/ LeapEnd(k) < LeapStart(i)
      BY <1>2, <2>1, LeapOrder
    <2> QED
      BY <1>1, <2>1, <2>2
  <1>3. ASSUME NEW i \in Entries, i < k PROVE LeapEnd(i) < now /\ LeapEnd(i) + Second < now
    BY <1>1, <1>3, LeapTimes, Constants DEF Knows
  <1>4. Inserted = k
    BY <1>1, <1>2, <1>3, InsertedIs
  <1>5. ~\E i \in Entries : DuringLeap(i)
    <2> SUFFICES ASSUME NEW i \in Entries, DuringLeap(i) PROVE FALSE
      OBVIOUS
    <2>1. LeapStart(i) <= now /\ now <= LeapEnd(i) /\ LeapStart(i) \in Int /\ LeapEnd(i) \in Int
      BY LeapTimes DEF DuringLeap
    <2>2. i \in Int /\ k \in Int
      BY Constants
    <2> QED
      BY <1>1, <1>2, <1>3, <2>1, <2>2
  <1> DEFINE raw == now - Second * k
  <1>6. /\ Raw = raw /\ raw \in Int /\ nextLeapDate = Begins[k] /\ nextLeapDelta = Second
        /\ Begins[k] \in Int
    <2>1. k <= Last /\ k \in Int
      BY Constants DEF Entries
    <2> QED
      BY <1>1, <2>1, TimesSecond, Constants DEF Knows, Raw, DateOf
  <1>7. \A i \in Entries : i < k => Begins[i] + Second < raw
    BY <1>1, <1>3, PastUTC, Constants
  <1>8. \A i \in Entries : k <= i => raw < Begins[i]
    BY <1>1, <1>2, FutureUTC
  <1> HIDE DEF raw
  <1>9. CumulativeLeapSecondsForUTC(raw) = k
    <2>1. \A i \in Entries : i < k => Begins[i] < raw
      BY <1>6, <1>7, Constants
    <2>2. \A i \in Entries : k <= i => raw <= Begins[i]
      BY <1>6, <1>8, Constants
    <2> QED
      BY <1>1, <1>6, <2>1, <2>2, CumulativeIs
  <1>10. raw < Begins[k] /\ k \in Int
    BY <1>8, Constants
  <1>11. CurrentTime = raw
    BY <1>6, <1>10, Constants DEF CurrentTime, AdjustForLeapSecond
  <1>12. LiveTime.utc = raw /\ Digits(LiveTime.correction) \in 0 .. Hold
    <2>1. /\ Raw - nextLeapDate = raw - Begins[k] /\ raw - Begins[k] < 0
          /\ Second \in Nat \ {0} /\ Hold \in Nat \ {0}
      BY <1>6, <1>10, Constants
    <2>2. CASE raw - Begins[k] < -Second
      <3>1. LiveTime = [utc |-> raw, correction |-> 0]
        BY <1>6, <2>1, <2>2 DEF LiveTime
      <3> QED
        BY <2>1, <3>1 DEF Digits
    <2>3. CASE ~(raw - Begins[k] < -Second)
      <3>1. LiveTime = [utc |-> raw, correction |-> raw - Begins[k] + Hold + Second]
        BY <1>6, <2>1, <2>3 DEF LiveTime
      <3>2. LiveTime.utc = raw /\ LiveTime.correction = raw - Begins[k] + Hold + Second
        BY <3>1
      <3> DEFINE c == raw - Begins[k] + Hold + Second
      <3>3. c \in Int /\ c < Hold + Second
        BY <1>6, <2>1
      <3>4. Digits(c) = IF c > Second THEN c - Second ELSE 0
        BY DEF Digits
      <3>5. Digits(LiveTime.correction) = Digits(c)
        BY <3>2
      <3> HIDE DEF c
      <3>6. Digits(c) \in 0 .. Hold
        BY <2>1, <3>3, <3>4
      <3> QED
        BY <3>2, <3>5, <3>6
    <2> QED
      BY <2>2, <2>3
  <1> QED
    BY <1>4, <1>5, <1>9, <1>11, <1>12 DEF raw

\* The leap second after the known one has not begun.
LEMMA NextNotBegun ==
  ASSUME SourceInv, NEW k \in Entries, Knows(k), ~Outdated
  PROVE  \A i \in Entries : k < i => now < LeapStart(i) /\ now < LeapEnd(i)
  <1> SUFFICES ASSUME NEW i \in Entries, k < i PROVE now < LeapStart(i) /\ now < LeapEnd(i)
    OBVIOUS
  <1>1. /\ LeapStart(i) \in Int /\ LeapEnd(i) = LeapStart(i) + Second
        /\ now \in Int /\ Second \in Nat
    <2>1. LeapStart(i) \in Int /\ LeapEnd(i) = LeapStart(i) + Second
      BY LeapTimes
    <2> QED
      BY <2>1, Constants DEF SourceInv
  <1>2. nextLeapDate < Begins[i]
    <2>1. k <= Last
      BY Constants DEF Entries
    <2>2. nextLeapDate = Begins[k]
      BY <2>1 DEF Knows, DateOf
    <2> QED
      BY <2>2, TableAssumption
  <1>3. ~(LeapStart(i) <= now)
    BY <1>2 DEF Outdated
  <1> QED
    BY <1>1, <1>3

\* The raw time, when one of the table is the next leap second.
LEMMA RawIs ==
  ASSUME SourceInv, NEW k \in Entries, Knows(k)
  PROVE  /\ Raw = now - Second * k /\ Raw \in Int
         /\ nextLeapDate = Begins[k] /\ nextLeapDelta = Second /\ Begins[k] \in Int
         /\ LeapStart(k) = Begins[k] + Second * k /\ LeapStart(k) \in Int
         /\ LeapEnd(k) = LeapStart(k) + Second
         /\ k \in 0 .. Last + 1 /\ k \in Int /\ now \in Int /\ Second * k \in Int
  <1>1. k \in 0 .. Last + 1 /\ k \in Int /\ k <= Last /\ now \in Int /\ bestDriver = "NTP"
    BY Constants DEF Entries, SourceInv
  <1>2. Second * k \in Int /\ k * Second = Second * k
    BY <1>1, TimesSecond
  <1>3. Begins[k] \in Int
    BY Constants
  <1>4. LeapStart(k) = Begins[k] + Second * k /\ LeapEnd(k) = LeapStart(k) + Second
    BY <1>2, LeapTimes
  <1>5. nextLeapDate = Begins[k] /\ nextLeapDelta = Second
    BY <1>1 DEF Knows, DateOf
  <1>6. Raw = now - Second * k
    BY <1>1, <1>2 DEF Knows, Raw
  <1> QED
    BY <1>1, <1>2, <1>3, <1>4, <1>5, <1>6

\* During the known leap second: the time is held, the digits go on.
LEMMA DuringKnownLeap ==
  ASSUME SourceInv, NEW k \in Entries, Knows(k), ~Outdated, DuringLeap(k)
  PROVE  /\ Inserted = k /\ CurrentTime = Begins[k] - Hold
         /\ CumulativeLeapSecondsForUTC(LiveTime.utc) = k
         /\ LiveTime.utc + Digits(LiveTime.correction) - (now - Second * k) \in 0 .. Hold
         /\ LiveTime.utc \in Int /\ Digits(LiveTime.correction) \in Int
  <1> DEFINE raw == now - Second * k
  <1>1. /\ Raw = raw /\ raw \in Int /\ nextLeapDate = Begins[k] /\ nextLeapDelta = Second
        /\ Begins[k] \in Int /\ k \in 0 .. Last + 1 /\ k \in Int /\ now \in Int
    BY RawIs
  <1>2. /\ raw - Begins[k] \in 0 .. Second /\ LeapStart(k) <= now /\ now <= LeapEnd(k)
    BY RawIs, Constants DEF DuringLeap
  <1>3. Inserted = k
    <2>1. ASSUME NEW i \in Entries, i < k PROVE LeapEnd(i) < now
      BY <1>1, <2>1, LeapTimes, Constants DEF Knows
    <2>2. ASSUME NEW i \in Entries, k <= i PROVE now <= LeapEnd(i)
      <3>1. i = k \/ k < i
        BY <1>1, <2>2, Constants
      <3>2. LeapEnd(i) \in Int
        BY LeapTimes
      <3> QED
        BY <1>1, <1>2, <3>1, <3>2, NextNotBegun
    <2> QED
      BY <1>1, <2>1, <2>2, InsertedIs
  <1> HIDE DEF raw
  <1>4. CurrentTime = Begins[k] - Hold
    BY <1>1, <1>2, Constants DEF CurrentTime, AdjustForLeapSecond
  <1> DEFINE tss == raw - Begins[k]
             shown == IF tss > 0 THEN Begins[k] - Hold ELSE raw
             c == tss + Hold + Second
  <1>5. LiveTime.utc = shown /\ LiveTime.correction = c
    <2>1. LiveTime = [utc |-> shown, correction |-> c]
      BY <1>1, <1>2, Constants DEF LiveTime
    <2> QED
      BY <2>1
  <1>6. shown \in Int /\ c \in Int /\ c > Second
    BY <1>1, <1>2, Constants
  <1>7. Digits(c) = tss + Hold
    <2>1. Digits(c) = c - Second
      BY <1>6 DEF Digits
    <2> QED
      BY <1>1, <1>2, <2>1, Constants
  <1>8. shown + Digits(c) - raw \in 0 .. Hold /\ Digits(c) \in Int
    <2> HIDE DEF c
    <2> QED
      BY <1>1, <1>2, <1>7, Constants
  <1>9. CumulativeLeapSecondsForUTC(shown) = k
    <2>1. ASSUME NEW i \in Entries, i < k PROVE Begins[i] < shown
      <3>1. Begins[i] + Hold < Begins[k] /\ Begins[i] \in Int
        BY <2>1, SpacingAssumption, Constants
      <3> QED
        BY <1>1, <1>2, <3>1, Constants
    <2>2. ASSUME NEW i \in Entries, k <= i PROVE shown <= Begins[i]
      <3>1. i = k \/ k < i
        BY <1>1, <2>2, Constants
      <3>2. Begins[k] <= Begins[i] /\ Begins[i] \in Int
        BY <1>1, <3>1, TableAssumption, Constants
      <3> QED
        BY <1>1, <1>2, <3>2, Constants
    <2> HIDE DEF shown
    <2> QED
      BY <1>1, <1>6, <2>1, <2>2, CumulativeIs
  <1> HIDE DEF shown, c
  <1> QED
    BY <1>3, <1>4, <1>5, <1>6, <1>8, <1>9 DEF raw

\* After the known leap second: the second is taken off.
LEMMA AfterLeap ==
  ASSUME SourceInv, NEW k \in Entries, Knows(k), ~Outdated, LeapEnd(k) < now
  PROVE  /\ Inserted = k + 1 /\ ~\E i \in Entries : DuringLeap(i)
         /\ CumulativeLeapSecondsForUTC(LiveTime.utc) = k + 1
         /\ LiveTime.utc = now - Second * (k + 1) /\ CurrentTime = now - Second * (k + 1)
         /\ LiveTime.correction = 0
  <1> DEFINE raw == now - Second * k
             utc == now - Second * (k + 1)
  <1>1. /\ Raw = raw /\ raw \in Int /\ nextLeapDate = Begins[k] /\ nextLeapDelta = Second
        /\ Begins[k] \in Int /\ k \in 0 .. Last + 1 /\ k \in Int /\ now \in Int
        /\ raw - Begins[k] > Second
    BY RawIs, Constants
  <1>2. utc \in Int /\ utc = raw - Second
    BY <1>1, TimesSecond, Constants
  <1>3. k + 1 \in 0 .. Last + 1
    BY Constants DEF Entries
  <1>4. ASSUME NEW i \in Entries, i < k + 1 PROVE LeapEnd(i) < now
    <2>1. i = k \/ i < k
      BY <1>1, <1>4, Constants
    <2> QED
      BY <1>1, <2>1, LeapTimes, Constants DEF Knows
  <1>5. ASSUME NEW i \in Entries, k + 1 <= i PROVE now < LeapStart(i) /\ now <= LeapEnd(i)
    <2>1. k < i /\ LeapEnd(i) \in Int
      BY <1>1, <1>5, LeapTimes, Constants
    <2> QED
      BY <1>1, <2>1, NextNotBegun
  <1>6. Inserted = k + 1
    BY <1>1, <1>3, <1>4, <1>5, InsertedIs
  <1>7. ~\E i \in Entries : DuringLeap(i)
    <2> SUFFICES ASSUME NEW i \in Entries, DuringLeap(i) PROVE FALSE
      OBVIOUS
    <2>1. LeapStart(i) <= now /\ now <= LeapEnd(i) /\ LeapStart(i) \in Int /\ LeapEnd(i) \in Int
      BY LeapTimes DEF DuringLeap
    <2>2. i \in Int
      BY Constants
    <2> QED
      BY <1>1, <1>4, <1>5, <2>1, <2>2
  <1>8. \A i \in Entries : i < k + 1 => Begins[i] < utc
    <2>1. \A i \in Entries : i < k + 1 => LeapEnd(i) + 0 < now
      BY <1>1, <1>4, LeapTimes
    <2>2. \A i \in Entries : i < k + 1 => Begins[i] + 0 < utc
      BY <1>1, <1>3, <2>1, PastUTC
    <2> QED
      BY <2>2, Constants
  <1>9. \A i \in Entries : k + 1 <= i => utc < Begins[i]
    BY <1>1, <1>3, <1>5, FutureUTC
  <1> HIDE DEF utc, raw
  <1>10. CumulativeLeapSecondsForUTC(utc) = k + 1
    <2>1. \A i \in Entries : k + 1 <= i => utc <= Begins[i]
      BY <1>2, <1>9, Constants
    <2> QED
      BY <1>2, <1>3, <1>8, <2>1, CumulativeIs
  <1>11. CurrentTime = utc
    BY <1>1, <1>2, Constants DEF CurrentTime, AdjustForLeapSecond
  <1>12. LiveTime.utc = utc /\ LiveTime.correction = 0
    <2>1. LiveTime = [utc |-> raw - Second, correction |-> 0]
      BY <1>1, <1>2, Constants DEF LiveTime
    <2> QED
      BY <1>2, <2>1
  <1> QED
    BY <1>6, <1>7, <1>10, <1>11, <1>12 DEF utc

\* After the last leap second of the table there is nothing to adjust.
LEMMA AfterLast ==
  ASSUME SourceInv, Knows(Last + 1)
  PROVE  /\ Inserted = Last + 1 /\ ~\E i \in Entries : DuringLeap(i)
         /\ CumulativeLeapSecondsForUTC(LiveTime.utc) = Last + 1
         /\ LiveTime.utc = now - Second * (Last + 1) /\ CurrentTime = now - Second * (Last + 1)
         /\ LiveTime.correction = 0
  <1> DEFINE k == Last + 1
             raw == now - Second * k
  <1>1. /\ k \in 0 .. Last + 1 /\ now \in 0 .. MaxTime /\ now \in Int /\ bestDriver = "NTP"
        /\ ~(k <= Last) /\ k \in Int
    BY Constants DEF SourceInv
  <1>2. Second * k \in Nat
    BY <1>1, TimesSecond
  <1>3. \A i \in Entries : i < k /\ i \in Int
    BY Constants DEF Entries
  <1>4. /\ nextLeapDate = Never /\ nextLeapDelta = 0
        /\ contSkew["NTP"] = - (Second * k)
        /\ \A i \in Entries : LeapEnd(i) + Second < now
    BY <1>1, <1>3 DEF Knows, DateOf
  <1> HIDE DEF k
  <1>5. Raw = raw /\ raw \in Int /\ raw < Never - Second
    BY <1>1, <1>2, <1>4, Constants DEF Raw
  <1>6. \A i \in Entries : LeapEnd(i) < now
    BY <1>1, <1>4, LeapTimes, Constants
  <1>7. \A i \in Entries : ~(k <= i)
    BY <1>1, <1>3
  <1>8. Inserted = k
    BY <1>1, <1>6, <1>7, InsertedIs
  <1>9. ~\E i \in Entries : DuringLeap(i)
    <2> SUFFICES ASSUME NEW i \in Entries, DuringLeap(i) PROVE FALSE
      OBVIOUS
    <2>1. now <= LeapEnd(i) /\ LeapEnd(i) < now /\ LeapEnd(i) \in Int
      BY <1>6, LeapTimes DEF DuringLeap
    <2> QED
      BY <1>1, <2>1
  <1>10. \A i \in Entries : i < k => Begins[i] + Second < raw
    BY <1>1, <1>4, PastUTC, Constants
  <1> HIDE DEF raw
  <1>11. CumulativeLeapSecondsForUTC(raw) = k
    <2>1. \A i \in Entries : i < k => Begins[i] < raw
      BY <1>5, <1>10, Constants
    <2> QED
      BY <1>1, <1>5, <1>7, <2>1, CumulativeIs
  <1>12. CurrentTime = raw
    BY <1>4, <1>5, Constants DEF CurrentTime, AdjustForLeapSecond
  <1>13. LiveTime.utc = raw /\ LiveTime.correction = 0
    <2>1. LiveTime = [utc |-> raw, correction |-> 0]
      BY <1>4, <1>5, Constants DEF LiveTime
    <2> QED
      BY <2>1
  <1> QED
    BY <1>8, <1>9, <1>11, <1>12, <1>13 DEF k, raw

(***************************************************************************)
(* What a client reads is right: together with the seconds that the table  *)
(* counts before it, it is the clock, or the held moment later.            *)
(***************************************************************************)
ReadingIsTrue(at, read) ==
  /\ read.utc \in Int /\ Digits(read.correction) \in Int
  /\ read.utc + Digits(read.correction) + Second * CumulativeLeapSecondsForUTC(read.utc) - at
       \in 0 .. Hold

LEMMA ShownIsTrue ==
  ASSUME SourceInv, NEW k \in 0 .. Last + 1, Knows(k), ~Outdated
  PROVE  ShowsUTC /\ ReadingIsTrue(now, LiveTime)
  <1> DEFINE digits == Digits(LiveTime.correction)
             utc == LiveTime.utc
             n == Inserted
  <1>0. /\ now \in Int /\ Hold \in Nat \ {0} /\ Second \in Nat \ {0} /\ k \in Int
        /\ n \in 0 .. Last + 1
    BY Constants, InsertedIsPassed DEF SourceInv, Passed
  <1>1. Second * n \in Int
    BY <1>0, TimesSecond
  <1>2. /\ CumulativeLeapSecondsForUTC(utc) = n
        /\ utc \in Int /\ utc + digits - (now - Second * n) \in 0 .. Hold /\ digits \in Int
        /\ IF \E i \in Entries : DuringLeap(i)
           THEN \E i \in Entries : DuringLeap(i) /\ CurrentTime = Begins[i] - Hold
           ELSE CurrentTime = now - Second * n
    <2>0. Digits(0) = 0
      BY <1>0 DEF Digits
    <2>1. CASE k = Last + 1
      <3>1. /\ n = k /\ ~\E i \in Entries : DuringLeap(i)
            /\ CumulativeLeapSecondsForUTC(utc) = k
            /\ utc = now - Second * k /\ CurrentTime = now - Second * k
            /\ LiveTime.correction = 0
        BY <2>1, AfterLast
      <3>2. digits = 0
        BY <2>0, <3>1
      <3> HIDE DEF digits, utc, n
      <3> QED
        BY <1>0, <1>1, <3>1, <3>2
    <2>2. CASE k \in Entries /\ now < LeapStart(k)
      <3>1. /\ n = k /\ ~\E i \in Entries : DuringLeap(i)
            /\ CumulativeLeapSecondsForUTC(utc) = k
            /\ utc = now - Second * k /\ CurrentTime = now - Second * k
            /\ digits \in 0 .. Hold
        BY <2>2, BeforeLeap
      <3> HIDE DEF digits, utc, n
      <3> QED
        BY <1>0, <1>1, <3>1
    <2>3. CASE k \in Entries /\ DuringLeap(k)
      <3>1. /\ n = k /\ CurrentTime = Begins[k] - Hold
            /\ CumulativeLeapSecondsForUTC(utc) = k
            /\ utc + digits - (now - Second * k) \in 0 .. Hold
            /\ utc \in Int /\ digits \in Int
        BY <2>3, DuringKnownLeap
      <3> HIDE DEF digits, utc, n
      <3> QED
        BY <1>0, <2>3, <3>1
    <2>4. CASE k \in Entries /\ LeapEnd(k) < now
      <3>1. /\ n = k + 1 /\ ~\E i \in Entries : DuringLeap(i)
            /\ CumulativeLeapSecondsForUTC(utc) = k + 1
            /\ utc = now - Second * (k + 1) /\ CurrentTime = now - Second * (k + 1)
            /\ LiveTime.correction = 0
        BY <2>4, AfterLeap
      <3>2. digits = 0
        BY <2>0, <3>1
      <3> HIDE DEF digits, utc, n
      <3> QED
        BY <1>0, <1>1, <3>1, <3>2
    <2>5. k = Last + 1 \/ k \in Entries
      BY Constants DEF Entries
    <2>6. k \in Entries => now < LeapStart(k) \/ DuringLeap(k) \/ LeapEnd(k) < now
      BY <1>0, LeapTimes DEF DuringLeap
    <2> QED
      BY <2>1, <2>2, <2>3, <2>4, <2>5, <2>6
  <1> HIDE DEF digits, utc
  <1>3. Within(utc + digits, now - Second * n, Hold)
    <2> HIDE DEF n
    <2> QED
      BY <1>0, <1>1, <1>2 DEF Within
  <1>4. ShowsUTC
    BY <1>2, <1>3 DEF ShowsUTC, DigitalUTC, utc, digits
  <1>5. utc + digits + Second * CumulativeLeapSecondsForUTC(utc) - now \in 0 .. Hold
    <2> HIDE DEF n
    <2> QED
      BY <1>0, <1>1, <1>2
  <1> QED
    BY <1>2, <1>4, <1>5 DEF ReadingIsTrue, utc, digits

\* Once the leap data are looked up at a clear moment, and nothing has changed since,
\* ESTime knows them.
KnownInv ==
  lookUp = "clear" /\ ~In(<<"leap">>, todo["NTP"]) => \E k \in 0 .. Last + 1 : Knows(k)

\* The next leap second is looked up with the time adjusted for the old one.
LEMMA LookedUp ==
  ASSUME SourceInv, TableInv, Moment = "clear",
         nextLeapDate' = NextLeapSecondAfter(CurrentTime),
         nextLeapDelta' = IF nextLeapDate' = Never THEN 0 ELSE Second,
         UNCHANGED <<now, contSkew>>
  PROVE  \E k \in 0 .. Last + 1 : Knows(k)'
  <1>0. now \in 0 .. MaxTime /\ now \in Int /\ bestDriver = "NTP" /\ Second \in Nat \ {0}
    BY Constants DEF SourceInv
  <1>1. PICK k \in 0 .. Last + 1 : k = Inserted /\ Passed(k)
    BY <1>0, InsertedIsPassed DEF Passed
  <1> DEFINE raw == now - Second * k
  <1>2. /\ ~\E i \in Entries : DuringLeap(i)
        /\ contSkew["NTP"] = - (Second * k)
        /\ ~\E i \in Entries : now \in LeapEnd(i) .. LeapEnd(i) + Second
    <2>1. "clear" # "during" /\ "clear" # "after"
      OBVIOUS
    <2>2. contSkew["NTP"] = - Second * k
      BY <1>0, <1>1, <2>1 DEF Moment
    <2>3. - Second * k = - (Second * k)
      OBVIOUS
    <2> QED
      BY <2>1, <2>2, <2>3 DEF Moment
  <1>3. k \in 0 .. Last + 1 /\ k \in Int /\ Second * k \in Nat
    BY <1>1, TimesSecond, Constants
  <1>4. ASSUME NEW i \in Entries, i < k PROVE LeapEnd(i) + Second < now
    <2>1. LeapEnd(i) < now /\ ~(now \in LeapEnd(i) .. LeapEnd(i) + Second) /\ LeapEnd(i) \in Int
      BY <1>1, <1>2, <1>4, LeapTimes DEF Passed
    <2> QED
      BY <1>0, <2>1
  <1>5. ASSUME NEW i \in Entries, k <= i PROVE now < LeapStart(i)
    <2>1. /\ ~(LeapEnd(i) < now) /\ ~(now \in LeapStart(i) .. LeapEnd(i))
          /\ LeapEnd(i) \in Int /\ LeapStart(i) \in Int
      <3>1. i \in Int
        BY Constants
      <3> QED
        BY <1>1, <1>2, <1>3, <1>5, <3>1, LeapTimes DEF Passed, DuringLeap
    <2> QED
      BY <1>0, <2>1
  <1>6. \A i \in Entries : i < k => Begins[i] + Second < raw
    BY <1>0, <1>3, <1>4, PastUTC
  <1>7. \A i \in Entries : k <= i => raw < Begins[i]
    BY <1>0, <1>3, <1>5, FutureUTC
  <1>8. Raw = raw /\ raw \in Int /\ raw < Never
    BY <1>0, <1>2, <1>3, Constants DEF Raw
  <1> HIDE DEF raw
  <1>9. /\ CurrentTime \in Int
        /\ \A i \in Entries : i < k => Begins[i] < CurrentTime
        /\ \A i \in Entries : k <= i => CurrentTime <= Begins[i]
    <2>1. CASE nextLeapDate = Never
      <3>1. CurrentTime = raw
        BY <1>8, <2>1, Constants DEF CurrentTime, AdjustForLeapSecond, TableInv
      <3> QED
        BY <1>6, <1>7, <1>8, <3>1, Constants
    <2>2. CASE nextLeapDate # Never
      <3>1. PICK j \in Entries : nextLeapDate = Begins[j] /\ nextLeapDelta = Second
        BY <2>2 DEF TableInv
      <3>2. j \in Int /\ Begins[j] \in Int
        BY Constants
      <3>3. raw < Begins[j] \/ Begins[j] + Second < raw
        BY <1>3, <1>6, <1>7, <3>2
      <3>4. CurrentTime = raw \/ CurrentTime = raw - Second
        BY <1>0, <1>8, <3>1, <3>2, <3>3 DEF CurrentTime, AdjustForLeapSecond
      <3> QED
        BY <1>0, <1>6, <1>7, <1>8, <3>4, Constants
    <2> QED
      BY <2>1, <2>2
  <1>10. NextLeapSecondAfter(CurrentTime) = DateOf(k)
    BY <1>3, <1>9, NextIsDateOf
  <1>11. nextLeapDelta' = IF k <= Last THEN Second ELSE 0
    <2>1. k <= Last => k \in Entries /\ Begins[k] # Never
      <3>1. k <= Last => k \in Entries
        BY <1>3, Constants DEF Entries
      <3> QED
        BY <3>1, Constants
    <2> QED
      BY <1>10, <2>1 DEF DateOf
  <1>12. Knows(k)'
    BY <1>2, <1>4, <1>10, <1>11 DEF Knows
  <1> QED
    BY <1>12

\* What the client has read was right when it did.
MarkInv == mark.at \in Int /\ ReadingIsTrue(mark.at, mark.read)

\* Every driver is at rest when ESTime vouches for the time.
LEMMA ReliableIsKnown ==
  ASSUME SourceInv, KnownInv, Reliable
  PROVE  ShowsUTC /\ ReadingIsTrue(now, LiveTime)
  <1>1. lookUp = "clear" /\ ~Outdated /\ todo["NTP"] = <<>>
    BY DEF Reliable, Vouched, AtRest, Drivers
  <1>2. ~In(<<"leap">>, todo["NTP"])
    BY <1>1, InEmpty
  <1>3. PICK k \in 0 .. Last + 1 : Knows(k)
    BY <1>1, <1>2 DEF KnownInv
  <1> QED
    BY <1>1, <1>3, ShownIsTrue

\* What is known stays known while time passes.
LEMMA KnowsOn ==
  ASSUME SourceInv, NEW k \in 0 .. Last + 1, Knows(k), contSkew'["NTP"] = contSkew["NTP"],
         UNCHANGED <<nextLeapDate, nextLeapDelta>>, now' = now \/ now' = now + 1
  PROVE  Knows(k)'
  <1>1. now \in Int /\ Second \in Int
    BY Constants DEF SourceInv
  <1>2. \A i \in Entries : i < k => LeapEnd(i) + Second < now'
    BY <1>1, LeapTimes DEF Knows
  <1>3. contSkew'["NTP"] = - (Second * k) /\ nextLeapDate' = DateOf(k)
        /\ nextLeapDelta' = IF k <= Last THEN Second ELSE 0
    BY DEF Knows
  <1> QED
    BY <1>2, <1>3 DEF Knows

\* A step that changes neither the skew nor the leap data, and gets no look-up done.
LEMMA KnownSame ==
  ASSUME SourceInv, KnownInv, contSkew'["NTP"] = contSkew["NTP"],
         UNCHANGED <<nextLeapDate, nextLeapDelta, lookUp>>, now' = now \/ now' = now + 1,
         In(<<"leap">>, todo["NTP"]) => In(<<"leap">>, todo'["NTP"])
  PROVE  KnownInv'
  <1> SUFFICES ASSUME lookUp' = "clear", ~In(<<"leap">>, todo'["NTP"])
               PROVE  \E k \in 0 .. Last + 1 : Knows(k)'
    BY DEF KnownInv
  <1>1. PICK k \in 0 .. Last + 1 : Knows(k)
    BY DEF KnownInv
  <1> QED
    BY <1>1, KnowsOn

LEMMA KnownValue ==
  ASSUME SourceInv, NEW skew \in Int, NEW error \in Int, SetContSkew("NTP", skew, error)
  PROVE  KnownInv'
  <1>1. todo'["NTP"] = ValueReallyChanged
    BY ValueSteps DEF SourceInv, Drivers
  <1> QED
    BY <1>1, ReallyChanged DEF KnownInv

LEMMA KnownStatus ==
  ASSUME SourceInv, KnownInv, NEW s \in NTPStatuses, SetStatus("NTP", s)
  PROVE  KnownInv'
  <1>1. AtRest("NTP") /\ UNCHANGED <<now, contSkew, nextLeapDate, nextLeapDelta, lookUp>>
    BY DEF SetStatus
  <1>2. ~In(<<"leap">>, todo["NTP"])
    BY <1>1, InEmpty DEF AtRest
  <1> QED
    BY <1>1, <1>2, KnownSame

LEMMA KnownXGPS ==
  ASSUME SourceInv, KnownInv, XGPSStatus
  PROVE  KnownInv'
  <1>1. UNCHANGED <<now, contSkew, nextLeapDate, nextLeapDelta, lookUp>>
    BY DEF XGPSStatus, SetStatus
  <1>2. todo' = [todo EXCEPT !["XGPS150"] = <<>>]
    BY StatusSteps DEF XGPSStatus, Drivers
  <1>3. todo'["NTP"] = todo["NTP"]
    BY <1>2 DEF SourceInv, Drivers
  <1> QED
    BY <1>1, <1>3, KnownSame

LEMMA TableSetup ==
  ASSUME SourceInv, TableInv, NEW d \in Drivers, SetupNextLeapSecondData(d)
  PROVE  TableInv'
  <1>1. Raw \in Int
    BY Constants DEF Raw, SourceInv, Drivers
  <1>2. nextLeapDate \in Int /\ nextLeapDelta \in Int
    BY Constants DEF TableInv
  <1>3. CurrentTime = Raw \/ CurrentTime = Raw - nextLeapDelta \/ CurrentTime = nextLeapDate - Hold
    BY <1>1, <1>2, Constants DEF CurrentTime, AdjustForLeapSecond
  <1>4. CurrentTime \in Int
    BY <1>1, <1>2, <1>3, Constants
  <1>5. nextLeapDate' \in {Begins[i] : i \in Entries} \cup {Never}
    BY <1>4, NextIsInTable DEF SetupNextLeapSecondData
  <1>6. nextLeapDelta' = IF nextLeapDate' = Never THEN 0 ELSE Second
    BY DEF SetupNextLeapSecondData
  <1> QED
    BY <1>5, <1>6 DEF TableInv

LEMMA KnownSetup ==
  ASSUME SourceInv, TableInv, NEW d \in Drivers, SetupNextLeapSecondData(d)
  PROVE  KnownInv'
  <1> SUFFICES ASSUME lookUp' = "clear"
               PROVE  \E k \in 0 .. Last + 1 : Knows(k)'
    BY DEF KnownInv
  <1>1. /\ Moment = "clear"
        /\ nextLeapDate' = NextLeapSecondAfter(CurrentTime)
        /\ nextLeapDelta' = IF nextLeapDate' = Never THEN 0 ELSE Second
        /\ UNCHANGED <<now, contSkew>>
    BY DEF SetupNextLeapSecondData
  <1> QED
    BY <1>1, LookedUp

LEMMA KnownCall ==
  ASSUME SourceInv, KnownInv, NEW d \in Drivers, CallObserver(d)
  PROVE  KnownInv'
  <1>1. /\ ~AtRest(d) /\ Head(todo[d]) # <<"leap">> /\ todo' = [todo EXCEPT ![d] = Tail(@)]
        /\ UNCHANGED <<now, contSkew, nextLeapDate, nextLeapDelta, lookUp>>
    BY DEF CallObserver
  <1>2. d = "NTP" /\ todo["NTP"] # <<>> /\ todo'["NTP"] = Tail(todo["NTP"])
    BY <1>1, Working, TodoShrinks
  <1>3. In(<<"leap">>, todo["NTP"]) => In(<<"leap">>, todo'["NTP"])
    BY <1>1, <1>2, StillToDo
  <1> QED
    BY <1>1, <1>3, KnownSame

LEMMA KnownInit ==
  Init => TableInv /\ KnownInv /\ MarkInv
  <1> SUFFICES ASSUME Init PROVE TableInv /\ KnownInv /\ MarkInv
    OBVIOUS
  <1>1. TableInv
    BY DEF Init, TableInv
  <1>2. KnownInv
    BY DEF Init, KnownInv
  <1>3. mark.at = 0 /\ mark.read.utc = 0 /\ mark.read.correction = 0
    BY DEF Init
  <1>4. CumulativeLeapSecondsForUTC(0) = 0
    <2>1. 0 \in 0 .. Last + 1 /\ \A i \in Entries : ~(i < 0) /\ 0 <= Begins[i]
      BY Constants, SpacingAssumption DEF Entries
    <2> QED
      BY <2>1, CumulativeIs
  <1>5. Digits(0) = 0 /\ Second * 0 = 0 /\ Hold \in Nat
    BY Constants DEF Digits
  <1>6. MarkInv
    BY <1>3, <1>4, <1>5 DEF MarkInv, ReadingIsTrue
  <1> QED
    BY <1>1, <1>2, <1>6

LEMMA KnownNext ==
  SourceInv /\ TableInv /\ KnownInv /\ MarkInv /\ [Next]_vars =>
    TableInv' /\ KnownInv' /\ MarkInv'
  <1> SUFFICES ASSUME SourceInv, TableInv, KnownInv, MarkInv, [Next]_vars
               PROVE  TableInv' /\ KnownInv' /\ MarkInv'
    OBVIOUS
  <1>0. now \in Int
    BY Constants DEF SourceInv
  <1> DEFINE Same == UNCHANGED <<nextLeapDate, nextLeapDelta>>
  <1>1. Same => TableInv'
    BY DEF TableInv
  <1>2. mark' = mark => MarkInv'
    BY DEF MarkInv, ReadingIsTrue, CumulativeLeapSecondsForUTC, IsCumulative, Digits
  <1>3. CASE Synchronize
    <2>1. PICK skew \in MeasuredSkews : SetContSkew("NTP", skew, Accurate)
      BY <1>3 DEF Synchronize
    <2>2. skew \in Int /\ Accurate \in Int
      BY <1>0, MeasuredSkewIs, Constants
    <2>3. mark' = mark /\ Same
      BY <2>1 DEF SetContSkew
    <2> QED
      BY <1>1, <1>2, <2>1, <2>2, <2>3, KnownValue
  <1>4. CASE StartSyncing
    <2>1. contSkew["NTP"] \in Int /\ Unknown \in Int
      BY Constants DEF SourceInv, Drivers
    <2>2. mark' = mark /\ Same
      BY <1>4 DEF StartSyncing, SetContSkew
    <2> QED
      BY <1>1, <1>2, <1>4, <2>1, <2>2, KnownValue DEF StartSyncing
  <1>5. CASE NTPStatus \/ XGPSStatus
    <2>1. mark' = mark /\ Same
      BY <1>5 DEF NTPStatus, XGPSStatus, SetStatus
    <2> QED
      BY <1>1, <1>2, <1>5, <2>1, KnownStatus, KnownXGPS DEF NTPStatus
  <1>6. CASE \E d \in Drivers : SetupNextLeapSecondData(d)
    <2>1. mark' = mark
      BY <1>6 DEF SetupNextLeapSecondData
    <2> QED
      BY <1>2, <1>6, <2>1, TableSetup, KnownSetup
  <1>7. CASE \E d \in Drivers : CallObserver(d)
    <2>1. mark' = mark /\ Same
      BY <1>7 DEF CallObserver
    <2> QED
      BY <1>1, <1>2, <1>7, <2>1, KnownCall
  <1>8. CASE (\E o \in ObserverSet : ObserverIsCalled(o)) \/ Tick \/ UNCHANGED vars
    <2>1. /\ mark' = mark /\ Same /\ (now' = now \/ now' = now + 1)
          /\ UNCHANGED <<contSkew, lookUp, todo>>
      BY <1>8 DEF ObserverIsCalled, Tick, vars, reportVars
    <2> QED
      BY <1>1, <1>2, <2>1, KnownSame
  <1>9. CASE Look
    <2>1. /\ Reliable /\ mark' = [at |-> now, read |-> LiveTime] /\ Same /\ now' = now
          /\ UNCHANGED <<contSkew, lookUp, todo>>
      BY <1>9 DEF Look, reportVars
    <2>2. ReadingIsTrue(now, LiveTime)
      BY <2>1, ReliableIsKnown
    <2>3. mark'.at = now /\ mark'.read = LiveTime
      BY <2>1
    <2>4. MarkInv'
      BY <1>0, <2>2, <2>3
         DEF MarkInv, ReadingIsTrue, CumulativeLeapSecondsForUTC, IsCumulative, Digits
    <2> QED
      BY <1>1, <2>1, <2>4, KnownSame
  <1> QED
    BY <1>3, <1>4, <1>5, <1>6, <1>7, <1>8, <1>9 DEF Next

\* ESTime::currentTime and the live correction: what is vouched for is UTC, held short of
\* midnight during a leap second, for any table of leap seconds, through reports, changes
\* of the leap data and leap seconds in any order.
THEOREM TimeIsTrue == Spec => []ShowsTrueTime
  <1>1. SourceInv /\ KnownInv => ShowsTrueTime
    BY ReliableIsKnown DEF ShowsTrueTime
  <1> QED
    BY <1>1, SourceInit, SourceNext, KnownInit, KnownNext, PTL DEF Spec

\* intervalBetweenUTCValuesWithLiveLeapCorrections: between any two moments at which
\* ESTime vouches for the time, a client computes the time that has passed, to within the
\* moment held before midnight, however many leap seconds lie between them.
THEOREM IntervalsAreTrue == Spec => []ElapsedIsTrue
  <1>1. ASSUME SourceInv, KnownInv, MarkInv PROVE ElapsedIsTrue
    <2> SUFFICES ASSUME Reliable
                 PROVE  Within(IntervalBetween(mark.read, LiveTime), now - mark.at, Hold)
      BY DEF ElapsedIsTrue
    <2> DEFINE a == mark.read.utc
               da == Digits(mark.read.correction)
               ca == CumulativeLeapSecondsForUTC(a)
               b == LiveTime.utc
               db == Digits(LiveTime.correction)
               cb == CumulativeLeapSecondsForUTC(b)
    <2>1. /\ a + da + Second * ca - mark.at \in 0 .. Hold
          /\ b + db + Second * cb - now \in 0 .. Hold
          /\ a \in Int /\ b \in Int /\ da \in Int /\ db \in Int
          /\ mark.at \in Int /\ now \in Int /\ Hold \in Nat /\ Second \in Nat
      <3>1. ReadingIsTrue(mark.at, mark.read) /\ mark.at \in Int
        BY <1>1 DEF MarkInv
      <3>2. ReadingIsTrue(now, LiveTime)
        BY <1>1, ReliableIsKnown
      <3>3. now \in Int /\ Hold \in Nat /\ Second \in Nat
        BY <1>1, Constants DEF SourceInv
      <3> QED
        BY <3>1, <3>2, <3>3, Zenon DEF ReadingIsTrue
    <2>2. ca \in Nat /\ cb \in Nat
      BY <2>1, CumulativeType
    <2>3. IntervalBetween(mark.read, LiveTime) = b - a + Second * (cb - ca) - da + db
      BY DEF IntervalBetween, LeapSecondsDuringInterval
    <2> DEFINE at == mark.at
    <2> HIDE DEF a, b, da, db, ca, cb, at
    <2>4. /\ Second * ca \in Int /\ Second * cb \in Int
          /\ Second * (cb - ca) = Second * cb - Second * ca
      BY <2>1, <2>2
    <2> DEFINE sa == Second * ca
               sb == Second * cb
               sd == Second * (cb - ca)
    <2>5. /\ sa \in Int /\ sb \in Int /\ sd = sb - sa /\ at \in Int
          /\ a + da + sa - at \in 0 .. Hold /\ b + db + sb - now \in 0 .. Hold
      BY <2>1, <2>4 DEF at
    <2> HIDE DEF sa, sb, sd
    <2>6. Within(b - a + sd - da + db, now - at, Hold)
      BY <2>1, <2>5 DEF Within
    <2> QED
      BY <2>3, <2>6 DEF at, sd
  <1> QED
    BY <1>1, SourceInit, SourceNext, KnownInit, KnownNext, PTL DEF Spec

=============================================================================
