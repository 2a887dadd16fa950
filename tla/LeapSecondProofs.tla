--------------------------- MODULE LeapSecondProofs ---------------------------
(***************************************************************************)
(* Proofs about LeapSecond, for every table whose entries are in order, for *)
(* any times and any number of threads: the search keeps the time between  *)
(* its bounds, what it finds is the event before the time, and so every    *)
(* call that is not disturbed answers what the table says.                 *)
(***************************************************************************)
EXTENDS LeapSecond, TLAPS

-----------------------------------------------------------------------------
(* The table. *)

\* An earlier entry is an earlier time.
LEMMA InOrder ==
  ASSUME NEW i \in Entries, NEW j \in Entries, i <= j
  PROVE  Begins[i] \in Int /\ Begins[j] \in Int /\ Begins[i] <= Begins[j]
  BY SMT, TableAssumption DEF Entries

\* The event before a time, if there is one, gives both answers.
LEMMA PriorAnswers ==
  ASSUME NEW t \in Int, NEW e \in 0 .. Last - 1, Begins[e] < t, t <= Begins[e + 1],
         NEW k \in Kinds
  PROVE  IsAnswer(k, t, Result(k, e)) /\ Result(k, e) \in Int
<1>1. e \in Entries /\ e + 1 \in Entries /\ Last \in Nat
  BY SMT, TableAssumption DEF Entries
<1>2. \A i \in Entries : i <= e => Begins[i] < t
  BY <1>1, InOrder, SMT DEF Entries
<1>3. \A i \in Entries : ~(i <= e) => t <= Begins[i]
  BY <1>1, InOrder, SMT DEF Entries
<1>4. \A i \in Entries : Begins[i] \in Int
  BY TableAssumption, SMT
<1>5. IsCumulative(t, e + 1)
  <2>1. \A i \in Entries : i < e + 1 <=> Begins[i] < t
    BY <1>1, <1>2, <1>3, <1>4, SMT DEF Entries
  <2> QED BY <2>1, <1>1, SMT DEF IsCumulative
<1>6. IsNext(t, Begins[e + 1])
  <2>1. \A i \in Entries : t <= Begins[i] => Begins[e + 1] <= Begins[i]
    <3> SUFFICES ASSUME NEW i \in Entries, t <= Begins[i]
                 PROVE  Begins[e + 1] <= Begins[i]
      OBVIOUS
    <3>1. ~(i <= e)
      BY <1>2, <1>4, SMT
    <3>2. e + 1 <= i
      BY <3>1, SMT DEF Entries
    <3> QED BY <3>2, <1>1, InOrder
  <2> QED BY <2>1, <1>1 DEF IsNext
<1>7. CASE k = "cumulative"
  BY <1>5, <1>7, SMT DEF IsAnswer, Result
<1>8. CASE k = "next"
  <2>1. k # "cumulative"
    BY <1>8
  <2> QED BY <1>6, <1>4, <1>1, <2>1 DEF IsAnswer, Result
<1> QED BY <1>7, <1>8 DEF Kinds

\* After the last event, and up to the first, the answers are at hand.
LEMMA AfterLastAnswers ==
  ASSUME NEW t \in Int, Begins[Last] < t, NEW k \in Kinds
  PROVE  LET a == IF k = "cumulative" THEN Last + 1 ELSE Never
         IN IsAnswer(k, t, a) /\ a \in Int
<1>1. Last \in Nat /\ Last \in Entries /\ Never \in Int
  BY SMT, TableAssumption DEF Entries
<1>2. \A i \in Entries : Begins[i] \in Int /\ Begins[i] < t /\ i < Last + 1
  BY <1>1, InOrder, SMT DEF Entries
<1>3. IsCumulative(t, Last + 1)
  BY <1>1, <1>2, SMT DEF IsCumulative
<1>4. IsNext(t, Never)
  <2>1. \A i \in Entries : ~(t <= Begins[i])
    BY <1>2, SMT
  <2> QED BY <2>1, <1>2 DEF IsNext
<1> QED BY <1>1, <1>3, <1>4, SMT DEF IsAnswer

LEMMA BeforeFirstAnswers ==
  ASSUME NEW t \in Int, t <= Begins[0], NEW k \in Kinds
  PROVE  LET a == IF k = "cumulative" THEN 0 ELSE Begins[0]
         IN IsAnswer(k, t, a) /\ a \in Int
<1>1. Last \in Nat /\ 0 \in Entries
  BY SMT, TableAssumption DEF Entries
<1>2. \A i \in Entries : Begins[i] \in Int /\ ~(Begins[i] < t) /\ ~(i < 0) /\ Begins[0] <= Begins[i]
  BY <1>1, InOrder, SMT DEF Entries
<1>3. IsCumulative(t, 0)
  BY <1>1, <1>2, SMT DEF IsCumulative
<1>4. IsNext(t, Begins[0])
  BY <1>1, <1>2 DEF IsNext
<1> QED BY <1>1, <1>2, <1>3, <1>4, SMT DEF IsAnswer

-----------------------------------------------------------------------------
(* The invariant of a call. *)

\* A call that looks at the cache asks about a time within the table; the
\* search keeps it between its bounds; what a thread that is not disturbed has
\* seen of the cache still holds.
CallIsSound(c) ==
  /\ pc[c] # "idle" => Begins[0] < utc[c] /\ utc[c] <= Begins[Last]
  /\ pc[c] \in {"idle", "compare"} => idx1[c] = 0 /\ idx2[c] = Last
  /\ pc[c] = "search" => /\ idx1[c] < idx2[c]
                         /\ Begins[idx1[c]] < utc[c] /\ utc[c] <= Begins[idx2[c]]
  /\ pc[c] = "compare" /\ ~disturbed[c] => Begins[cacheLastEvent] < utc[c]
  /\ pc[c] = "found" /\ ~disturbed[c] => IsCached(utc[c])
  /\ pc[c] = "idle" /\ ~disturbed[c] => IsAnswer(kind[c], utc[c], answer[c])

CallsAreSound == \A c \in Callers : CallIsSound(c)

Inv == TypeOK /\ CallsAreSound

LEMMA InitInv == Init => Inv
<1> SUFFICES ASSUME Init PROVE Inv
  OBVIOUS
<1>1. Last \in Nat \ {0} /\ Begins[0] \in Int /\ Begins[0] <= Begins[0]
  BY TableAssumption, InOrder, SMT DEF Entries
<1>2. TypeOK
  BY <1>1, SMT DEF Init, TypeOK, Kinds
<1>3. IsAnswer("cumulative", Begins[0], 0)
  BY <1>1, BeforeFirstAnswers DEF Kinds
<1>4. CallsAreSound
  BY <1>1, <1>3, SMT DEF Init, CallsAreSound, CallIsSound
<1> QED BY <1>2, <1>4 DEF Inv

\* A step of c leaves every other call as it was, unless it moves the cache.
LEMMA OthersKept ==
  ASSUME NEW c \in Callers, NEW d \in Callers, CallIsSound(d),
         pc'[d] = pc[d], kind'[d] = kind[d], utc'[d] = utc[d], idx1'[d] = idx1[d],
         idx2'[d] = idx2[d], answer'[d] = answer[d], disturbed'[d] = disturbed[d],
         cacheLastEvent' = cacheLastEvent
  PROVE  CallIsSound(d)'
  BY SMT DEF CallIsSound, IsCached, IsAnswer, IsCumulative, IsNext

LEMMA CallInv == ASSUME Inv, NEW c \in Callers, Call(c) PROVE Inv'
<1> USE DEF Goto, Return
<1>0. PICK k \in Kinds, t \in Times :
        /\ kind' = [kind EXCEPT ![c] = k] /\ utc' = [utc EXCEPT ![c] = t]
        /\ AfterLast(c, k, t) \/ BeforeFirst(c, k, t) \/ LookAtCache(c, t)
  BY DEF Call
<1>t. t \in Int /\ Last \in Nat \ {0} /\ TypeOK /\ pc[c] = "idle"
  BY TimesAssumption, TableAssumption DEF Inv, Call
<1>u. /\ cacheLastEvent' = cacheLastEvent
      /\ disturbed' = [disturbed EXCEPT ![c] = FALSE]
  BY DEF Call
<1>d. \A d \in Callers : d # c => CallIsSound(d)'
  <2> SUFFICES ASSUME NEW d \in Callers, d # c PROVE CallIsSound(d)'
    OBVIOUS
  <2>1. /\ pc'[d] = pc[d] /\ kind'[d] = kind[d] /\ utc'[d] = utc[d]
        /\ idx1'[d] = idx1[d] /\ idx2'[d] = idx2[d] /\ answer'[d] = answer[d]
        /\ disturbed'[d] = disturbed[d]
    BY <1>0, <1>t, <1>u, SMT DEF AfterLast, BeforeFirst, LookAtCache, TypeOK
  <2> QED BY <2>1, <1>u, OthersKept DEF Inv, CallsAreSound
<1>r. ASSUME NEW a, IsAnswer(k, t, a), a \in Int, Return(c, a) PROVE Inv'
  <2>1. TypeOK'
    BY <1>0, <1>r, <1>t, <1>u, SMT DEF TypeOK, Kinds
  <2>2. pc'[c] = "idle" /\ idx1'[c] = 0 /\ idx2'[c] = Last
        /\ answer'[c] = a /\ kind'[c] = k /\ utc'[c] = t
    BY <1>0, <1>r, <1>t, SMT DEF TypeOK
  <2>3. IsAnswer(kind'[c], utc'[c], answer'[c])
    BY <2>2, <1>r
  <2>4. IsAnswer(kind[c], utc[c], answer[c])'
    BY <2>3, SMT DEF IsAnswer, IsCumulative, IsNext
  <2>5. CallIsSound(c)'
    BY <2>2, <2>4, SMT DEF CallIsSound
  <2> QED BY <2>1, <2>5, <1>d DEF Inv, CallsAreSound
<1>1. CASE AfterLast(c, k, t)
  BY <1>1, <1>r, <1>t, AfterLastAnswers DEF AfterLast
<1>2. CASE BeforeFirst(c, k, t)
  BY <1>2, <1>r, <1>t, BeforeFirstAnswers DEF BeforeFirst
<1>3. CASE LookAtCache(c, t)
  <2>1. TypeOK'
    BY <1>0, <1>3, <1>t, <1>u, SMT DEF TypeOK, Kinds, LookAtCache
  <2>2. /\ idx1'[c] = 0 /\ idx2'[c] = Last
        /\ pc'[c] = IF Begins[cacheLastEvent] < t THEN "compare" ELSE "search"
        /\ utc'[c] = t /\ Begins[0] < t /\ t <= Begins[Last] /\ 0 < Last
    BY <1>0, <1>3, <1>t, SMT DEF TypeOK, LookAtCache, Inv, CallsAreSound, CallIsSound
  <2>3. CallIsSound(c)'
    BY <2>2, <1>u, SMT DEF CallIsSound
  <2> QED BY <2>1, <2>3, <1>d DEF Inv, CallsAreSound
<1> QED BY <1>0, <1>1, <1>2, <1>3

\* What the bounds of a search enclose.
LEMMA Pivot ==
  ASSUME NEW i \in 0 .. Last - 1, NEW j \in 1 .. Last, j - i > 1, Last \in Nat
  PROVE  (i + j) \div 2 \in 1 .. Last - 1 /\ i < (i + j) \div 2 /\ (i + j) \div 2 < j
  BY SMT

LEMMA SearchInv == ASSUME Inv, NEW c \in Callers, Search(c) PROVE Inv'
<1>t. TypeOK /\ Last \in Nat \ {0} /\ pc[c] = "search"
  BY TableAssumption DEF Inv, Search
<1> DEFINE pivot == (idx1[c] + idx2[c]) \div 2
<1>p. pivot \in 1 .. Last - 1 /\ idx1[c] < pivot /\ pivot < idx2[c]
  <2>1. idx1[c] \in 0 .. Last - 1 /\ idx2[c] \in 1 .. Last
    BY <1>t, Zenon DEF TypeOK
  <2>2. idx2[c] - idx1[c] > 1
    BY Zenon DEF Search, Searching
  <2>3. Last \in Nat
    BY <1>t
  <2> QED BY <2>1, <2>2, <2>3, Pivot, Zenon
<1>i. idx1[c] \in Int /\ idx2[c] \in Int /\ utc[c] \in Int /\ Begins[pivot] \in Int
  <2>1. idx1[c] \in 0 .. Last - 1 /\ idx2[c] \in 1 .. Last /\ utc[c] \in Int
    BY <1>t, Zenon DEF TypeOK
  <2>2. pivot \in Entries /\ \A e \in Entries : Begins[e] \in Int
    BY <1>t, <1>p, InOrder, SMT DEF Entries
  <2> QED BY <1>t, <2>1, <2>2, SMT
<1>s. Begins[idx1[c]] < utc[c] /\ utc[c] <= Begins[idx2[c]]
      /\ Begins[0] < utc[c] /\ utc[c] <= Begins[Last]
  BY <1>t, SMT DEF Inv, CallsAreSound, CallIsSound
<1> HIDE DEF pivot
<1>h. \/ /\ Begins[pivot] < utc[c]
         /\ idx1' = [idx1 EXCEPT ![c] = pivot] /\ UNCHANGED idx2
      \/ /\ utc[c] <= Begins[pivot]
         /\ idx2' = [idx2 EXCEPT ![c] = pivot] /\ UNCHANGED idx1
  BY <1>i, SMT DEF Search, Halve, pivot
<1>u. UNCHANGED <<cacheLastEvent, pc, kind, utc, answer, disturbed>>
  BY DEF Search
<1>1. TypeOK'
  BY <1>t, <1>p, <1>h, <1>u, SMT DEF TypeOK
<1>2. CallIsSound(c)'
  BY <1>t, <1>p, <1>h, <1>u, <1>s, SMT DEF TypeOK, CallIsSound
<1>3. \A d \in Callers : d # c => CallIsSound(d)'
  <2> SUFFICES ASSUME NEW d \in Callers, d # c PROVE CallIsSound(d)'
    OBVIOUS
  <2>1. idx1'[d] = idx1[d] /\ idx2'[d] = idx2[d]
    BY <1>h, <1>t, SMT DEF TypeOK
  <2> QED BY <2>1, <1>u, OthersKept DEF Inv, CallsAreSound
<1> QED BY <1>1, <1>2, <1>3 DEF Inv, CallsAreSound

LEMMA StoreInv == ASSUME Inv, NEW c \in Callers, Store(c) PROVE Inv'
<1>t. TypeOK /\ Last \in Nat \ {0} /\ pc[c] = "search"
  BY TableAssumption DEF Inv, Store
<1>b. idx1[c] \in 0 .. Last - 1 /\ idx2[c] = idx1[c] + 1
      /\ Begins[idx1[c]] < utc[c] /\ utc[c] <= Begins[idx2[c]]
      /\ Begins[0] < utc[c] /\ utc[c] <= Begins[Last]
  BY <1>t, SMT DEF Inv, CallsAreSound, CallIsSound, TypeOK, Store, Searching
<1>u. /\ cacheLastEvent' = idx1[c] /\ pc' = [pc EXCEPT ![c] = "found"]
      /\ disturbed' = [d \in Callers |->
                         d # c /\ (disturbed[d] \/ pc[d] \in {"compare", "found"})]
      /\ UNCHANGED <<kind, utc, idx1, idx2, answer>>
  BY DEF Store, Goto
<1>1. TypeOK'
  <2>1. disturbed' \in [Callers -> BOOLEAN]
    BY <1>u, Zenon
  <2>2. cacheLastEvent' \in 0 .. Last - 1
        /\ pc' \in [Callers -> {"idle", "compare", "search", "found"}]
    BY <1>u, <1>t, <1>b, SMT DEF TypeOK
  <2> QED BY <2>1, <2>2, <1>u, <1>t DEF TypeOK
<1>2. CallIsSound(c)'
  <2>1. pc'[c] = "found" /\ utc' = utc
    BY <1>u, <1>t, SMT DEF TypeOK
  <2>2. IsCached(utc[c])'
    BY <2>1, <1>b, <1>u, SMT DEF IsCached
  <2> QED BY <2>1, <2>2, <1>b, SMT DEF CallIsSound
<1>3. \A d \in Callers : d # c => CallIsSound(d)'
  <2> SUFFICES ASSUME NEW d \in Callers, d # c PROVE CallIsSound(d)'
    OBVIOUS
  <2>1. pc'[d] = pc[d]
    BY <1>u, <1>t, SMT DEF TypeOK
  <2>2. pc[d] \in {"compare", "found"} => disturbed'[d]
    BY <1>u, Zenon
  <2>3. disturbed[d] => disturbed'[d]
    BY <1>u, Zenon
  <2>4. CallIsSound(d)
    BY DEF Inv, CallsAreSound
  <2>5. (IsAnswer(kind[d], utc[d], answer[d]))' <=> IsAnswer(kind[d], utc[d], answer[d])
    BY <1>u, SMT DEF IsAnswer, IsCumulative, IsNext
  <2>6. CASE pc[d] \in {"compare", "found"}
    <3>1. pc[d] # "idle" /\ pc[d] # "search"
      BY <2>6
    <3>2. idx1' = idx1 /\ idx2' = idx2 /\ utc' = utc
      BY <1>u
    <3>3. disturbed'[d]
      BY <2>2, <2>6
    <3> QED BY <2>1, <2>4, <2>6, <3>1, <3>2, <3>3, Zenon DEF CallIsSound
  <2>7. CASE pc[d] \notin {"compare", "found"}
    <3>1. pc[d] # "compare" /\ pc[d] # "found"
      BY <2>7
    <3>2. idx1' = idx1 /\ idx2' = idx2 /\ utc' = utc
      BY <1>u
    <3> QED BY <2>1, <2>3, <2>4, <2>5, <3>1, <3>2, Zenon DEF CallIsSound
  <2> QED BY <2>6, <2>7
<1> QED BY <1>1, <1>2, <1>3 DEF Inv, CallsAreSound

\* A call that returns the answer of the event before its time.
LEMMA ReturnInv ==
  ASSUME Inv, NEW c \in Callers, NEW a \in Int, Return(c, a),
         ~disturbed[c] => IsAnswer(kind[c], utc[c], a),
         UNCHANGED <<cacheLastEvent, kind, utc, disturbed>>
  PROVE  Inv'
<1>t. TypeOK /\ Last \in Nat \ {0}
  BY TableAssumption DEF Inv
<1>1. TypeOK'
  BY <1>t, SMT DEF TypeOK, Return, Goto
<1>2. CallIsSound(c)'
  <2>1. pc'[c] = "idle" /\ idx1'[c] = 0 /\ idx2'[c] = Last /\ answer'[c] = a
    BY <1>t, SMT DEF TypeOK, Return, Goto
  <2>2. ~disturbed'[c] => IsAnswer(kind'[c], utc'[c], answer'[c])
    BY <2>1, Zenon
  <2>3. (IsAnswer(kind[c], utc[c], answer[c]))' <=> IsAnswer(kind'[c], utc'[c], answer'[c])
    BY SMT DEF IsAnswer, IsCumulative, IsNext
  <2> QED BY <2>1, <2>2, <2>3, SMT DEF CallIsSound
<1>3. \A d \in Callers : d # c => CallIsSound(d)'
  <2> SUFFICES ASSUME NEW d \in Callers, d # c PROVE CallIsSound(d)'
    OBVIOUS
  <2>1. pc'[d] = pc[d] /\ idx1'[d] = idx1[d] /\ idx2'[d] = idx2[d] /\ answer'[d] = answer[d]
    BY <1>t, SMT DEF TypeOK, Return, Goto
  <2> QED BY <2>1, OthersKept DEF Inv, CallsAreSound
<1> QED BY <1>1, <1>2, <1>3 DEF Inv, CallsAreSound

\* The events of the table have integers for times.
LEMMA ResultType ==
  ASSUME TypeOK, NEW k \in Kinds
  PROVE  Result(k, cacheLastEvent) \in Int /\ cacheLastEvent \in 0 .. Last - 1
         /\ Begins[cacheLastEvent] \in Int /\ Begins[cacheLastEvent + 1] \in Int
<1>1. cacheLastEvent \in Entries /\ cacheLastEvent + 1 \in Entries /\ cacheLastEvent \in Int
  BY TableAssumption, SMT DEF TypeOK, Entries
<1>2. Begins[cacheLastEvent] \in Int /\ Begins[cacheLastEvent + 1] \in Int
  BY <1>1, TableAssumption, SMT
<1> QED BY <1>1, <1>2, SMT DEF Result, TypeOK

LEMMA CompareInv == ASSUME Inv, NEW c \in Callers, Compare(c) PROVE Inv'
<1>t. TypeOK /\ Last \in Nat \ {0} /\ pc[c] = "compare" /\ CallIsSound(c)
  BY TableAssumption DEF Inv, Compare, CallsAreSound
<1>u. UNCHANGED <<cacheLastEvent, kind, utc, disturbed>>
  BY DEF Compare
<1>k. kind[c] \in Kinds /\ utc[c] \in Int
  BY <1>t DEF TypeOK
<1>i. /\ cacheLastEvent \in 0 .. Last - 1 /\ Result("next", cacheLastEvent) \in Int
      /\ Begins[cacheLastEvent + 1] \in Int
  BY <1>t, ResultType DEF Kinds
<1>d. ASSUME NEW place \in {"search", "found"}, Goto(c, place), UNCHANGED <<idx1, idx2, answer>>,
             place = "found" => utc[c] <= Begins[cacheLastEvent + 1]
      PROVE  Inv'
  <2>1. TypeOK'
    BY <1>t, <1>u, <1>d, SMT DEF TypeOK, Goto
  <2>2. pc'[c] = place
    BY <1>d, <1>t, SMT DEF Goto, TypeOK
  <2>3. CallIsSound(c)'
    <3>1. Begins[0] < utc[c] /\ utc[c] <= Begins[Last] /\ idx1[c] = 0 /\ idx2[c] = Last
          /\ 0 < Last
      BY <1>t, SMT DEF CallIsSound
    <3>2. CASE place = "search"
      <4>1. pc'[c] = "search" /\ idx1' = idx1 /\ idx2' = idx2 /\ utc' = utc
        BY <1>d, <1>u, <2>2, <3>2
      <4> QED BY <3>1, <4>1, SMT DEF CallIsSound
    <3>3. CASE place = "found"
      <4>1. ~disturbed[c] => Begins[cacheLastEvent] < utc[c]
        BY <1>t DEF CallIsSound
      <4>2. pc'[c] = "found" /\ utc' = utc /\ disturbed' = disturbed
            /\ cacheLastEvent' = cacheLastEvent
        BY <1>d, <1>u, <2>2, <3>3
      <4>3. ~disturbed[c] => IsCached(utc[c])
        BY <4>1, <1>d, <3>3 DEF IsCached
      <4>4. IsCached(utc[c]) <=> (IsCached(utc[c]))'
        BY <4>2, Zenon DEF IsCached
      <4>5. pc'[c] # "idle" /\ pc'[c] # "search" /\ pc'[c] # "compare"
        BY <4>2
      <4> QED BY <3>1, <4>2, <4>3, <4>4, <4>5, Zenon DEF CallIsSound
    <3> QED BY <3>2, <3>3
  <2>4. \A d \in Callers : d # c => CallIsSound(d)'
    <3> SUFFICES ASSUME NEW d \in Callers, d # c PROVE CallIsSound(d)'
      OBVIOUS
    <3>1. pc'[d] = pc[d]
      BY <1>t, <1>d, SMT DEF TypeOK, Goto
    <3> QED BY <3>1, <1>u, <1>d, OthersKept DEF Inv, CallsAreSound
  <2> QED BY <2>1, <2>3, <2>4 DEF Inv, CallsAreSound
<1>1. CASE Begins[cacheLastEvent + 1] < utc[c]
  <2>1. ~(utc[c] <= Begins[cacheLastEvent + 1])
    BY <1>1, <1>k, <1>i, SMT
  <2>2. Goto(c, "search") /\ UNCHANGED <<idx1, idx2, answer>>
    BY <1>1, <2>1 DEF Compare
  <2> QED BY <2>2, <1>d
<1>2. CASE utc[c] <= Begins[cacheLastEvent + 1] /\ kind[c] = "next"
  <2>1. ~(Begins[cacheLastEvent + 1] < utc[c])
    BY <1>2, <1>k, <1>i, SMT
  <2>2. Return(c, Result("next", cacheLastEvent))
    BY <1>2, <2>1 DEF Compare
  <2>3. ~disturbed[c] => Begins[cacheLastEvent] < utc[c]
    BY <1>t DEF CallIsSound
  <2>4. ~disturbed[c] => IsAnswer(kind[c], utc[c], Result("next", cacheLastEvent))
    BY <2>3, <1>2, <1>i, <1>k, PriorAnswers
  <2> QED BY <2>2, <2>4, <1>i, <1>u, ReturnInv
<1>3. CASE utc[c] <= Begins[cacheLastEvent + 1] /\ kind[c] # "next"
  <2>1. ~(Begins[cacheLastEvent + 1] < utc[c])
    BY <1>3, <1>k, <1>i, SMT
  <2>2. Goto(c, "found") /\ UNCHANGED <<idx1, idx2, answer>>
    BY <1>3, <2>1 DEF Compare
  <2> QED BY <2>2, <1>3, <1>d
<1> QED BY <1>1, <1>2, <1>3, <1>k, <1>i, SMT

LEMMA FinishInv == ASSUME Inv, NEW c \in Callers, Finish(c) PROVE Inv'
<1>t. TypeOK /\ pc[c] = "found" /\ CallIsSound(c)
  BY DEF Inv, Finish, CallsAreSound
<1>k. kind[c] \in Kinds /\ utc[c] \in Int
  BY <1>t DEF TypeOK
<1>1. Result(kind[c], cacheLastEvent) \in Int /\ cacheLastEvent \in 0 .. Last - 1
  BY <1>t, <1>k, ResultType
<1>2. ~disturbed[c] => Begins[cacheLastEvent] < utc[c] /\ utc[c] <= Begins[cacheLastEvent + 1]
  BY <1>t DEF CallIsSound, IsCached
<1>3. ~disturbed[c] => IsAnswer(kind[c], utc[c], Result(kind[c], cacheLastEvent))
  BY <1>1, <1>2, <1>k, PriorAnswers
<1> QED BY <1>1, <1>3, ReturnInv DEF Finish

LEMMA NextInv == Inv /\ [Next]_vars => Inv'
<1> SUFFICES ASSUME Inv, [Next]_vars PROVE Inv'
  OBVIOUS
<1>1. ASSUME NEW c \in Callers, Call(c) PROVE Inv'
  BY <1>1, CallInv
<1>2. ASSUME NEW c \in Callers, Compare(c) PROVE Inv'
  BY <1>2, CompareInv
<1>3. ASSUME NEW c \in Callers, Search(c) PROVE Inv'
  BY <1>3, SearchInv
<1>4. ASSUME NEW c \in Callers, Store(c) PROVE Inv'
  BY <1>4, StoreInv
<1>5. ASSUME NEW c \in Callers, Finish(c) PROVE Inv'
  BY <1>5, FinishInv
<1>6. CASE UNCHANGED vars
  BY <1>6, SMT DEF vars, Inv, TypeOK, CallsAreSound, CallIsSound, IsCached, IsAnswer,
     IsCumulative, IsNext
<1> QED BY <1>1, <1>2, <1>3, <1>4, <1>5, <1>6 DEF Next, Step

-----------------------------------------------------------------------------
(* The theorems. *)

\* The cache is always an event that has another after it, and the bounds of a
\* search are entries of the table (the indices of esLeapSecondDates that
\* findAndCacheEventPriorTo reads).
THEOREM TypeCorrect == Spec => []TypeOK
<1>1. Inv => TypeOK
  BY DEF Inv
<1> QED BY InitInv, NextInv, <1>1, PTL DEF Spec

\* A search that is not disturbed finds the event before its time (the
\* assertions at the end of findAndCacheEventPriorTo).
THEOREM SearchFindsThePrior == Spec => []FoundIsPrior
<1>1. Inv => FoundIsPrior
  BY DEF Inv, CallsAreSound, CallIsSound, FoundIsPrior
<1> QED BY InitInv, NextInv, <1>1, PTL DEF Spec

\* cumulativeLeapSecondsForUTC and nextLeapSecondAfter answer what the table
\* says for every time, whatever is cached, unless another thread moves the
\* cache during the call.
THEOREM CallsAnswerRight == Spec => []AnswersAreRight
<1>1. Inv => AnswersAreRight
  BY DEF Inv, CallsAreSound, CallIsSound, AnswersAreRight
<1> QED BY InitInv, NextInv, <1>1, PTL DEF Spec
=============================================================================
