------------------------------ MODULE LeapSecond ------------------------------
(***************************************************************************)
(* How the table of leap seconds is searched (ESLeapSecond.cpp): the       *)
(* binary search for the event before a time, and the cache of the last    *)
(* event found, which all threads share without a lock.                    *)
(***************************************************************************)
EXTENDS LeapTable

CONSTANTS
  Times,    \* the times asked about
  Callers   \* the threads that ask

ASSUME TimesAssumption == Times \subseteq Int

VARIABLES
  cacheLastEvent, \* _cacheLastEvent, as an index
  pc,             \* where each thread is: "idle", "compare", "search", "found"
  kind,           \* cumulativeLeapSecondsForUTC or nextLeapSecondAfter
  utc,            \* its parameter
  idx1, idx2,     \* the bounds of the search
  answer,         \* what the last call returned
  disturbed       \* history: another thread moved the cache during the call

vars == <<cacheLastEvent, pc, kind, utc, idx1, idx2, answer, disturbed>>

Kinds == {"cumulative", "next"}

Init ==
  /\ cacheLastEvent = 0
  /\ pc = [c \in Callers |-> "idle"]
  /\ kind = [c \in Callers |-> "cumulative"]
  /\ utc = [c \in Callers |-> Begins[0]]
  /\ idx1 = [c \in Callers |-> 0] /\ idx2 = [c \in Callers |-> Last]
  /\ answer = [c \in Callers |-> 0]
  /\ disturbed = [c \in Callers |-> FALSE]

\* The event cached is the one before the time.
IsCached(t) == Begins[cacheLastEvent] < t /\ t <= Begins[cacheLastEvent + 1]

\* The result that goes with an event.
Result(k, event) == IF k = "cumulative" THEN event + 1 ELSE Begins[event + 1]

Goto(c, place) == pc' = [pc EXCEPT ![c] = place]

\* The locals go out of scope.
Return(c, result) ==
  /\ answer' = [answer EXCEPT ![c] = result]
  /\ Goto(c, "idle")
  /\ idx1' = [idx1 EXCEPT ![c] = 0] /\ idx2' = [idx2 EXCEPT ![c] = Last]

\* By far the most common case.
AfterLast(c, k, t) ==
  /\ Begins[Last] < t
  /\ Return(c, IF k = "cumulative" THEN Last + 1 ELSE Never)

BeforeFirst(c, k, t) ==
  /\ t <= Begins[0]
  /\ Return(c, IF k = "cumulative" THEN 0 ELSE Begins[0])

\* The cache is looked at: first at the event, then at the one after it.
LookAtCache(c, t) ==
  /\ Begins[0] < t /\ t <= Begins[Last]
  /\ Goto(c, IF Begins[cacheLastEvent] < t THEN "compare" ELSE "search")
  /\ UNCHANGED <<idx1, idx2, answer>>

\* A call, up to where it reads the cache for the first time.
Call(c) ==
  /\ pc[c] = "idle"
  /\ \E k \in Kinds, t \in Times :
       /\ kind' = [kind EXCEPT ![c] = k] /\ utc' = [utc EXCEPT ![c] = t]
       /\ AfterLast(c, k, t) \/ BeforeFirst(c, k, t) \/ LookAtCache(c, t)
  /\ disturbed' = [disturbed EXCEPT ![c] = FALSE]
  /\ UNCHANGED cacheLastEvent

\* nextLeapSecondAfter keeps the event it compares with; the other reads the
\* cache again.
Compare(c) ==
  /\ pc[c] = "compare"
  /\ CASE Begins[cacheLastEvent + 1] < utc[c] ->
             Goto(c, "search") /\ UNCHANGED <<idx1, idx2, answer>>
       [] utc[c] <= Begins[cacheLastEvent + 1] /\ kind[c] = "next" ->
             Return(c, Result("next", cacheLastEvent))
       [] utc[c] <= Begins[cacheLastEvent + 1] /\ kind[c] # "next" ->
             Goto(c, "found") /\ UNCHANGED <<idx1, idx2, answer>>
  /\ UNCHANGED <<cacheLastEvent, kind, utc, disturbed>>

\* Mutant of Halve: the entry at the very time is taken for one before it.
Halve_Inclusive(c) ==
  LET pivot == (idx1[c] + idx2[c]) \div 2
  IN IF Begins[pivot] <= utc[c]
     THEN idx1' = [idx1 EXCEPT ![c] = pivot] /\ UNCHANGED idx2
     ELSE idx2' = [idx2 EXCEPT ![c] = pivot] /\ UNCHANGED idx1

Halve(c) ==
  LET pivot == (idx1[c] + idx2[c]) \div 2
  IN IF Begins[pivot] < utc[c]
     THEN idx1' = [idx1 EXCEPT ![c] = pivot] /\ UNCHANGED idx2
     ELSE idx2' = [idx2 EXCEPT ![c] = pivot] /\ UNCHANGED idx1

\* Mutant of Searching: on to where the bounds meet.
Searching_Further(c) == idx2[c] - idx1[c] >= 1

Searching(c) == idx2[c] - idx1[c] > 1

Search(c) ==
  /\ pc[c] = "search" /\ Searching(c)
  /\ Halve(c)
  /\ UNCHANGED <<cacheLastEvent, pc, kind, utc, answer, disturbed>>

\* The end of findAndCacheEventPriorTo.
Store(c) ==
  /\ pc[c] = "search" /\ ~Searching(c)
  /\ cacheLastEvent' = idx1[c]
  /\ Goto(c, "found")
  /\ disturbed' = [d \in Callers |->
                     d # c /\ (disturbed[d] \/ pc[d] \in {"compare", "found"})]
  /\ UNCHANGED <<kind, utc, idx1, idx2, answer>>

\* The caller looks at the cache again.
Finish(c) ==
  /\ pc[c] = "found"
  /\ Return(c, Result(kind[c], cacheLastEvent))
  /\ UNCHANGED <<cacheLastEvent, kind, utc, disturbed>>

Step(c) == Compare(c) \/ Search(c) \/ Store(c) \/ Finish(c)

Next == \E c \in Callers : Call(c) \/ Step(c)

Spec == Init /\ [][Next]_vars

\* A thread goes on with a call it has begun.
FairSpec == Spec /\ \A c \in Callers : WF_vars(Step(c))

-----------------------------------------------------------------------------
(* Properties. *)

TypeOK ==
  /\ cacheLastEvent \in 0 .. Last - 1
  /\ pc \in [Callers -> {"idle", "compare", "search", "found"}]
  /\ kind \in [Callers -> Kinds]
  /\ utc \in [Callers -> Int]
  /\ idx1 \in [Callers -> 0 .. Last - 1] /\ idx2 \in [Callers -> 1 .. Last]
  /\ answer \in [Callers -> Int]
  /\ disturbed \in [Callers -> BOOLEAN]

IsAnswer(k, t, a) == IF k = "cumulative" THEN IsCumulative(t, a) ELSE IsNext(t, a)

\* Whatever the cache held and however calls follow each other, a call
\* returns what the table says, also at the very second of an event; only a
\* search of another thread that ends in between can spoil it.  (Before its
\* first call a thread has an answer, too: none before the first event.)
AnswersAreRight ==
  \A c \in Callers :
    pc[c] = "idle" /\ ~disturbed[c] => IsAnswer(kind[c], utc[c], answer[c])

\* What is found is the event before the time: the last assertion of
\* findAndCacheEventPriorTo, for a thread that is not disturbed.
FoundIsPrior ==
  \A c \in Callers : pc[c] = "found" /\ ~disturbed[c] => IsCached(utc[c])

\* Every call returns, and so every search ends.
CallsReturn == \A c \in Callers : pc[c] # "idle" ~> pc[c] = "idle"
=============================================================================
