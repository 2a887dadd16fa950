------------------------------ MODULE LeapTable ------------------------------
(***************************************************************************)
(* The table of leap seconds (ESLeapSecond.cpp) and what is asked of it.   *)
(* How the answers are found, with the cache that all threads share, is in *)
(* LeapSecond.                                                             *)
(***************************************************************************)
EXTENDS Integers

CONSTANTS
  Last,     \* index of the last entry, ESNumberOfLeapSecondEntries - 1
  Begins,   \* beginningOfChange of the entries, each the insertion of a second
  Never     \* ESFarFarInTheFuture

Entries == 0 .. Last

ASSUME TableAssumption ==
  /\ Last \in Nat \ {0}
  /\ Begins \in [Entries -> Int]
  /\ \A i, j \in Entries : i < j => Begins[i] < Begins[j]
  /\ Never \in Int /\ \A i \in Entries : Begins[i] < Never

\* n leap seconds have been inserted before utc.
IsCumulative(utc, n) ==
  /\ n \in 0 .. Last + 1
  /\ \A i \in Entries : i < n <=> Begins[i] < utc

\* date is that of the first leap second not before utc, if there is one.
IsNext(utc, date) ==
  /\ \A i \in Entries : utc <= Begins[i] => date <= Begins[i]
  /\ \/ \E i \in Entries : date = Begins[i] /\ utc <= Begins[i]
     \/ date = Never /\ \A i \in Entries : Begins[i] < utc

CumulativeLeapSecondsForUTC(utc) == CHOOSE n \in 0 .. Last + 1 : IsCumulative(utc, n)
NextLeapSecondAfter(utc) ==
  CHOOSE date \in {Begins[i] : i \in Entries} \cup {Never} : IsNext(utc, date)

LeapSecondsDuringInterval(utc1, utc2) ==
  CumulativeLeapSecondsForUTC(utc2) - CumulativeLeapSecondsForUTC(utc1)
=============================================================================
