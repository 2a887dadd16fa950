----------------------------- MODULE MCLeapSecond -----------------------------
(***************************************************************************)
(* An instance of LeapSecond for TLC: five entries, so that a search takes *)
(* up to three steps, times before, at and after each of them, and two    *)
(* threads.                                                                *)
(***************************************************************************)
EXTENDS LeapSecond

MCBegins == [i \in 0 .. 4 |-> 2 * i]
MCTimes == {0, 2, 3, 5, 6, 8, 9}
=============================================================================
