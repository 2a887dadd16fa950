------------------------------ MODULE MCESTimer ------------------------------
(***************************************************************************)
(* Instances of ESTimer for TLC: timers of two threads, one of which       *)
(* repeats, one with an absolute time.                                     *)
(***************************************************************************)
EXTENDS ESTimer

CONSTANTS t1, t2, ui, driver

MCTimers  == {t1, t2}
MCThreads == {ui, driver}

MCThreadOf == [t \in Timers |-> IF t = t1 THEN ui ELSE driver]

\* t1 is activated late and repeats: it is put back in front of t2 and behind
\* it.  t1 has even fire times and t2 odd ones, whatever the skew.
MCAtTime == [t \in Timers |-> IF t = t1 THEN -2 ELSE 1]
MCRepeat == [t \in Timers |-> IF t = t1 THEN 2 ELSE 0]

\* The same fire time, and nothing repeats.
SameTime == [t \in Timers |-> 1]
NoRepeat == [t \in Timers |-> 0]

NoSkew  == {0}
MCSkews == {0, 2}
=============================================================================
