------------------------------ MODULE MCWatchTime ------------------------------
(***************************************************************************)
(* An instance of WatchTime for TLC: days of four hours, each of six       *)
(* seconds; a zone west and one east of Greenwich that both change to      *)
(* summer time on day 84 and back on day 300; watches set near a change,   *)
(* the end of a month and the end of a year.                               *)
(***************************************************************************)
EXTENDS WatchTime

\* A zone whose clock is set forward at a local standard time, and back at the
\* same.
Zone(raw, timeOfDay) ==
  [raw |-> raw,
   changes |-> {[at |-> 84 * 24 + timeOfDay - raw, offset |-> raw + 6],
                [at |-> 300 * 24 + timeOfDay - raw, offset |-> raw]}]

MCZones == {Zone(-12, 6), Zone(6, 6)}
MCEarliest == -28000
MCStarts == {83 * 24 + 8, 29 * 24 + 3, 364 * 24 + 23}
MCCycles ==
  <<"ReverseFF6", "ReverseFF5", "Reverse", "ReverseSlow1", "Slow1",
    "Normal", "FF1", "FF2", "FF5", "FF6">>
MCWarps == <<-10, -7, -4, -1, 1, 4, 5, 6, 7, 10>>
=============================================================================
