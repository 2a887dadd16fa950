----------------------------- MODULE MCTimeSource -----------------------------
(***************************************************************************)
(* An instance of TimeSource for TLC: two leap seconds far enough apart    *)
(* for the second after the first to be over, a second of three ticks, and *)
(* an observer of each kind.                                               *)
(***************************************************************************)
EXTENDS TimeSource, TLC

MCBegins == 0 :> 5 @@ 1 :> 12
MCObservers == <<"timers", "application">>
=============================================================================
