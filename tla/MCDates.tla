-------------------------------- MODULE MCDates -------------------------------
(***************************************************************************)
(* An instance of Dates for TLC: the years around the change of the     *)
(* era, a leap year far before it, the reform, centuries with and without  *)
(* a leap year, and some years of every weekday.                           *)
(***************************************************************************)
EXTENDS Dates

Around(day, years) == <<day - 366 * years, day + 366 * years>>

MCPeriods ==
  { Around(-730900, 6),      \* 1 BCE and 1 CE
    Around(-2191000, 1),     \* 4000 BCE
    Around(Switchover, 6),
    Around(-109800, 1),      \* 1700
    Around(-36800, 1),       \* 1900
    Around(0, 14) }
MCSteps == {-13, -1, 1, 4, 12}
=============================================================================
