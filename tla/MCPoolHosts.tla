----------------------------- MODULE MCPoolHosts -----------------------------
(***************************************************************************)
(* An instance of PoolHosts for TLC: a host of the user and two levels of  *)
(* pool hosts.                                                             *)
(***************************************************************************)
EXTENDS PoolHosts

CONSTANTS mine, near, far

MCUserHosts == {1}
MCProximity == <<0, 1, 2>>
MCSockets == {mine, near, far}
MCHostOf == [s \in MCSockets |-> CASE s = mine -> 1 [] s = near -> 2 [] s = far -> 3]
=============================================================================
