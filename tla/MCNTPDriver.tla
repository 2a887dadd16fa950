----------------------------- MODULE MCNTPDriver -----------------------------
(***************************************************************************)
(* Instances of NTPDriver for TLC: four offsets, so that a packet can be   *)
(* good enough alone, good enough only together with another one, or       *)
(* contradict another one.                                                 *)
(***************************************************************************)
EXTENDS NTPDriver

MCOffsets == 0 .. 3

\* 1e9: larger than any doubled skew or error of the offsets.
MCUnknown == 10

\* Every call but those of polling mode.
DriverCalls == Calls \ {"pollRestart", "pollStop"}

\* Calls that never stop a sync for good.
StartingCalls == {"resync", "resyncUser", "countryCode"}

PollingCalls == {"resync", "resyncUser", "stopIfNecessary", "pollRestart", "pollStop"}
=============================================================================
