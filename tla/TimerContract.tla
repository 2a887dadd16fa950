---------------------------- MODULE TimerContract ----------------------------
(***************************************************************************)
(* What ESTimer promises to the code that uses timers (ESTimer.hpp): a     *)
(* timer notifies its observer between activate() and release(), once      *)
(* unless it repeats, never after release(); and it is deleted only after  *)
(* release(), once.                                                        *)
(***************************************************************************)
EXTENDS Naturals

CONSTANTS
  Timers,     \* the timers of the program
  Repeating   \* those that notify again and again

VARIABLES
  state,      \* where each timer is in its life
  notified    \* how often its observer has been notified

contractVars == <<state, notified>>

Init ==
  /\ state = [t \in Timers |-> "new"]
  /\ notified = [t \in Timers |-> 0]

Activate(t) ==
  /\ state[t] = "new"
  /\ state' = [state EXCEPT ![t] = "active"]
  /\ UNCHANGED notified

Notify(t) ==
  /\ state[t] = "active"
  /\ t \notin Repeating => notified[t] = 0
  /\ notified' = [notified EXCEPT ![t] = @ + 1]
  /\ UNCHANGED state

Release(t) ==
  /\ state[t] \in {"new", "active"}
  /\ state' = [state EXCEPT ![t] = "released"]
  /\ UNCHANGED notified

Delete(t) ==
  /\ state[t] = "released"
  /\ state' = [state EXCEPT ![t] = "deleted"]
  /\ UNCHANGED notified

Next == \E t \in Timers : Activate(t) \/ Notify(t) \/ Release(t) \/ Delete(t)

SafeSpec == Init /\ [][Next]_contractVars

\* A released timer does not stay around.
Spec == SafeSpec /\ \A t \in Timers : WF_contractVars(Delete(t))
=============================================================================
