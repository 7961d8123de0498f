---------------------------- MODULE TimerContract ----------------------------
(***************************************************************************)
(* What setTimeout, setInterval and their cancellation promise a program:  *)
(* a timer is scheduled once; a timeout expires at most once, an interval  *)
(* as often as it likes; after cancel() it never expires again, though a   *)
(* callback that was already owed still runs.  Timers implements this.     *)
(***************************************************************************)
EXTENDS Naturals

CONSTANTS Timers,     \* timers a program may create
          Intervals   \* those with a positive repeat

VARIABLES status,  \* "unused", "pending" or "over"
          owed     \* expirations whose callback has not started

absVars == <<status, owed>>

AbsInit ==
  /\ status = [t \in Timers |-> "unused"]
  /\ owed = [t \in Timers |-> 0]

Schedule(t) ==
  /\ status[t] = "unused"
  /\ status' = [status EXCEPT ![t] = "pending"]
  /\ UNCHANGED owed

Expire(t) ==
  /\ status[t] = "pending"
  /\ owed' = [owed EXCEPT ![t] = @ + 1]
  /\ status' = IF t \in Intervals THEN status
                                  ELSE [status EXCEPT ![t] = "over"]

Cancel(t) ==
  /\ status[t] = "pending"
  /\ status' = [status EXCEPT ![t] = "over"]
  /\ UNCHANGED owed

Call(t) ==
  /\ owed[t] > 0
  /\ owed' = [owed EXCEPT ![t] = @ - 1]
  /\ UNCHANGED status

AbsNext == \E t \in Timers : Schedule(t) \/ Expire(t) \/ Cancel(t) \/ Call(t)

AbsSpec == AbsInit /\ [][AbsNext]_absVars
==============================================================================
