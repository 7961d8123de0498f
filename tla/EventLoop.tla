------------------------------ MODULE EventLoop ------------------------------
(***************************************************************************)
(* What the event loop promises the rest of the runtime, without locks or  *)
(* wake-ups: continuations are owed in two first-in first-out classes; a   *)
(* macrotask never starts while a microtask of the loop's own code is      *)
(* owed; the loop may finish on its own only when nothing is owed and no   *)
(* source of further work is left, and after that neither its own code nor *)
(* a live source posts.  Scheduler implements this specification.          *)
(***************************************************************************)
EXTENDS Sequences

CONSTANTS Tasks,    \* identities of continuations, each posted at most once
          Sources   \* things that can still produce work: handles, threads

VARIABLES owedMicro,    \* microtasks posted and not yet started
          owedMacro,    \* macrotasks posted and not yet started
          by,           \* who posted each
          live,         \* the Sources that the loop waits for
          stopped,      \* somebody asked the loop to stop
          finished      \* run_until_idle has returned

absVars == <<owedMicro, owedMacro, by, live, stopped, finished>>

AbsInit ==
  /\ owedMicro = <<>> /\ owedMacro = <<>>
  /\ by = [t \in Tasks |-> "none"]
  /\ live = {} /\ stopped = FALSE
  /\ finished = FALSE

\* A continuation is posted by the loop's own code, which runs only while the
\* loop does; by a source that it waits for; or by a stray thread, at any time.
Post(t) ==
  /\ by[t] = "none"
  /\ \/ by' = [by EXCEPT ![t] = "loop"] /\ ~finished
     \/ by' = [by EXCEPT ![t] = "counted"] /\ live # {}
     \/ by' = [by EXCEPT ![t] = "stray"]
  /\ UNCHANGED <<live, stopped, finished>>

\* It becomes owed, in the class it was posted to.
PostMicro(t) == Post(t) /\ owedMicro' = Append(owedMicro, t) /\ UNCHANGED owedMacro
PostMacro(t) == Post(t) /\ owedMacro' = Append(owedMacro, t) /\ UNCHANGED owedMicro

\* The oldest microtask starts.
StartMicro ==
  /\ ~finished /\ owedMicro # <<>>
  /\ owedMicro' = Tail(owedMicro)
  /\ UNCHANGED <<owedMacro, by, live, stopped, finished>>

\* The oldest macrotask starts: only when no microtask of the loop is owed.
StartMacro ==
  /\ ~finished /\ owedMacro # <<>>
  /\ \A i \in DOMAIN owedMicro : by[owedMicro[i]] = "stray"
  /\ owedMacro' = Tail(owedMacro)
  /\ UNCHANGED <<owedMicro, by, live, stopped, finished>>

\* The set of live sources changes; a finished loop gets no new ones.
Sourcing(S) ==
  /\ finished => S \subseteq live
  /\ live' = S
  /\ UNCHANGED <<owedMicro, owedMacro, by, stopped, finished>>

AskStop ==
  /\ ~stopped /\ stopped' = TRUE
  /\ UNCHANGED <<owedMicro, owedMacro, by, live, finished>>

\* The loop returns: asked to stop, or truly idle.
Finish ==
  /\ ~finished
  /\ stopped \/ (owedMicro = <<>> /\ owedMacro = <<>> /\ live = {})
  /\ finished' = TRUE
  /\ UNCHANGED <<owedMicro, owedMacro, by, live, stopped>>

\* The REPL evaluates another line and enters the loop again.
Resume ==
  /\ finished /\ finished' = FALSE
  /\ UNCHANGED <<owedMicro, owedMacro, by, live, stopped>>

AbsNext ==
  \/ \E t \in Tasks : PostMicro(t) \/ PostMacro(t)
  \/ StartMicro \/ StartMacro
  \/ \E S \in SUBSET Sources : Sourcing(S)
  \/ AskStop \/ Finish \/ Resume

AbsSpec == AbsInit /\ [][AbsNext]_absVars
==============================================================================
