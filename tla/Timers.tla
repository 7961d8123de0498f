------------------------------- MODULE Timers --------------------------------
(***************************************************************************)
(* setTimeout, setInterval and cancellation (AsyncApi.cpp) on the loops of *)
(* the main thread and of the workers.  g_timers is one process-wide map,  *)
(* while every thread has a Scheduler, a uv loop and a queue of its own,   *)
(* so the has_pending predicate of one loop looks at the timers of all.    *)
(*                                                                         *)
(* Of the Scheduler only what EventLoop promises is kept: a FIFO of        *)
(* macrotasks per loop, the two ways out of run_until_idle (idle, or told  *)
(* to stop), and uv_run blocking until a wake-up or a timer; then the      *)
(* scheduler's destructor, which runs the uv loop for as long as a handle  *)
(* of it is active.  The thread fallback of create_timer is left out:      *)
(* every thread that evaluates code has a Scheduler.  uv_timer_init cannot *)
(* fail.                                                                   *)
(***************************************************************************)
EXTENDS Naturals, Sequences, FiniteSets

CONSTANTS Loops,         \* event loops: the main thread's and the workers'
          Main,          \* the main thread's
          Timers,        \* TimerEntry identities; each is created once
          Intervals,     \* the Timers with interval_ms > 0
          OtherHandles,  \* may code open a server or another uv handle?
          MaxJobs,       \* a loop's queue may grow this long, and by a call of
                         \* each timer
          Nowhere        \* the owner of a timer not created yet

ASSUME TimersAssumption ==
  /\ Main \in Loops /\ Intervals \subseteq Timers
  /\ OtherHandles \in BOOLEAN /\ MaxJobs \in Nat
  /\ Nowhere \notin Loops

VARIABLES entry,      \* the timers registered in g_timers
          cancelled,  \* TimerEntry::cancelled
          handle,     \* TimerEntry::uv_handle: "null", "live" (a running
                      \* uv_timer_t), "spent" (open, run out) or "freed"
                      \* (given to uv_close)
          owner,      \* the loop whose thread called create_timer
          ticks,      \* tick_count, saturating at 2
          jobs,       \* per loop: macrotasks [do, timer]
          at,         \* per loop: where its thread is
          wake,       \* per loop: uv_async_send pending
          other,      \* per loop: another handle of it is active
          stop        \* per loop: Scheduler::should_stop

vars == <<entry, cancelled, handle, owner, ticks, jobs, at, wake, other, stop>>

\* "code": a script or a macrotask; "head": the test of should_stop; "callback":
\* code called from a uv callback of the poll phase; "turn": uv_run's timers
\* phase, which follows it; "teardown": run_until_idle has returned, the
\* evaluator goes and its scheduler runs the uv loop out; "late": code called
\* from a uv callback there.
Places == {"code", "head", "loop", "poll", "callback", "turn", "teardown", "late", "done"}
InCode(l) == at[l] \in {"code", "callback", "late"}
Left(l) == at[l] \in {"teardown", "late", "done"}

Job == [do : {"start", "close", "call"}, timer : Timers]

Init ==
  /\ entry = {} /\ cancelled = {}
  /\ handle = [t \in Timers |-> "null"]
  /\ owner = [t \in Timers |-> Nowhere]
  /\ ticks = [t \in Timers |-> 0]
  /\ jobs = [l \in Loops |-> <<>>]
  /\ at = [l \in Loops |-> "code"]
  /\ wake = [l \in Loops |-> FALSE]
  /\ other = [l \in Loops |-> FALSE]
  /\ stop = [l \in Loops |-> FALSE]

Queued(l, what, t) == \E i \in DOMAIN jobs[l] : jobs[l][i] = [do |-> what, timer |-> t]

\* scheduler_run_on_loop: despite its name, the loop of the calling thread.  In
\* teardown too the queue takes what nobody will run.
RunOnLoop(l, what, t) ==
  /\ Len(jobs[l]) < MaxJobs \/ (what = "call" /\ ~Queued(l, "call", t))
  /\ jobs' = [jobs EXCEPT ![l] = Append(@, [do |-> what, timer |-> t])]
  /\ wake' = [wake EXCEPT ![l] = TRUE]

\* run_one: the loop takes its oldest macrotask, which is of the given kind.
TakeJob(l, what, t) ==
  /\ at[l] = "loop" /\ jobs[l] # <<>>
  /\ Head(jobs[l]) = [do |-> what, timer |-> t]
  /\ jobs' = [jobs EXCEPT ![l] = Tail(@)]
  /\ at' = [at EXCEPT ![l] = IF what = "call" THEN "code" ELSE "head"]

------------------------------------------------------------------------------
(* Code: a script or a timer's callback.                                    *)

CreateTimer(l, t) ==
  /\ InCode(l) /\ owner[t] = Nowhere
  /\ owner' = [owner EXCEPT ![t] = l]
  /\ entry' = entry \cup {t}
  /\ RunOnLoop(l, "start", t)
  /\ UNCHANGED <<cancelled, handle, ticks, at, other, stop>>

\* Code cancels timers of its own thread (an id could be sent to another).
MayCancel(l, t) == InCode(l) /\ t \in entry /\ owner[t] = l

\* cancel_timer of a timer that has no uv handle yet ...
CancelEarly(l, t) ==
  /\ MayCancel(l, t) /\ handle[t] = "null"
  /\ cancelled' = cancelled \cup {t}
  /\ entry' = entry \ {t}
  /\ UNCHANGED <<handle, owner, ticks, jobs, at, wake, other, stop>>

\* Mutant: the flag is left to the close lambda.
CancelNoFlag(l, t) ==
  /\ MayCancel(l, t) /\ handle[t] # "null"
  /\ RunOnLoop(l, "close", t)
  /\ UNCHANGED <<entry, cancelled, handle, owner, ticks, at, other, stop>>

\* Mutant: the loop is left to observe the flag.
CancelFlagOnly(l, t) ==
  /\ MayCancel(l, t) /\ handle[t] # "null"
  /\ cancelled' = cancelled \cup {t}
  /\ UNCHANGED <<entry, handle, owner, ticks, jobs, at, wake, other, stop>>

\* ... and of one that has.  It may be called again before the lambda runs.
CancelStarted(l, t) ==
  /\ MayCancel(l, t) /\ handle[t] # "null"
  /\ cancelled' = cancelled \cup {t}
  /\ RunOnLoop(l, "close", t)
  /\ UNCHANGED <<entry, handle, owner, ticks, at, other, stop>>

OpenOther(l) ==
  /\ InCode(l) /\ OtherHandles /\ ~other[l]
  /\ other' = [other EXCEPT ![l] = TRUE]
  /\ UNCHANGED <<entry, cancelled, handle, owner, ticks, jobs, at, wake, stop>>

CloseOther(l) ==
  /\ InCode(l) /\ other[l]
  /\ other' = [other EXCEPT ![l] = FALSE]
  /\ UNCHANGED <<entry, cancelled, handle, owner, ticks, jobs, at, wake, stop>>

\* A worker is told to stop, by code of main or by its own; the loop observes
\* it when it tests the flag next.
Terminate(w) ==
  /\ w # Main /\ (InCode(Main) \/ InCode(w))
  /\ ~stop[w] /\ ~Left(w)
  /\ stop' = [stop EXCEPT ![w] = TRUE]
  /\ wake' = [wake EXCEPT ![w] = TRUE]
  /\ UNCHANGED <<entry, cancelled, handle, owner, ticks, jobs, at, other>>

Return(l) ==
  /\ InCode(l)
  /\ at' = [at EXCEPT ![l] = CASE @ = "code" -> "head"
                               [] @ = "callback" -> "turn"
                               [] @ = "late" -> "teardown"]
  /\ UNCHANGED <<entry, cancelled, handle, owner, ticks, jobs, wake, other, stop>>

------------------------------------------------------------------------------
(* Macrotasks.                                                              *)

StartTimer(l, t) ==
  /\ TakeJob(l, "start", t)
  /\ IF t \in cancelled
     THEN entry' = entry \ {t} /\ UNCHANGED handle
     ELSE handle' = [handle EXCEPT ![t] = "live"] /\ UNCHANGED entry
  /\ UNCHANGED <<cancelled, owner, ticks, wake, other, stop>>

\* Mutant: the handle is left in a state nobody knows.
CloseHalfway(l, t) ==
  /\ TakeJob(l, "close", t)
  /\ handle' = [handle EXCEPT ![t] = "closing"]
  /\ entry' = entry \ {t}
  /\ UNCHANGED <<cancelled, owner, ticks, wake, other, stop>>

CloseTimer(l, t) ==
  /\ TakeJob(l, "close", t)
  /\ handle' = [handle EXCEPT ![t] = "null"]
  /\ entry' = entry \ {t}
  /\ UNCHANGED <<cancelled, owner, ticks, wake, other, stop>>

RunCallback(l, t) ==
  /\ TakeJob(l, "call", t)
  /\ UNCHANGED <<entry, cancelled, handle, owner, ticks, wake, other, stop>>

------------------------------------------------------------------------------
(* run_until_idle and uv_run.                                               *)

\* worker_threads_exist: main waits for the workers, a worker for nobody.
HasPending(l) ==
  entry # {} \/ (l = Main /\ \E w \in Loops \ {Main} : at[w] # "done")

Armed(l) == {t \in Timers : owner[t] = l /\ handle[t] = "live"}

\* Mutant: the predicate is not consulted and a queued job is overlooked.
IdleHandlesOnly(l) == Armed(l) = {} /\ ~other[l]

Idle(l) == jobs[l] = <<>> /\ Armed(l) = {} /\ ~other[l] /\ ~HasPending(l)

TestStop(l) ==
  /\ at[l] = "head"
  /\ at' = [at EXCEPT ![l] = IF stop[l] THEN "teardown" ELSE "loop"]
  /\ UNCHANGED <<entry, cancelled, handle, owner, ticks, jobs, wake, other, stop>>

BlockLoop(l) ==
  /\ at[l] = "loop" /\ jobs[l] = <<>> /\ ~Idle(l)
  /\ at' = [at EXCEPT ![l] = "poll"]
  /\ UNCHANGED <<entry, cancelled, handle, owner, ticks, jobs, wake, other, stop>>

ReturnFromLoop(l) ==
  /\ at[l] = "loop" /\ Idle(l)
  /\ at' = [at EXCEPT ![l] = "teardown"]
  /\ UNCHANGED <<entry, cancelled, handle, owner, ticks, jobs, wake, other, stop>>

\* The destructor's uv_run returns when no handle is active.  A worker's end is
\* then announced to main with a macrotask, hence a wake-up.
EndTeardown(l) ==
  /\ at[l] = "teardown" /\ Armed(l) = {} /\ ~other[l]
  /\ at' = [at EXCEPT ![l] = "done"]
  /\ wake' = [wake EXCEPT ![Main] = TRUE]
  /\ UNCHANGED <<entry, cancelled, handle, owner, ticks, jobs, other, stop>>

WakeUp(l) ==
  /\ at[l] = "poll" /\ wake[l]
  /\ at' = [at EXCEPT ![l] = "turn"]
  /\ wake' = [wake EXCEPT ![l] = FALSE]
  /\ UNCHANGED <<entry, cancelled, handle, owner, ticks, jobs, other, stop>>

\* A uv callback that calls user code, as an HTTP request's does.
OtherEvent(l) ==
  /\ at[l] \in {"poll", "teardown"} /\ other[l]
  /\ at' = [at EXCEPT ![l] = IF @ = "poll" THEN "callback" ELSE "late"]
  /\ UNCHANGED <<entry, cancelled, handle, owner, ticks, jobs, wake, other, stop>>

\* uv_timer_callback: several timers may be due in one turn of uv_run.
Due(l, t) ==
  /\ at[l] \in {"poll", "turn", "teardown"} /\ t \in Armed(l)
  /\ at' = [at EXCEPT ![l] = IF @ = "teardown" THEN @ ELSE "turn"]

\* Nothing is done for a cancelled timer; one that does not repeat has run out.
FireCancelled(l, t) ==
  /\ Due(l, t) /\ t \in cancelled
  /\ handle' = [handle EXCEPT ![t] = IF t \in Intervals THEN @ ELSE "spent"]
  /\ UNCHANGED <<entry, cancelled, owner, ticks, jobs, wake, other, stop>>

FireInterval(l, t) ==
  /\ Due(l, t) /\ t \notin cancelled /\ t \in Intervals
  /\ ticks' = [ticks EXCEPT ![t] = IF @ = 2 THEN 2 ELSE @ + 1]
  /\ RunOnLoop(l, "call", t)
  /\ UNCHANGED <<entry, cancelled, handle, owner, other, stop>>

\* Mutant: an expired timeout is treated like an interval.
FireKeepsHandle(l, t) ==
  /\ Due(l, t) /\ t \notin cancelled /\ t \notin Intervals
  /\ ticks' = [ticks EXCEPT ![t] = IF @ = 2 THEN 2 ELSE @ + 1]
  /\ RunOnLoop(l, "call", t)
  /\ UNCHANGED <<entry, cancelled, handle, owner, other, stop>>

\* uv_handle is left pointing at the closed handle.
FireTimeout(l, t) ==
  /\ Due(l, t) /\ t \notin cancelled /\ t \notin Intervals
  /\ ticks' = [ticks EXCEPT ![t] = IF @ = 2 THEN 2 ELSE @ + 1]
  /\ RunOnLoop(l, "call", t)
  /\ handle' = [handle EXCEPT ![t] = "freed"]
  /\ entry' = entry \ {t}
  /\ UNCHANGED <<cancelled, owner, other, stop>>

EndTurn(l) ==
  /\ at[l] = "turn"
  /\ at' = [at EXCEPT ![l] = "head"]
  /\ UNCHANGED <<entry, cancelled, handle, owner, ticks, jobs, wake, other, stop>>

\* The process has ended.
AllDone == (\A l \in Loops : at[l] = "done") /\ UNCHANGED vars

------------------------------------------------------------------------------
OnTimer(l, t) ==
  \/ CreateTimer(l, t) \/ CancelEarly(l, t) \/ CancelStarted(l, t)
  \/ StartTimer(l, t) \/ CloseTimer(l, t) \/ RunCallback(l, t)
  \/ FireCancelled(l, t) \/ FireInterval(l, t) \/ FireTimeout(l, t)

OnLoop(l) ==
  \/ OpenOther(l) \/ CloseOther(l) \/ OtherEvent(l) \/ Terminate(l)
  \/ Return(l) \/ TestStop(l) \/ BlockLoop(l) \/ ReturnFromLoop(l)
  \/ WakeUp(l) \/ EndTurn(l) \/ EndTeardown(l)

Next ==
  \/ \E l \in Loops : OnLoop(l) \/ \E t \in Timers : OnTimer(l, t)
  \/ AllDone

Spec == Init /\ [][Next]_vars

\* What a thread does once it is scheduled: code returns, the loop goes on.
ThreadRuns(l) ==
  \/ Return(l) \/ TestStop(l) \/ BlockLoop(l) \/ ReturnFromLoop(l)
  \/ WakeUp(l) \/ EndTurn(l) \/ EndTeardown(l)
  \/ \E t \in Timers : StartTimer(l, t) \/ CloseTimer(l, t) \/ RunCallback(l, t)
Expires(t) ==
  \E l \in Loops : FireCancelled(l, t) \/ FireInterval(l, t) \/ FireTimeout(l, t)

\* Threads are scheduled, and an armed timer is due sooner or later, while its
\* loop is polling or run out.
Fairness ==
  /\ \A l \in Loops : WF_vars(ThreadRuns(l))
  /\ \A t \in Timers : SF_vars(Expires(t))

FairSpec == Spec /\ Fairness

------------------------------------------------------------------------------
TypeOK ==
  /\ entry \subseteq Timers /\ cancelled \subseteq Timers
  /\ handle \in [Timers -> {"null", "live", "spent", "freed"}]
  /\ owner \in [Timers -> Loops \cup {Nowhere}]
  /\ ticks \in [Timers -> 0..2]
  /\ jobs \in [Loops -> Seq(Job)]
  /\ at \in [Loops -> Places]
  /\ wake \in [Loops -> BOOLEAN] /\ other \in [Loops -> BOOLEAN]
  /\ stop \in [Loops -> BOOLEAN]

\* No handle is closed twice: when a close lambda is queued, uv_handle does
\* not point at a handle that the timer's expiration has already closed.
NoDoubleClose ==
  \A l \in Loops, t \in Timers : Queued(l, "close", t) => handle[t] # "freed"

\* uv_timer_callback dereferences the TimerEntry through a raw pointer: as
\* long as the uv handle is open, g_timers still owns the entry.
EntryOutlivesHandle ==
  \A t \in Timers : handle[t] \in {"live", "spent"} => t \in entry

\* Handle and entry go together: a handle is closed once, by the one who owns
\* it, and its entry lives as long as the handle may call back.
HandlesAreOwned == NoDoubleClose /\ EntryOutlivesHandle

\* A thread that has ended leaves no running timer.  One whose loop was idle
\* leaves no entry either; one that was told to stop (Scheduler.cpp:152) leaves
\* only entries whose start or close lambda it never took from its queue,
\* and g_timers keeps those for good.
NothingLeftBehind ==
  \A l \in Loops : at[l] = "done" =>
    \A t \in Timers : owner[t] = l =>
      /\ handle[t] # "live"
      /\ t \in entry => stop[l] /\ (Queued(l, "start", t) \/ Queued(l, "close", t))

\* The timers implement their contract.
CallsOwed(t) ==
  Cardinality({c \in UNION {{<<l, i>> : i \in DOMAIN jobs[l]} : l \in Loops} :
                 jobs[c[1]][c[2]] = [do |-> "call", timer |-> t]})

TC == INSTANCE TimerContract WITH
  status <- [t \in Timers |->
               CASE owner[t] = Nowhere -> "unused"
                 [] t \in entry \ cancelled -> "pending"
                 [] OTHER -> "over"],
  owed <- [t \in Timers |-> CallsOwed(t)]

ImplementsContract == TC!AbsSpec

\* The lambda of a timer that its loop was stopped before taking.
Abandoned(t, what) == \E l \in Loops : Left(l) /\ Queued(l, what, t)

\* A timer that nobody cancels expires, also when its loop is told to stop,
\* unless its start lambda is abandoned.
EveryTimerExpires ==
  \A t \in Timers :
    (t \in entry) ~> (ticks[t] > 0 \/ t \in cancelled \/ Abandoned(t, "start"))

\* A cancelled timer lets go of the loop: its entry is erased, unless the close
\* lambda is abandoned.
CancelReleases ==
  \A t \in Timers : (t \in cancelled) ~> (t \notin entry \/ Abandoned(t, "close"))

\* Every timer comes to one of its ends.
EveryTimerEnds == EveryTimerExpires /\ CancelReleases

\* What AsyncApi.cpp:78-80 says of the predicate: a scheduler remains running
\* until timers complete. So when no thread has a timer, a task, another handle
\* or code that runs, the threads end, unless one of them gets more to do.
NothingToDo ==
  /\ entry = {}
  /\ \A l \in Loops : ~InCode(l) /\ jobs[l] = <<>> /\ ~other[l]
LoopsEndWithTimers ==
  NothingToDo ~> (~NothingToDo \/ \A l \in Loops : at[l] = "done")
==============================================================================
