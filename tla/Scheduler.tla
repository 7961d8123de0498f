------------------------------ MODULE Scheduler ------------------------------
(***************************************************************************)
(* The event loop of src/src/evaluator/Async/Scheduler.cpp: two locked     *)
(* queues, a libuv loop with an async wake-up handle, run_until_idle on    *)
(* the loop thread, and other threads that hold the Scheduler pointer and  *)
(* call enqueue_microtask, enqueue_macrotask and stop.                     *)
(*                                                                         *)
(* The loop thread is a program counter; a queue push and the wake-up that *)
(* follows it are two steps of the pushing thread, because the queue's     *)
(* mutex is released between them (Scheduler.cpp:68-85).  A thread of the  *)
(* loop ceases to be counted by has_pending in silence: a worker's thread  *)
(* posts the exit event after that (worker.cc:180-186), and the thread of  *)
(* a fetch settles its promise, which may post or not (builtins.cpp:662).  *)
(* g_tick_callback is left out: nothing in the repository registers one.   *)
(***************************************************************************)
EXTENDS Naturals, Sequences, FiniteSets

CONSTANTS Tasks,     \* continuations; each is enqueued at most once
          Workers,   \* threads of workers, and the tasks of their exit events
          Fetches,   \* detached threads of http.fetch
          Parents,   \* threads that own a worker's loop: they only push and stop
          Handles,   \* libuv handles of the loop other than the wake-up
          MaxRuns    \* how often evaluate() enters the loop (REPL lines)

Counted == Workers \cup Fetches   \* the threads that has_pending may count
Others == Counted \cup Parents
Conts == Tasks \cup Workers

ASSUME SchedulerAssumption ==
  /\ MaxRuns \in Nat
  /\ Others \cap Handles = {} /\ Workers \cap Tasks = {}
  /\ Workers \cap Fetches = {} /\ Counted \cap Parents = {}

VARIABLES micro, macro,  \* microtasks, macrotasks: the two deques
          wake,          \* uv_async_send is pending on async_handle_
          stop,          \* should_stop
          active,        \* the Handles that uv_is_active reports
          th,            \* where each counted thread is
          sending,       \* threads past a push (or a store) but not past
                         \* the uv_async_send that follows it
          pc,            \* where the loop thread is
          runs,          \* calls of run_until_idle so far
          from,          \* who enqueued each continuation (history)
          unseen         \* fetches that ended since has_pending was last asked
                         \* (history)

sched == <<micro, macro, wake, stop, active, th, sending>>
vars == <<sched, pc, runs, from, unseen>>

\* The loop thread is about to ...
\*   script: run the program's synchronous part   head: test should_stop
\*   drain: take the next microtask               inMicro: run a microtask
\*   pop: take a macrotask                        inMacro: run a macrotask
\*   idle: take both locks and look               poll: block in uv_run
\*   event: run a uv callback                     exited: it has returned
Pcs == {"script", "head", "drain", "inMicro", "pop", "inMacro",
        "idle", "poll", "event", "exited"}

\* Places where the loop thread executes code that may use the Scheduler.
InCode == pc \in {"script", "inMicro", "inMacro", "event"}

\* A thread is not started, counted by has_pending, or past giving its count
\* back; a worker's is also past its exit event.
Places == {"none", "counted", "leaving", "ended"}
running == {p \in Counted : th[p] = "counted"}

\* Nobody so far, the loop's own code, a thread it counts, or one it does not.
Origins == {"none", "loop", "counted", "stray"}
From(p) == IF p \in running THEN "counted" ELSE "stray"
Posted(t, o) == from[t] = "none" /\ from' = [from EXCEPT ![t] = o]

Init ==
  /\ micro = <<>> /\ macro = <<>>
  /\ wake = FALSE /\ stop = FALSE
  /\ active = {} /\ th = [p \in Counted |-> "none"] /\ sending = {}
  /\ pc = "script" /\ runs = 0
  /\ from = [t \in Conts |-> "none"] /\ unseen = {}

Goto(a, b) == pc = a /\ pc' = b

------------------------------------------------------------------------------
(* Code on the loop thread: the script, a task or a uv callback.           *)

\* Its push and uv_async_send can be one step: the loop thread itself is
\* not polling meanwhile, and wake only ever matters to a polling loop.
EnqueueMicrotask(t) ==
  /\ InCode /\ Posted(t, "loop")
  /\ micro' = Append(micro, t) /\ wake' = TRUE
  /\ UNCHANGED <<macro, stop, active, th, sending, pc, runs, unseen>>

EnqueueMacrotask(t) ==
  /\ InCode /\ Posted(t, "loop")
  /\ macro' = Append(macro, t) /\ wake' = TRUE
  /\ UNCHANGED <<micro, stop, active, th, sending, pc, runs, unseen>>

StartHandle(h) ==
  /\ InCode /\ h \notin active
  /\ active' = active \cup {h}
  /\ UNCHANGED <<micro, macro, wake, stop, th, sending, pc, runs, from, unseen>>

CloseHandle(h) ==
  /\ InCode /\ h \in active
  /\ active' = active \ {h}
  /\ UNCHANGED <<micro, macro, wake, stop, th, sending, pc, runs, from, unseen>>

\* new Worker, http.fetch: the count is raised before the thread starts.
SpawnThread(p) ==
  /\ InCode /\ th[p] = "none"
  /\ th' = [th EXCEPT ![p] = "counted"]
  /\ UNCHANGED <<micro, macro, wake, stop, active, sending, pc, runs, from, unseen>>

\* parentThread.terminate, called by the worker's own code.
StopSelf ==
  /\ InCode /\ ~stop
  /\ stop' = TRUE /\ wake' = TRUE
  /\ UNCHANGED <<micro, macro, active, th, sending, pc, runs, from, unseen>>

------------------------------------------------------------------------------
(* run_until_idle and run_one on the loop thread.                          *)

RunUntilIdle ==
  /\ Goto("script", "head")
  /\ runs' = runs + 1
  /\ UNCHANGED <<sched, from, unseen>>

TestStop ==
  /\ pc = "head"
  /\ pc' = IF stop THEN "exited" ELSE "drain"
  /\ UNCHANGED <<sched, runs, from, unseen>>

TakeMicro ==
  /\ Goto("drain", "inMicro") /\ micro # <<>>
  /\ micro' = Tail(micro)
  /\ UNCHANGED <<macro, wake, stop, active, th, sending, runs, from, unseen>>

\* Mutant: run_one goes on to the macrotasks after one microtask.
DrainedEarly == Goto("drain", "pop") /\ UNCHANGED <<sched, runs, from, unseen>>

Drained ==
  /\ Goto("drain", "pop") /\ micro = <<>>
  /\ UNCHANGED <<sched, runs, from, unseen>>

EndMicro == Goto("inMicro", "drain") /\ UNCHANGED <<sched, runs, from, unseen>>

\* Mutant: pop_back instead of pop_front.
TakeMacroNewest ==
  /\ Goto("pop", "inMacro") /\ macro # <<>>
  /\ macro' = SubSeq(macro, 1, Len(macro) - 1)
  /\ UNCHANGED <<micro, wake, stop, active, th, sending, runs, from, unseen>>

\* The microtasks were found drained under another lock, a moment earlier.
TakeMacro ==
  /\ Goto("pop", "inMacro") /\ macro # <<>>
  /\ macro' = Tail(macro)
  /\ UNCHANGED <<micro, wake, stop, active, th, sending, runs, from, unseen>>

NoMacro ==
  /\ Goto("pop", "idle") /\ macro = <<>>
  /\ UNCHANGED <<sched, runs, from, unseen>>

\* Mutant: a macrotask returns into a tick phase that nobody leaves.
EndMacroTick == Goto("inMacro", "tick") /\ UNCHANGED <<sched, runs, from, unseen>>

EndMacro == Goto("inMacro", "head") /\ UNCHANGED <<sched, runs, from, unseen>>

\* Both mutexes are held while the queues, the handles and has_pending are
\* examined, so no other thread can push in between.
HasPending == running # {}
\* Mutant: only libuv handles are consulted, not the predicate.
IdleNoPredicate == micro = <<>> /\ macro = <<>> /\ active = {}
Idle == micro = <<>> /\ macro = <<>> /\ active = {} /\ ~HasPending

CheckIdle ==
  /\ pc = "idle"
  /\ pc' = IF Idle THEN "exited" ELSE "poll"
  /\ unseen' = {}
  /\ UNCHANGED <<sched, runs, from>>

\* uv_run(UV_RUN_ONCE) blocks until the wake-up handle or another active
\* handle has an event; sweep_external_data() follows and touches nothing here.
PollWake ==
  /\ Goto("poll", "head") /\ wake
  /\ wake' = FALSE
  /\ UNCHANGED <<micro, macro, stop, active, th, sending, runs, from, unseen>>

PollHandle ==
  /\ Goto("poll", "event") /\ active # {}
  /\ wake' \in {wake, FALSE}   \* libuv may serve the wake-up in the same turn
  /\ UNCHANGED <<micro, macro, stop, active, th, sending, runs, from, unseen>>

EndEvent == Goto("event", "head") /\ UNCHANGED <<sched, runs, from, unseen>>

\* The REPL's next line calls evaluate() on the same evaluator.  Only a
\* worker's scheduler is ever stopped, and a worker evaluates once.
NextLine ==
  /\ Goto("exited", "script") /\ ~stop /\ runs < MaxRuns
  /\ UNCHANGED <<sched, runs, from, unseen>>

------------------------------------------------------------------------------
(* Other threads.                                                          *)

\* A worker says something to main while it is counted; the thread of a fetch
\* settles its promise after it gave its count back, and the functions of the
\* user it calls may post anything; a parent sends its worker messages.
MayPush(p) ==
  \/ p \in Workers /\ th[p] = "counted"
  \/ p \in Fetches /\ th[p] = "leaving"
  \/ p \in Parents

\* Mutants: the push or the store is not followed by a wake-up.
PushSilent(p, t) ==
  /\ MayPush(p) /\ p \notin sending /\ Posted(t, From(p))
  /\ macro' = Append(macro, t)
  /\ UNCHANGED <<micro, wake, stop, active, th, sending, pc, runs, unseen>>

StopSilent(p) ==
  /\ p \notin sending /\ ~stop
  /\ stop' = TRUE
  /\ UNCHANGED <<micro, macro, wake, active, th, sending, pc, runs, from, unseen>>

\* enqueue_macrotask called off the loop thread, its push ...
Push(p, t) ==
  /\ MayPush(p) /\ p \notin sending /\ Posted(t, From(p))
  /\ macro' = Append(macro, t)
  /\ sending' = sending \cup {p}
  /\ UNCHANGED <<micro, wake, stop, active, th, pc, runs, unseen>>

\* ... enqueue_microtask by a fetch that settles its promise inline ...
PushMicro(p, t) ==
  /\ th[p] = "leaving" /\ p \notin sending /\ Posted(t, "stray")
  /\ micro' = Append(micro, t)
  /\ sending' = sending \cup {p}
  /\ UNCHANGED <<macro, wake, stop, active, th, pc, runs, unseen>>

\* ... stop() by the parent of a worker's loop, its store ...
Stop(p) ==
  /\ p \notin sending /\ ~stop
  /\ stop' = TRUE /\ sending' = sending \cup {p}
  /\ UNCHANGED <<micro, macro, wake, active, th, pc, runs, from, unseen>>

\* ... a worker's exit event, after the worker ceased to be counted ...
ExitPush(p) ==
  /\ th[p] = "leaving" /\ Posted(p, "stray")
  /\ th' = [th EXCEPT ![p] = "ended"]
  /\ macro' = Append(macro, p)
  /\ sending' = sending \cup {p}
  /\ UNCHANGED <<micro, wake, stop, active, pc, runs, unseen>>

\* ... and the uv_async_send that ends each of the four.
Send(p) ==
  /\ p \in sending
  /\ wake' = TRUE /\ sending' = sending \ {p}
  /\ UNCHANGED <<micro, macro, stop, active, th, pc, runs, from, unseen>>

\* A thread ceases to be counted, and wakes nobody: running.store(false) of a
\* worker, g_active_http_fetches.fetch_sub(1) of a fetch.
Retire(p) ==
  /\ p \in running \ sending
  /\ th' = [th EXCEPT ![p] = "leaving"]
  /\ unseen' = unseen \cup ({p} \cap Fetches)
  /\ UNCHANGED <<micro, macro, wake, stop, active, sending, pc, runs, from>>

------------------------------------------------------------------------------
Code ==
  \/ \E t \in Tasks : EnqueueMicrotask(t) \/ EnqueueMacrotask(t)
  \/ \E h \in Handles : StartHandle(h) \/ CloseHandle(h)
  \/ \E p \in Counted : SpawnThread(p)
  \/ StopSelf

Loop ==
  \/ RunUntilIdle \/ TestStop \/ TakeMicro \/ Drained \/ EndMicro
  \/ TakeMacro \/ NoMacro \/ EndMacro \/ CheckIdle
  \/ PollWake \/ PollHandle \/ EndEvent \/ NextLine

OffLoop ==
  \/ \E p \in Others, t \in Tasks : Push(p, t)
  \/ \E p \in Fetches, t \in Tasks : PushMicro(p, t)
  \/ \E p \in Parents : Stop(p)
  \/ \E p \in Workers : ExitPush(p)
  \/ \E p \in Counted : Retire(p)
  \/ \E p \in Others : Send(p)

Next == Code \/ Loop \/ OffLoop

Spec == Init /\ [][Next]_vars

\* Continuations return, a thread that pushed goes on to its uv_async_send, a
\* worker that is no longer counted to its exit event, and a signalled poll
\* returns.  Nothing is assumed about handles firing, about workers and requests
\* ending, about further code being called, or about REPL input.
Fairness ==
  /\ WF_vars(RunUntilIdle) /\ WF_vars(TestStop)
  /\ WF_vars(TakeMicro \/ Drained) /\ WF_vars(EndMicro)
  /\ WF_vars(TakeMacro \/ NoMacro) /\ WF_vars(EndMacro)
  /\ WF_vars(CheckIdle) /\ WF_vars(PollWake) /\ WF_vars(EndEvent)
  /\ \A p \in Others : WF_vars(Send(p))
  /\ \A p \in Workers : WF_vars(ExitPush(p))

FairSpec == Spec /\ Fairness

------------------------------------------------------------------------------
TypeOK ==
  /\ micro \in Seq(Conts) /\ macro \in Seq(Conts)
  /\ wake \in BOOLEAN /\ stop \in BOOLEAN
  /\ active \subseteq Handles
  /\ th \in [Counted -> Places] /\ sending \subseteq Others
  /\ pc \in Pcs /\ runs \in Nat
  /\ from \in [Conts -> Origins] /\ unseen \subseteq Fetches

\* No lost wake-up: when the loop blocks in uv_run although it has something to
\* do (a queued continuation, a stop request, or nothing at all to wait for), a
\* wake-up is pending, a thread is about to send one, or a worker is about to
\* post its exit.  The one exception is the code's: a fetch gave its count back
\* after has_pending was asked, and wakes the loop only if it posts something.
NoLostWakeup ==
  pc = "poll" =>
    \/ wake
    \/ sending # {}
    \/ /\ micro = <<>> /\ macro = <<>> /\ ~stop
       /\ \/ active # {} \/ running # {} \/ unseen # {}
          \/ \E p \in Workers : th[p] = "leaving"

\* What is queued.
QueuedAs(q, o) == \E i \in DOMAIN q : from[q[i]] = o
Queued(t) ==
  \/ \E i \in DOMAIN micro : micro[i] = t
  \/ \E i \in DOMAIN macro : macro[i] = t

\* The loop does not return on its own while a handle is active, a thread is
\* counted by has_pending, or a continuation is queued that its own code or a
\* counted thread posted.  What a thread posts that is no longer counted (the
\* exit event of a worker, the reactions of a fetch) may find it gone.
NoEarlyExit ==
  pc = "exited" =>
    \/ stop
    \/ /\ active = {} /\ running = {}
       /\ \A t \in Conts : Queued(t) => from[t] = "stray"

\* Microtasks first: the step that starts a macrotask leaves no microtask of the
\* loop's own code behind, although their queue was tested under another lock
\* earlier.  One that a fetch's thread posted meanwhile may be there.
MicrotasksFirst == [][TakeMacro => ~QueuedAs(micro, "loop")]_vars

\* The scheduler implements the abstract event loop.
EL == INSTANCE EventLoop WITH
  Tasks <- Conts, Sources <- Handles \cup Counted,
  owedMicro <- micro, owedMacro <- macro, by <- from,
  live <- active \cup running, stopped <- stop,
  finished <- (pc = "exited")

ImplementsEventLoop == EL!AbsSpec

\* Every continuation that is enqueued is eventually run, whatever the other
\* threads do, unless the scheduler is told to stop, or the loop returned and
\* the thread that posted it was not counted any more (or never was).
EveryTaskRuns ==
  \A t \in Conts :
    Queued(t) ~> (~Queued(t) \/ stop \/ (pc = "exited" /\ from[t] = "stray"))

\* A stop request is heeded even by a loop that is blocked in uv_run.
StopHeeded == stop ~> pc = "exited"

\* When the last handle is closed and the last thread retires, the loop notices
\* and returns (or gets more to do); it does not block for ever, unless the
\* thread that retired was that of a fetch, which wakes nobody.
QuietLoopReturns ==
  (pc \notin {"script", "exited"} /\ active = {} /\ running = {})
     ~> \/ pc = "exited" \/ active # {} \/ running # {}
        \/ pc = "poll" /\ unseen # {}

\* The loop comes to its end: when it is told to, and when nothing is left.
LoopReturns == StopHeeded /\ QuietLoopReturns
==============================================================================
