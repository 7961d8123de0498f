------------------------------- MODULE Worker --------------------------------
(***************************************************************************)
(* Worker threads (globals/worker.cc): spawning under a cap, booting,      *)
(* messages both ways, termination from either side, the exit event and    *)
(* join_all_workers, between a main thread and the workers it spawns.      *)
(*                                                                         *)
(* Each thread runs the loop of Scheduler, of which a push with its wake-up*)
(* is one step here.  Loads of an atomic pointer and the use of what was   *)
(* loaded are two steps.  Main registers its listeners when it spawns.     *)
(* Workers that spawn workers, and Worker.active/list, are left out.       *)
(***************************************************************************)
EXTENDS Naturals, Sequences, FiniteSets

CONSTANTS Workers,     \* WorkerCtx identities; each is spawned once
          NoWorker,    \* main is not inside a call on a worker
          Cap,         \* SWAZI_MAX_WORKERS
          OtherHandles,\* may worker code leave an interval or a server open?
          MaxSent,     \* bound: w.send() per worker
          MaxSaid      \* bound: parentThread.send() per worker

ASSUME WorkerAssumption ==
  /\ NoWorker \notin Workers /\ Cap \in Nat \ {0}
  /\ OtherHandles \in BOOLEAN /\ MaxSent \in Nat /\ MaxSaid \in Nat

VARIABLES main,      \* where main is: "code", "loop", "poll", "join", "gone"
          mq, mwake, \* main_scheduler: macrotasks [what, w, n], wake-up
          op,        \* a w.send() or w.terminate() that has loaded
                     \* worker_scheduler: [call, w, saw]
          registry   \* g_active_workers

\* One field of WorkerCtx, or of the worker's Scheduler, each.
VARIABLES running, terminated,
          published,  \* worker_scheduler and worker_evaluator are not null
          pending,    \* pending_messages
          listening,  \* is_listening
          keep,       \* keep_alive_initialized: its handle is open
          failed,     \* exit_code is 1
          alive,      \* the worker's Evaluator and Scheduler exist
          wq, wwake, wstop,  \* its macrotasks (messages), wake-up, should_stop
          other,      \* another handle of its loop is active
          redeliver,  \* boot: messages taken from pending, not yet delivered
          wpc         \* where the worker's thread is

\* What happened, for the properties only.
VARIABLES sent, said,  \* messages to and from each worker so far
          heard,       \* the last message of each that main has handled
          exits        \* runs of the exit handler of each

mainVars == <<main, mq, mwake, op, registry>>
ctxVars == <<running, terminated, published, pending, listening, keep, failed>>
loopVars == <<alive, wq, wwake, wstop, other>>
threadVars == <<redeliver, wpc>>
counts == <<sent, said, heard, exits>>
vars == <<mainVars, ctxVars, loopVars, threadVars, counts>>

NoOp == [call |-> "none", w |-> NoWorker, saw |-> FALSE]

Init ==
  /\ main = "code" /\ mq = <<>> /\ mwake = FALSE /\ op = NoOp /\ registry = {}
  /\ running = [w \in Workers |-> FALSE] /\ terminated = [w \in Workers |-> FALSE]
  /\ published = [w \in Workers |-> FALSE] /\ pending = [w \in Workers |-> <<>>]
  /\ listening = [w \in Workers |-> FALSE] /\ keep = [w \in Workers |-> FALSE]
  /\ failed = [w \in Workers |-> FALSE]
  /\ alive = [w \in Workers |-> FALSE] /\ wq = [w \in Workers |-> <<>>]
  /\ wwake = [w \in Workers |-> FALSE] /\ wstop = [w \in Workers |-> FALSE]
  /\ other = [w \in Workers |-> FALSE]
  /\ redeliver = [w \in Workers |-> <<>>] /\ wpc = [w \in Workers |-> "none"]
  /\ sent = [w \in Workers |-> 0] /\ said = [w \in Workers |-> 0]
  /\ heard = [w \in Workers |-> 0] /\ exits = [w \in Workers |-> 0]

Set(f, w, v) == f' = [f EXCEPT ![w] = v]

------------------------------------------------------------------------------
(* Code on the main thread.                                                 *)

InMain == main = "code" /\ op = NoOp

Evicted == {w \in registry : terminated[w]}

\* The constructor: the cap, then eviction of terminated workers, and a thread.
Spawn(w) ==
  /\ InMain /\ wpc[w] = "none"
  /\ Cardinality({v \in registry : running[v]}) < Cap
  /\ registry' = (registry \ Evicted) \cup {w}
  /\ Set(running, w, TRUE) /\ Set(wpc, w, "boot")
  /\ UNCHANGED <<main, mq, mwake, op, terminated, published, pending, listening,
                 keep, failed, loopVars, redeliver, counts>>

\* w.send(): the test of terminated and the load of worker_scheduler ...
Send(w) ==
  /\ InMain /\ wpc[w] # "none" /\ ~terminated[w] /\ sent[w] < MaxSent
  /\ Set(sent, w, sent[w] + 1)
  /\ op' = [call |-> "send", w |-> w, saw |-> published[w]]
  /\ UNCHANGED <<main, mq, mwake, registry, ctxVars, loopVars, threadVars,
                 said, heard, exits>>

\* ... then the message is buffered, or queued on the worker's scheduler.
Buffer ==
  /\ op.call = "send" /\ ~op.saw
  /\ Set(pending, op.w, Append(pending[op.w], sent[op.w]))
  /\ op' = NoOp
  /\ UNCHANGED <<main, mq, mwake, registry, running, terminated, published,
                 listening, keep, failed, loopVars, threadVars, counts>>

\* A scheduler that no longer exists loses the message, at best.
Deliver ==
  /\ op.call = "send" /\ op.saw
  /\ IF alive[op.w]
     THEN Set(wq, op.w, Append(wq[op.w], sent[op.w])) /\ Set(wwake, op.w, TRUE)
     ELSE UNCHANGED <<wq, wwake>>
  /\ op' = NoOp
  /\ UNCHANGED <<main, mq, mwake, registry, ctxVars, alive, wstop, other,
                 threadVars, counts>>

\* w.terminate(): the flag and the load of worker_scheduler ...
Terminate(w) ==
  /\ InMain /\ wpc[w] # "none" /\ ~terminated[w]
  /\ Set(terminated, w, TRUE)
  /\ op' = [call |-> "terminate", w |-> w, saw |-> published[w]]
  /\ UNCHANGED <<main, mq, mwake, registry, running, published, pending,
                 listening, keep, failed, loopVars, threadVars, counts>>

\* ... then stop(), if there was a scheduler.
StopWorker ==
  /\ op.call = "terminate"
  /\ IF op.saw /\ alive[op.w]
     THEN Set(wstop, op.w, TRUE) /\ Set(wwake, op.w, TRUE)
     ELSE UNCHANGED <<wstop, wwake>>
  /\ op' = NoOp
  /\ UNCHANGED <<main, mq, mwake, registry, ctxVars, alive, wq, other,
                 threadVars, counts>>

EndCode ==
  /\ InMain
  /\ main' = "loop"
  /\ UNCHANGED <<mq, mwake, op, registry, ctxVars, loopVars, threadVars, counts>>

------------------------------------------------------------------------------
(* Main's loop, and the end of evaluate().                                  *)

HandleMessage ==
  /\ main = "loop" /\ mq # <<>> /\ Head(mq).what = "message"
  /\ mq' = Tail(mq) /\ main' = "code"
  /\ Set(heard, Head(mq).w, Head(mq).n)
  /\ UNCHANGED <<mwake, op, registry, ctxVars, loopVars, threadVars, sent, said, exits>>

\* Mutant: the exit event stays in the queue.
HandleExitAgain ==
  /\ main = "loop" /\ mq # <<>> /\ Head(mq).what = "exit"
  /\ main' = "code"
  /\ Set(exits, Head(mq).w, exits[Head(mq).w] + 1)
  /\ UNCHANGED <<mq, mwake, op, registry, ctxVars, loopVars, threadVars, sent, said, heard>>

HandleExit ==
  /\ main = "loop" /\ mq # <<>> /\ Head(mq).what = "exit"
  /\ mq' = Tail(mq) /\ main' = "code"
  /\ Set(exits, Head(mq).w, exits[Head(mq).w] + 1)
  /\ UNCHANGED <<mwake, op, registry, ctxVars, loopVars, threadVars, sent, said, heard>>

\* worker_threads_exist.
WorkersExist == \E w \in registry : running[w]

IdleTest ==
  /\ main = "loop" /\ mq = <<>>
  /\ main' = IF WorkersExist THEN "poll" ELSE "join"
  /\ UNCHANGED <<mq, mwake, op, registry, ctxVars, loopVars, threadVars, counts>>

WakeMain ==
  /\ main = "poll" /\ mwake
  /\ main' = "loop" /\ mwake' = FALSE
  /\ UNCHANGED <<mq, op, registry, ctxVars, loopVars, threadVars, counts>>

\* join_all_workers: none of the registered workers is running any more, so
\* none is stopped; their threads are awaited.  Then the evaluator goes.
JoinAll ==
  /\ main = "join" /\ \A w \in registry : wpc[w] = "dead"
  /\ main' = "gone" /\ registry' = {}
  /\ UNCHANGED <<mq, mwake, op, ctxVars, loopVars, threadVars, counts>>

------------------------------------------------------------------------------
(* worker_thread_fn: boot.                                                  *)

At(w, from, to) == wpc[w] = from /\ Set(wpc, w, to)

Publish(w) ==
  /\ At(w, "boot", "drain")
  /\ Set(alive, w, TRUE) /\ Set(published, w, TRUE)
  /\ UNCHANGED <<mainVars, running, terminated, pending, listening, keep, failed,
                 wq, wwake, wstop, other, redeliver, counts>>

TakePending(w) ==
  /\ At(w, "drain", "redeliver")
  /\ Set(redeliver, w, pending[w]) /\ Set(pending, w, <<>>)
  /\ UNCHANGED <<mainVars, running, terminated, published, listening, keep,
                 failed, loopVars, counts>>

Redeliver(w) ==
  /\ wpc[w] = "redeliver" /\ redeliver[w] # <<>>
  /\ Set(wq, w, Append(wq[w], Head(redeliver[w])))
  /\ Set(redeliver, w, Tail(redeliver[w])) /\ Set(wwake, w, TRUE)
  /\ UNCHANGED <<mainVars, ctxVars, alive, wstop, other, wpc, counts>>

StartScript(w) ==
  /\ At(w, "redeliver", "script") /\ redeliver[w] = <<>>
  /\ UNCHANGED <<mainVars, ctxVars, loopVars, redeliver, counts>>

------------------------------------------------------------------------------
(* Code on the worker's thread.                                             *)

InWorker(w) == wpc[w] \in {"script", "task"}

\* parentThread.on("message"): the keep-alive handle is armed once.
Listen(w) ==
  /\ InWorker(w) /\ ~listening[w]
  /\ Set(listening, w, TRUE) /\ Set(keep, w, TRUE)
  /\ UNCHANGED <<mainVars, running, terminated, published, pending, failed,
                 loopVars, threadVars, counts>>

\* Mutant: a message is queued ahead of those before it.
SayFirst(w) ==
  /\ InWorker(w) /\ said[w] < MaxSaid
  /\ Set(said, w, said[w] + 1)
  /\ mq' = <<[what |-> "message", w |-> w, n |-> said[w] + 1]>> \o mq
  /\ mwake' = TRUE
  /\ UNCHANGED <<main, op, registry, ctxVars, loopVars, threadVars, sent, heard, exits>>

\* parentThread.send().
Say(w) ==
  /\ InWorker(w) /\ said[w] < MaxSaid
  /\ Set(said, w, said[w] + 1)
  /\ mq' = Append(mq, [what |-> "message", w |-> w, n |-> said[w] + 1])
  /\ mwake' = TRUE
  /\ UNCHANGED <<main, op, registry, ctxVars, loopVars, threadVars, sent, heard, exits>>

OpenHandle(w) ==
  /\ InWorker(w) /\ OtherHandles /\ ~other[w]
  /\ Set(other, w, TRUE)
  /\ UNCHANGED <<mainVars, ctxVars, alive, wq, wwake, wstop, threadVars, counts>>

CloseHandle(w) ==
  /\ InWorker(w) /\ other[w]
  /\ Set(other, w, FALSE)
  /\ UNCHANGED <<mainVars, ctxVars, alive, wq, wwake, wstop, threadVars, counts>>

\* parentThread.terminate().
SelfTerminate(w) ==
  /\ InWorker(w) /\ ~wstop[w]
  /\ Set(terminated, w, TRUE) /\ Set(keep, w, FALSE)
  /\ Set(wstop, w, TRUE) /\ Set(wwake, w, TRUE)
  /\ UNCHANGED <<mainVars, running, published, pending, listening, failed,
                 alive, wq, other, threadVars, counts>>

\* An exception escapes the script; a message handler's is swallowed.
Throw(w) ==
  /\ At(w, "script", "unwind")
  /\ Set(failed, w, TRUE)
  /\ UNCHANGED <<mainVars, running, terminated, published, pending, listening,
                 keep, loopVars, redeliver, counts>>

Return(w) ==
  /\ InWorker(w) /\ Set(wpc, w, "loop")
  /\ UNCHANGED <<mainVars, ctxVars, loopVars, redeliver, counts>>

------------------------------------------------------------------------------
(* The worker's loop.                                                       *)

\* A message without a listener is dropped.
TakeMessage(w) ==
  /\ wpc[w] = "loop" /\ ~wstop[w] /\ wq[w] # <<>>
  /\ Set(wq, w, Tail(wq[w]))
  /\ Set(wpc, w, IF listening[w] THEN "task" ELSE "loop")
  /\ UNCHANGED <<mainVars, ctxVars, alive, wwake, wstop, other, redeliver, counts>>

\* Mutant: the keep-alive handle does not count.
WorkerIdleUnkept(w) == wq[w] = <<>> /\ ~other[w]
WorkerIdle(w) == wq[w] = <<>> /\ ~keep[w] /\ ~other[w]

Block(w) ==
  /\ At(w, "loop", "poll") /\ ~wstop[w] /\ wq[w] = <<>> /\ ~WorkerIdle(w)
  /\ UNCHANGED <<mainVars, ctxVars, loopVars, redeliver, counts>>

Wake(w) ==
  /\ At(w, "poll", "loop") /\ wwake[w]
  /\ Set(wwake, w, FALSE)
  /\ UNCHANGED <<mainVars, ctxVars, alive, wq, wstop, other, redeliver, counts>>

\* The other handle has an event; its callback is code.
HandleEvent(w) ==
  /\ At(w, "poll", "task") /\ other[w]
  /\ UNCHANGED <<mainVars, ctxVars, loopVars, redeliver, counts>>

LeaveLoop(w) ==
  /\ At(w, "loop", "unwind") /\ (wstop[w] \/ WorkerIdle(w))
  /\ UNCHANGED <<mainVars, ctxVars, loopVars, redeliver, counts>>

------------------------------------------------------------------------------
(* The end of a worker's thread.                                            *)

\* Mutant: no guard closes the keep-alive handle.
UnguardedUnwind(w) ==
  /\ At(w, "unwind", "destroy")
  /\ UNCHANGED <<mainVars, ctxVars, loopVars, redeliver, counts>>

\* ~KeepAliveGuard.
Unwind(w) ==
  /\ At(w, "unwind", "destroy")
  /\ Set(keep, w, FALSE)
  /\ UNCHANGED <<mainVars, running, terminated, published, pending, listening,
                 failed, loopVars, redeliver, counts>>

\* ~Evaluator and with it ~Scheduler, which runs the loop for as long as a
\* handle is active: cleanup_uv_handles closes no timer and no server.
Destroy(w) ==
  /\ At(w, "destroy", "destroyed") /\ ~keep[w] /\ ~other[w]
  /\ Set(alive, w, FALSE) /\ Set(wq, w, <<>>)
  /\ UNCHANGED <<mainVars, ctxVars, wwake, wstop, other, redeliver, counts>>

\* fire_exit_on_main: the pointers ...
Unpublish(w) ==
  /\ At(w, "destroyed", "unpublished")
  /\ Set(published, w, FALSE)
  /\ UNCHANGED <<mainVars, running, terminated, pending, listening, keep, failed,
                 loopVars, redeliver, counts>>

\* ... the flags ...
Halt(w) ==
  /\ At(w, "unpublished", "halted")
  /\ Set(running, w, FALSE) /\ Set(terminated, w, TRUE)
  /\ UNCHANGED <<mainVars, published, pending, listening, keep, failed,
                 loopVars, redeliver, counts>>

Exit(w) == [what |-> "exit", w |-> w, n |-> 0]

\* Mutant: main is not notified.
FireExitSilent(w) ==
  /\ At(w, "halted", "dead")
  /\ mq' = Append(mq, Exit(w))
  /\ UNCHANGED <<main, mwake, op, registry, ctxVars, loopVars, redeliver, counts>>

\* ... and the exit event.
FireExit(w) ==
  /\ At(w, "halted", "dead")
  /\ mq' = Append(mq, Exit(w)) /\ mwake' = TRUE
  /\ UNCHANGED <<main, op, registry, ctxVars, loopVars, redeliver, counts>>

------------------------------------------------------------------------------
MainStep ==
  \/ Buffer \/ Deliver \/ StopWorker \/ EndCode
  \/ HandleMessage \/ HandleExit \/ IdleTest \/ WakeMain \/ JoinAll

WorkerStep(w) ==
  \/ Publish(w) \/ TakePending(w) \/ Redeliver(w) \/ StartScript(w)
  \/ Return(w) \/ TakeMessage(w) \/ Block(w) \/ Wake(w) \/ LeaveLoop(w)
  \/ Unwind(w) \/ Destroy(w) \/ Unpublish(w) \/ Halt(w) \/ FireExit(w)

\* What user code or the outside world may or may not do.
Choice(w) ==
  \/ Spawn(w) \/ Send(w) \/ Terminate(w)
  \/ Listen(w) \/ Say(w) \/ OpenHandle(w) \/ CloseHandle(w)
  \/ SelfTerminate(w) \/ Throw(w) \/ HandleEvent(w)

Next == MainStep \/ \E w \in Workers : WorkerStep(w) \/ Choice(w)

Spec == Init /\ [][Next]_vars

\* Both threads are scheduled and user code returns.  Nothing is assumed of
\* the events of other handles, nor of what user code calls.
FairSpec == Spec /\ WF_vars(MainStep) /\ \A w \in Workers : WF_vars(WorkerStep(w))

------------------------------------------------------------------------------
Task == [what: {"message", "exit"}, w: Workers, n: 0..MaxSaid]
WorkerPcs == {"none", "boot", "drain", "redeliver", "script", "task", "loop",
              "poll", "unwind", "destroy", "destroyed", "unpublished", "halted",
              "dead"}
Ending == {"unwind", "destroy", "destroyed", "unpublished", "halted", "dead"}

\* Every variable has its type; the exit handler runs at
\* most once per worker.
TypeOK ==
  /\ main \in {"code", "loop", "poll", "join", "gone"}
  /\ mq \in Seq(Task) /\ mwake \in BOOLEAN /\ registry \subseteq Workers
  /\ op = NoOp \/ op \in [call: {"send", "terminate"}, w: Workers, saw: BOOLEAN]
  /\ {running, terminated, published, listening, keep, failed, alive, wwake,
      wstop, other} \subseteq [Workers -> BOOLEAN]
  /\ {pending, wq, redeliver} \subseteq [Workers -> Seq(1..MaxSent)]
  /\ sent \in [Workers -> 0..MaxSent] /\ exits \in [Workers -> 0..1]
  /\ {said, heard} \subseteq [Workers -> 0..MaxSaid]
  /\ wpc \in [Workers -> WorkerPcs]

\* parentThread.send(): main handles a worker's messages one by one in the
\* order they were sent, none lost or repeated ahead of a later one.
HeardInOrder ==
  [][\A w \in Workers : heard'[w] # heard[w] => heard'[w] = heard[w] + 1]_vars

\* The exit event comes once, and after every message of its worker, also
\* those sent from a script that then threw.
ExitComesLast == \A w \in Workers : exits[w] = 1 => heard[w] = said[w]

\* The hang that the comment in fire_exit_on_main tells of does not return:
\* when main is blocked in uv_run, a wake-up is pending or a worker has yet to
\* send the one that follows its exit event.
NoHang ==
  main = "poll" => mwake \/ \E w \in registry : wpc[w] \notin {"none", "dead"}

\* Main hears of a worker's end whatever the order of its last stores and pushes:
\* the exit event comes after all else, and main is not asleep when it comes.
ExitReachesMain == ExitComesLast /\ NoHang

\* A worker that listens leaves its loop only when stopped or failed: its
\* keep-alive handle holds it although its queue is empty.
ListenersStay ==
  \A w \in Workers : wpc[w] \in Ending /\ listening[w] => wstop[w] \/ failed[w]

\* A worker whose scheduler was told to stop comes to its end, also when it
\* was blocked, so that main can join it: unless its code leaves another handle
\* active, with which the destructor of its Scheduler never ends.
StopEnds == \A w \in Workers : wstop[w] ~> (wpc[w] = "dead" \/ other[w])

------------------------------------------------------------------------------
(* What the comments promise and the code does not do.                     *)

\* w.on("exit") is fired for every worker before main is gone ("wakes the
\* main loop and fires exit").
ExitReported ==
  main = "gone" => \A w \in Workers : wpc[w] = "dead" => exits[w] = 1
==============================================================================
