# A model of the Swazi runtime

SwaziLang is a tree-walking interpreter (C++17) for a Swahili-flavoured
scripting language, with a Node-like runtime on libuv: event loop, timers,
promises, async functions, generators, worker threads, streams, sockets, HTTP,
subprocesses and native addons. These modules model, check and prove the part
of it that is hardest to test: what happens in which order, across callbacks,
suspensions and threads. Source paths are relative to `src/src/evaluator`
unless they say otherwise; line numbers are in `PROJECT.json` (`map`).

Run `tlc -config X.cfg MCM.tla` for a run (section 4), and `tlapm` on
`SchedulerProofs.tla`, `TimersProofs.tla`, `PromisesProofs.tla`, `WorkerProofs.tla`,
`StreamsProofs.tla`, `StdioProofs.tla`, `HttpProofs.tla` and `LibraryProofs.tla`
for the proofs (section 6).

## 1. Inventory

| part | state it keeps | operations | hard behaviour | what makes it correct |
|---|---|---|---|---|
| Event loop `Async/Scheduler.cpp`, `run_event_loop` in `Async/AsyncApi.cpp` | two locked deques, `should_stop`, the uv loop and its `uv_async_t`, the `has_pending` predicate | enqueue micro/macrotask, `run_one`, `run_until_idle`, `notify`, `stop` | pushes from other threads between the idle test and `uv_run` | no lost wake-up, no early return, microtasks first, tasks run |
| Timers `Async/AsyncApi.cpp` | process-wide `g_timers`; `TimerEntry` with a raw `uv_timer_t` | create, start lambda, expiry, cancel, close lambda | cancellation against expiry in one `uv_run`; one map for all loops | one close per handle, entry outlives handle, expires or is cancelled, loop can return |
| Promises `Evaluator.cpp`, `ExpressionEval.cpp`, `globals/initial.cpp` | `state`, two callback lists, `parent`, `handled`, `unhandled_check_scheduled`, `unhandled_reported` | constructor, resolve/reject, then/catch/finally, adoption, await, unhandled check, `nap` | late attachment, callbacks that throw or return promises, checks two microtasks later | settles once, each reaction once and in order, a rejection is reported iff nobody handles it |
| Async functions `FunctionCall.cpp`, `StatementEval.cpp`, `Frame.hpp` | `next_statement_index`, `awaited_results`, `awaited_exceptions`, `loop_states` | call, suspend, stamp, resume | no continuations: the current statement is evaluated again from its start | a resumed body goes on where it stopped |
| Generators, same files | `paused_yield`, `paused_env`, sent value, requested return | next, return | the same replay; resume while executing | as above; closed stays closed |
| Workers `globals/worker.cc` | `WorkerCtx` flags and pointers, `pending_messages`, the registry | spawn, send, terminate, boot, parentThread.*, exit, join | every field is read by one thread and written by another | messages in order, exit once and last, stop and join come to an end |
| Evaluator `ExpressionEval.cpp`, `EvaluatorHelper.cpp`, `Environment.cpp` | environments, objects, classes | evaluation | deep recursion, freezing, private access | scoping; sequential |
| Module loader `ModuleLoader.cpp` | cache of `ModuleRecord` (Loading, Loaded) | import, export | circular imports, failure while loading | each module runs once; no partial module stays cached |
| Streams `modules_builtins/streams` | buffers, flags (ended, paused, needDrain), pipes | push, read, write, end, pipe, destroy | file completions after destroy; backpressure | bytes once and in order; drain and end are emitted once |
| Event emitter `modules_builtins/events` | listeners, once marks | on, once, off, emit | listeners that change the list | every listener of the snapshot once |
| Sockets, resolve and ping `modules_builtins/net_module` | per-socket flags and queues, registries, process-wide counters for `has_pending` | connect, on, write, pause, resume, close, listen; bind, send, close; resolve, ping | a close against a resolution, a completion or an end of stream; timeouts against answers | one close per handle, no callback after its owner, input heard in order, counters given back once |
| HTTP `http`, fetch `builtins.cpp` | parser and response flags, a thread per fetch | request, response, end | close against a completion; reactions of a fetch against the script | one close, no callback after close, one thread at a time runs the program |
| Subprocess, fork, process IPC | handles, exit status, framing buffers | spawn, send, kill, close | exit before the end of output | exit once, after the output |
| Standard input `stdin.cc` | flags, the terminal's handle, line and escape buffers, listeners, a handle that holds the loop while paused | on, once, pipe, pause, resume, setRawMode, close, remove | flags change at once, the terminal in queued tasks; an escape sequence waits for a timer | keys handed on once and in order; the terminal is what the flags say; a closed one holds nothing |
| fs, uv, addon ABI | handles in process-wide tables | open, watch, close, async work | a loop that closes another's handles | each handle is closed by its owner |
| Lexer, parser, formatter, CLI, REPL | text | – | indentation | sequential |
| Collections, serialization, dates, URLs, regexes, crypto, archives | values | – | numeric edges | sequential conversions |

How they interact: everything asynchronous ends in a `Scheduler` queue.
Timers, streams and sockets queue macrotasks from uv callbacks; promises queue
microtasks; awaiting code is a microtask that pushes a `CallFrame` back on the
call stack; workers are threads with an `Evaluator`, a `Scheduler` and a uv
loop of their own that queue macrotasks on each other's scheduler.
`run_until_idle` decides whether to go on from its queues, the active handles
of its uv loop and `has_pending`, a predicate over counters of the whole
process (timers, sockets, files, fetches, workers).

`PROJECT.json` lists every component with its status, and the hazards line by
line.

## 2. Plan

Order: what everything else runs on first, then its users.

1. `EventLoop`, `Scheduler`, `SchedulerProofs`: the loop. *Done, proved.*
2. `TimerContract`, `Timers`, `TimersProofs`. *Done; safety and refinement proved.*
3. `PromiseContract`, `Promises`, `PromisesProofs`. *Done; safety and refinement
   proved without naps; `all`, `race`, `any`, `allSettled` next.*
4. `Worker`, `WorkerProofs`. *Done for workers of main, safety proved.*
5. `Syntax`, `Coroutine`, `AsyncFrame`, `Generator`: replay. *Done for one frame.*
6. `BytePipe`, `FileStreams`, `Duplex`, `StreamsProofs`: streams. *Done;
   safety and refinement of file streams proved; `transform` next.*
7. `TcpSockets`, `UdpSockets`, `NetWork`, proofs in `SchedulerProofs`. *Done, safety
   proved; Unix sockets next, which repeat TCP without names.*
8. `EventEmitter`, `ModuleLoader`, `LibraryProofs`. *Done, safety proved.*
9. `HttpServer`, `HttpClient`, `HttpProofs`. *Done over TCP, safety proved; one
   request per connection.*
10. `Subprocess`. *Done for one child, from its parent.*
11. `Fetch`: the thread of a fetch beside the loop. *Done.*
12. `Stdin`. *Done.*
13. `StdStream`, `StdioProofs`, `ProcessEvents`: stdout, the child's side of fork,
    signals. *Done; safety of stdout proved.*
14. To come: `UvHandles`, the named pipes of `ipc.cc`.
15. Pure definitions against references: indentation, freezing, ordered maps.

Abstract specifications: `EventLoop` (implemented by `Scheduler`),
`TimerContract` (`Timers`), `PromiseContract` (`Promises`), `BytePipe`
(`FileStreams` with a pipe), `Coroutine` (reference for `AsyncFrame`).

## 3. Modules and code

**Scheduler** (`Async/Scheduler.cpp`, `Scheduler.hpp`). `pc` is where the loop
thread is in `run_until_idle`/`run_one`; `micro`, `macro`, `wake` (a pending
`uv_async_send`), `stop`, `active` handles, `th` (where each worker and fetch is;
those `running` make `has_pending` true), `sending` (threads between a push, or a
store, and the `uv_async_send` after it). Loop actions: `TestStop`, `TakeMicro`/
`EndMicro`/`Drained`, `TakeMacro`/`NoMacro`/`EndMacro`, `CheckIdle`, `PollWake`,
`PollHandle`, `EndEvent`; its code posts, opens handles, starts threads, and may stop
its own loop (`StopSelf`). Other threads: `Push`, `PushMicro`, `Stop`, `ExitPush`, each
followed by `Send`; and `Retire`, which wakes nobody. The order is the code's: a
worker ceases to be counted and then posts its exit event (`worker.cc:180`); a fetch
gives its count back and then settles its promise on its own thread, which may post
macrotasks, microtasks or nothing (`builtins.cpp:662`); a parent posts to its worker
at any time. `NextLine` is the REPL entering the loop again. Two variables are history:
`from` says who posted a continuation (the loop's own code, a thread counted then, or
a stray), `unseen` which fetches ended since `has_pending` was last asked. The
refinement maps queues to what is owed, handles and counted threads to live sources.

**Timers** (`create_timer`, `uv_timer_callback`, `cancel_timer`). One
`g_timers` (`entry`), a queue and a place `at` per loop. `CreateTimer` queues
the start lambda; `StartTimer` opens the handle unless cancelled; `FireTimeout`
closes it and erases the entry but leaves `uv_handle` pointing at it;
`CancelEarly`/`CancelStarted` are the two branches of `cancel_timer`, the
second queues `CloseTimer`. `OtherEvent` is code called from another uv callback
(an HTTP request), after which timers fire in the same `uv_run`: this is where
cancel and expiry meet. Of the loop only what `EventLoop` promises is kept: the FIFO
and its two ways out, idle (`ReturnFromLoop`) or told to stop (`Terminate`, seen by
`TestStop` at the head of the loop), with whatever is queued then. Behind both lies
the teardown, the `uv_run` of the scheduler's destructor: timers still fire and code
may still be called ("late"), but what it queues nobody takes (`EndTeardown`).

**Promises**. A reaction is the pair of callbacks that one `then`, `catch`,
`finally` or await pushes. `SettleOwn` is `fulfill_promise`/`reject_promise`;
`SettleNext` is `resolve_next`/`reject_next` inside `then`, which does not
schedule a check; a microtask is a snapshot of reactions in delivery (`run`),
the unhandled check, or a frame to resume. A callback is arbitrary code that
creates, settles and attaches, then returns, throws or returns a promise.
`attached`, `ran`, `consumed`, `flows`, `joined` are history. `Marked` and
`Downstream`, which the code walks and the properties follow link by link, are
smallest closed sets: the same promises, without recursion.

**Worker**. One function per field of `WorkerCtx`; `wpc` is where the thread
function is; a load of an atomic pointer and its use are two steps (`op`). The
worker's ending is as many steps as it has stores another thread can see.
Main runs code, its loop, and `join_all_workers`.

**AsyncFrame**. `Call`, `Stamp` (the callbacks an await leaves on the promise),
`Resume`. Each of the two runs `execute_frame_until_await_or_return`, whose
evaluation of a statement is one recursive operator per node kind, named after
the node, on a record of what evaluation can change. A node's identity is its
path. `Coroutine` evaluates the same tree in the ordinary structured way,
stopping when answers run out. Left out: scopes (`body_env`, `loop_env`,
`paused_env`), values other than truth, other iterables than arrays (they keep
their position in the same LoopState), awaits in conditional operands.

**Generator** extends it. In a generator's frame the operand `await` is a
`yield`: `waiting` is `paused_yield`, and what the caller of `next` or `return`
leaves in the frame (`sent`) is taken when that yield is evaluated again. One
call is one step, `ResumeGenerator`, or `ReturnUnstarted` before the first `next`; the
reference treats `return(v)` as a return statement at the yield. `ForGenerator` is
a ForIn over a generator whose elements are the counter `n`.

**Fetch** (`http.fetch` in `builtins.cpp`). `thread` is where the detached thread
of each call is: `Perform` gives the counter back, `ProcessResponse` settles the
promise, then the callbacks found there are called one by one. The loop thread
runs code, microtasks and `run_until_idle` beside it; looking at a promise's state
(`SeePending`) and pushing a reaction (`Attach`) are two steps, because nothing
locks the promise.

**FileStreams** (`streams/readable.cc`, `writable.cc`, `readable_state`,
`writable_state`, `pipe`). A readable and a writable stream of files with at
most one pipe between them. `r` and `w` are the two states, `on` the listeners
of each event in order, `stack` what is still to run of the call in progress:
an emission, a completion's remaining steps, the script. Each uv completion
(`ReadCompletes`, `WriteCompletes`, the deferred reads) puts its steps on the
stack; `Turn` takes the next one; a listener of the script may make any of the
calls of `Api` where the code lets it. `file` is the destination: all that was
written to it (`data`) and, of that, the units of the source (`units`). History
are `accepted`, the chunks that entered the write queue and did not fail, and
`broken`: an operation failed, or the script ended or destroyed a stream itself.
`Careless` lists what the streams do not bear from a script: among them `end()`,
`uncork()` or a `resume()` that finds the end of the source inside the callback of
a write ("flushInCallback"). The resume was missing from the list until the proof of
`FinishInv` came to the step it breaks: the pipe's end handler then ends the
writable between the completion of a write and the test for finish.

**Duplex** (`streams/duplex.cc`). One record `d` for the native state, `tasks`
for the macrotasks and ticks under way, `under` for the implementation that the
script supplies (its `write` calls back later), `sink` for what it got. `Push`,
`PushEnd`, `Write`, `EndW`, `Pause`, `Resume`, `Destroy` are calls of the script.

**TcpSockets** (`net_module/tcp.cc`). Clients connect through the addresses of a
name one after another (`Resolved`, `Connected`, `Refused` with `TryNext` inside
it); guests are accepted by a server. `sock` is the instance, `uv` the handles
with the socket they point to, `work` the counter behind `has_pending`, `queue`
the tasks posted with `scheduler_run_on_loop`, `at` where the loop is. The peer
(`PeerActs`) sends chunks, ends, answers or does not.

**UdpSockets** (`upd.cc`). `inst` is the instance, `hnd` its handle, `jobs` the
tasks that bind, send and close, `held` whether the script still has it.

**NetWork** (`net_module.cc`). A ping of `Count` attempts by TCP or ICMP and a
lookup, with the counter; `try` is the attempt under way: what it waits for and
its timer.

What a caller may do that the code does not survive is left to it by constants:
`Careless` of `FileStreams`, `TcpSockets` and `Duplex`, `UdpCareless`. Each
member allows one such call; the runs give the empty set unless they show what
it does, and section 7 tells the rest.

**Stdin** (`stdin.cc`). `io` has the module's globals: flags, handles, the two
buffers; `ears` the listeners per event, `todo` the macrotasks: those that calls
leave (`RunTask`) and callbacks of listeners (`RunListener`, `RunOnce`, `RunPipe`).
Keys are read one by one; what libuv delivers as one chunk is several `Read`s before
the loop takes a task. `seen.owed`, history, is what has been read and not handed on.

**EventEmitter** (`events/event_emitter_class.cc`, and `events.cc`, which repeats
it). The lists per event, each the set of its registrations, whose numbers are the
order of the vector; the emitter's callbacks in the macrotask queue, the flags of
`once` wrappers. Other callbacks in the queue do not matter to it.

**ModuleLoader** (`ModuleLoader.cpp`, the import statement in
`StatementEval.cpp`). The cache, all records ever made, the evaluations inside
one another. `Keys` are those of the cache: the path of a file, but for a file that is
the entry of a package (`Packages`) also the one made of the package's name and the
path. What a file does is a free choice at each step: import by any key, throw, catch,
export; the text of the `Broken` ones does not parse.

**HttpServer** (`http/http_server.cc`). `server` is the `ServerInstance` with the
tasks of `listen` and `close`; `res` the `HttpResponse` with its connection: what
waits in `write_queue`, what uv still has to write (`out`), all it was given
(`wire`); `req` the `HttpRequestState`, fed by `OnRead` with some of what the peer
has sent (`input`), which the parser turns into callbacks one by one (`todo`,
`OnHeadersComplete`, `OnBody`, `OnMessageComplete`, `OnParseError`). The calls of
`res` and `req` are actions of the script, in the handler, in a listener or later.
`OnWritten` is the completion of the oldest write, with its closure by kind.

**HttpClient** (`http/http_client_modern.cc`). `cl` is the `HttpClientRequest`;
`posted` the macrotasks, where almost everything goes: `flush`
(`process_write_queue`), `close` (`close_connection_internal`), a listener to
enqueue (`Relay`) and then to call (`Hear`). The uv callbacks run when no task is
left. A listener is assumed for each event.

**Subprocess** (`subprocess/subprocess.cc`, `subprocess_fork.cc`). `ch` is the
`ChildEntry` of exec, spawn or fork with who owns it (`known` to the registry,
`held` by the script or by exec's listeners) and the writes under way, `fds` its
pipes and its process handle, `os` the process. A chunk is its place in what the
child wrote; what a process that outlives it writes is 0. Reading, listeners,
the answer of exec and the closing of handles are `tasks`; `ReadOutput`,
`ReadEnd`, `ExitCb`, `WriteDone`, `HandleGone` are uv's callbacks. `ExitCb` waits
for the chunks there are, because uv polls pipes and signals together and handles
signals last (this holds for one child: the signal of another may come earlier). A
second close of a handle aborts, as libuv asserts; a use of freed memory leaves the
loop `astray`; both end the behaviour.

**StdStream** (`process/iostream.cc`). `s` is the state of stdout or stderr,
`flight` the write under way, `ops` its share of the counter behind `has_pending`,
`under` what is left of the functions under way: listeners and callbacks are called
inside them and may call the stream again. `Written`, `WriteFailed` begin
`on_std_write_complete`, `AfterWrite` is what follows the callback of the write.

**ProcessEvents** (`process/process_ipc.cc`). `on` has the listeners per event,
`keys` the names `signal_listeners` knows, `handles` the `uv_signal_t` per name,
`action` what the signal does to the process, `ipc` and `parent` the two ends of
descriptor 3. One signal under its two names (SIGTERM and TERM) and the catch-all
event show what the table of handles does to its users; `Raise` is whoever sends it.
What the script does to itself leaves a mark (`slips`).

Calls that HTTP does not survive are allowed and leave a mark in the history
(`slips`), which the properties name as their exceptions.

**MC modules** give values: model values, symmetry, and for `AsyncFrame` the
families of bodies. `MCScheduler`, `MCAsync`, `MCWorker`, `MCStreams` and `MCLibrary`
put components side by side that share no state: `live` says which one a behaviour
is of, the others stay in one initial state.

## 4. Runs

| run | bounds | shows |
|---|---|---|
| `scheduler` | 1 task and a worker's exit event, 1 worker, 1 fetch, 1 parent, 1 handle, 2 entries of the loop; 2 promises, one of them a nap; a TCP client with 2 addresses, a guest, 2 chunks, 4 calls; a UDP socket with 2 messages, 5 calls; 2 pings | no wake-up is lost but a fetch's that is never sent, no return while something counted is left, the loop's own microtasks first, refinement of `EventLoop`, tasks run unless a stray's find the loop gone, stops are heeded, a quiet loop returns unless a fetch ended unseen; every reaction of a settled promise runs; sockets have one owner and one close per handle, hear their input in order, count what is waited for, get every answer and let the loop go |
| `timers` | main and a worker that may be told to stop, a timeout and an interval, another handle per loop | no double close, no freed entry; a thread that ends leaves no running timer, and no entry but those whose lambda a stop kept from running; refinement of `TimerContract`; expiry, and release after cancel, with the same exception |
| `timers_end` (violation) | the same loops, one timeout | a loop that blocked for another thread's timer is never woken, nor is main, which waits for it |
| `worker` | 1 worker, 2 messages each way, another handle; a child with stdin and stdout, 2 chunks on each output, 3 calls; a script with 2 functions, 3 calls, 1 signal, 2 messages | of a worker: order, exit once and last, a listener stays, main never blocks for it when dead, it ends when stopped; of a child: output in order and before the exit, exec answers with all its command wrote, each write is answered once, the loop returns; of a script with a parent: messages and signals are heard, a signal somebody listens for does not end it |
| `children_stdin` (violation) | a spawned child with stdin, 2 calls | `stdin.end()` and the exit close stdin both: libuv's assertion |
| `worker_exit` (violation) | the same worker | main can leave between `running=false` and the exit event: no exit handler |
| `async` | 622 bodies of async functions, 615 of generators, 4 answers, 2 rounds; 3 promises, 2 reactions each, adoption | replay is waiting, for bodies of the regular shape, and nothing stale is kept; refinement of `PromiseContract`, rejections through `reject_promise` are judged, no false report before a callback has returned a promise |
| `frames_replay` (violation) | 15 bodies | each condition of the shape is needed |
| `fetch_thread` (violation) | 2 fetches, 2 reactions each | a reaction runs on the fetch's thread beside the script |
| `streams` | files of 0 and 3 chunks, a buffer of one chunk, 3 calls, read, write and listener errors; a duplex with 4 calls and a destination of 2, either half-open or not; stdin with 3 keys of 5 kinds and 3 calls; stdout with 4 calls, a mark of 2, refused and failed writes | file streams lose nothing, keep their file open for it and call every listener; the pipe keeps its buffers bounded, implements `BytePipe`, ends; a duplex keeps order both ways, its ends come last, what is pushed or written is dealt with; keys are handed on once and in order, the tasks of stdin leave what its flags say; what is written to stdout leaves in order, holds the loop while it does, and finishes last |
| `streams_finish` (violation) | no faults, `end(chunk)` in a write callback | finish and close with a write in flight |
| `library` | 2 functions, 2 events, 4 calls; 3 files, of which one is a package's entry and one does not parse, and a native module, 3 records; a request with a body of 1 piece, one write with uv at a time, a file of 2 chunks, 3 calls; an answer of 1 piece, 2 calls | every registered listener hears each emission, in order, once where asked; modules run once per key, cycles and failures included, and are imported whole but for the file that does not parse; requests and responses go out and are heard whole and in order; connections close, queues empty |

Why the bounds are enough. A task and an exit event show order,
in one queue or in both; worker, fetch and parent, the three kinds of thread there
are, show wake-ups merging into one, which is all `uv_async_send` can do;
two entries show a stop or a wake-up left over from the first. A timeout and an
interval on two loops meet in one `uv_run` in all four combinations; a queue of
three jobs holds a start, a close and a call at once. Three promises are a
promise, its `next`, and one that a callback returns; two reactions show order
and a late one. Two messages show order, and so do two chunks on each of two outputs; three calls are
a spawn and two of on, write, end, kill. Two rounds and two elements of a loop
show the first round's traces in the second; four answers reach a third
await after a second round. Two addresses show the walk going on after
a failure; a chunk is the readable's 65536 bytes, which is also the
writable's default mark (`writable.cc:45`), so a buffer of one is the program as
it comes, and a file of three shows the pipe full, drained and full again; four calls of an emitter are a registration, two emissions
and a removal; with room for one write (16 in the code) the second chunk waits and
the third call ends the response over both; a client's two calls are two writes
of which one waits for the head, or one and an end; three records are a cycle of two and a module that fails and is
loaded again, or a package that imports itself back by path. Every bound is a guard in the module, named in its CONSTANTS.

`CHECK_DEADLOCK FALSE` is used where the program really may stop: a loop that
has returned, a call that has ended, a worker that hangs because its code left
a server open, a program that enqueues nothing more, streams and sockets that
are closed, scripts that have used up their calls.

### The regular shape

What `async` and `frames_replay` together say about awaiting in Swazi:
replay (of generators too) is right if each expression has at most one await, evaluated before
anything else in it; loop conditions and iterables are cheap, pure and do not
change within a round before its last await; no await stands in a catch or
finally block or in the head of a switch; and exceptions do not leave compound
statements inside a try. Otherwise:

* effects and operands before an await run again at each resumption;
* a while or for whose condition became false in the round drops the rest of it;
* an await in a catch or finally block runs the try block again;
* an await in a switch's discriminant selects the first case, one in a test
  selects none;
* an await in a do-while's condition repeats the round;
* a ForIn evaluates its iterable at each resumption, and one over a generator
  drops an element at each (`StatementEval.cpp:1282`);
* an exception leaves LoopStates behind, and a retry of the same statement in
  the same call resumes the abandoned round (in synchronous functions too);
* `return` of something that throws inside a try returns although the catch
  block handled it.

`Irregular` has one body for each.

## 5. Fairness

`Scheduler`: the loop thread and each other thread that has something left to
do take steps (the OS schedules threads): one that pushed goes on to its wake-up, a
worker that is no longer counted to its exit event. Handles' events, new work and the
end of workers and fetches are not assumed. `Timers`: code returns, queued lambdas run,
and a due timer fires sooner or later although its loop is not always polling: strong
fairness, because uv runs all due timers in every turn, those of the teardown included. `Promises`: callbacks return and
the loop goes on; strong fairness for macrotasks because the queue is FIFO; no
promise need settle. `Worker`: both threads are scheduled; messages, events,
terminations and the closing of handles are free choices. `Subprocess`: tasks run, uv reads,
writes and reports the exit; exec's command ends, and so does a child that was
killed; another child may live for ever. `ProcessEvents`: the loop hands on what there
is; signals and the parent are free. `StdStream`: libuv answers its writes. `FileStreams` and `Duplex`:
uv completes file requests, queued tasks run, callbacks return; strong fairness
where a listener's calls may disable a step again and again. `TcpSockets`,
`UdpSockets`, `NetWork`: the loop turns, uv answers each request it holds
(connected, refused, written, timed out), while what the peer sends, and whether
it ends, is a free choice. `HttpServer`, `HttpClient`: the same, and the parser and
the queued tasks go on; strong fairness for uv's answers, which wait while the
script runs. `AsyncFrame` has no
liveness property: that a settled promise resumes its frame is
`EveryReactionRuns`.

Starvation the code allows, which the fairness does not hide: a macrotask chain
that keeps re-enqueuing itself keeps `run_until_idle` from polling, and a frame
that keeps awaiting settled promises keeps macrotasks waiting. The model bounds
both, so its liveness results are for programs that do neither for ever.

## 6. Proofs

`SchedulerProofs` proves in its first part, from `SchedulerAssumption` only (any sets of tasks,
threads and handles, disjoint where they play different parts): `TypeCorrect`,
`NoWakeupIsLost`, `MicrotasksRunFirst`, `LoopNeverReturnsEarly` and
`SchedulerImplementsEventLoop`.

`NoLostWakeup` alone is not inductive: a state in the middle of the idle test
with a push it has missed and no wake-up would satisfy it, and the next step
break it. `WakeInv` says what each program point knows: past the microtask
drain the microtask queue holds only what fetches posted from their own threads
meanwhile, with a wake-up owed; past the macrotask test a macrotask is there only if a
wake-up is pending or a thread is about to send it; past the stop test the same
of `stop`; and a blocked loop with no handle and no counted thread has a wake-up, a
worker on its way to the exit event, or a fetch that ended after the predicate was
asked. `uv_async_send` after the push is what makes these stable
under other threads' steps, one proof step per action. `MicrotasksFirst` and
the refinement follow with the same invariant: only `TakeMacro` starts a
macrotask, at a point where `micro` holds only strays. That they stay strays when
others post (`StraysStay`) needs that a continuation is posted once. `NoEarlyExit` is
inductive together with the type invariant (lemma `ExitStep`): once the loop has found
itself idle no thread is counted, so whatever is pushed from then on is a stray's.

`TimersProofs` proves, from `TimersAssumption` only (any timeouts, intervals and
loops): `TypeCorrect`, `HandlesHaveOneOwner` (no handle is closed twice, and
none is open whose entry is gone), `LoopsLeaveNothing` (a thread that ended has no
running timer, and no entry unless it was stopped before it took the timer's start or
close lambda) and `TimersImplementContract`. No invariant is inductive: whether `CloseTimer` may close a handle depends on what else is
queued. `JobsAtHome` says that jobs and expiries are on their timer's own loop,
`CloseInv` that a queued close job implies the cancel flag and an open handle,
`StartInv` that a start lambda is queued at most once and only before its handle
exists, `EntryInv` that a handle that was freed has no entry any more. Together
they say that of expiry, cancellation and close job only one finds the handle
still to be closed. `LambdaInv` is the other direction: an entry without a handle has
its start lambda queued, a handle of a cancelled timer its close lambda. So what a
stopped loop leaves registered is either live, and then the destructor's `uv_run` goes
on, or waits for one of the two; `EndInv` says that a loop that was idle has none of
either, and that nothing in its teardown runs code that could make one. `TimersImplementContract` is the refinement of `TimerContract`
with the same invariant: the callbacks owed are counted in queues that shift
(`WhereAppended`, `WhereTaken`: what an append and a `Tail` do to the number of
positions that hold a value), all on the timer's own loop because of `JobsAtHome`,
so that the count is finite whatever the set of loops is; `StartTimer` and
`CloseTimer` erase only entries whose flag is set, which the contract does not see.

`PromisesProofs` proves, from `PromisesAssumption` (any promises and bounds,
callbacks that return promises or not) under the hypothesis `Naps = {}`,
`TypeCorrect`, `PromisesImplementContract`, `RejectionsJudged`
(`RejectionsAreJudged`) and `ReportsAreTrue` (`NoFalseReport`). The hypothesis is
that of the run `async`; with naps the contract is false (section 7: their
reactions are macrotasks, and a late one overtakes them). None of the four is
inductive; three groups of invariants make them so.

- *Who owes what.* A reaction is owed while it waits with its promise, in a
  queued delivery or in the one that runs. `OwedInv`: what is owed of a promise
  is numbered from the last reaction that ran to the last attached, each number
  once, and no two owed reactions settle the same promise. `OrderInv`: queue and
  delivery hold them in rising order. So the one in front is the successor of the
  last (lemma `IsNext`), and the promise it settles is pending still
  (`Linked`, `RunInv` for the callback that runs): `resolve_next` and `reject_next`,
  which test no state, never settle twice.
- *Where a rejection goes.* The link `parent` is one promise, the flow of
  rejections a graph. `LinkInv` says how they differ: a link leads against a flow,
  or is one that adoption has redirected; and a promise that was fulfilled or adopted
  another has a link only to one that is done with its own rejection.
  `HandledInv`: whoever bears a mark has a handler downstream, is fulfilled, or
  adopted a promise, in which case `reject_promise` did not reject it. `MarkedExcused`
  carries this through the walk of `mark_promise_and_ancestors_handled`, as its
  marks are the smallest set closed under the link. `MarkInv` is the converse
  while no callback has returned a promise: marks reach up to the end, so that the
  promises without one are closed downstream.
- *What is still to be judged.* `JudgeInv`: a rejection is reported, has a handler
  downstream, has a check queued, or is in a delivery that will queue one.

`LibraryProofs` is about the program of the run `library`. Of the loader it
proves `ModulesStayWhole` from `LoaderAssumption` (any files, packages,
native modules and bounds, files that do not parse included). `StackInv` says that each
frame but the script's evaluates an unfinished record of its own, which is the one cached
under its key; `CacheInv` that a cached record is of that key and finished, on the
stack, or of a file that does not parse; `LoadedInv` that a finished record is whole and
stays the one of its key; `SeenInv` the same of what imports took. The property speaks of
files, and two keys of one module are the same key (`OneKey`): a file has one,
unless it is a package's entry, and then the property compares only imports made in the
same way. No module is entered again because the frames' records are distinct, there
is one instance because a finished one is never replaced, and an import is whole
because what it finds in the cache is finished, on the stack below it, or one of the
exceptions.

`WorkerProofs` proves, from `WorkerAssumption` (any workers, cap and numbers of
messages), `TypeCorrect`, `ExitReaches` (`ExitReachesMain`), `ListenersRemain`
(`ListenersStay`) and `MessagesInOrder` (`HeardInOrder`). "The exit event comes
last" says nothing about a queue that still holds a message, so it is not
inductive. `QueueInv` says that main's queue holds exactly what was said and not
yet heard, each once and in rising order per worker: then the next to be taken is
the successor of the last heard (lemma `NextIsFirst`). `ExitInv` says that an exit
event is queued only for a dead thread, behind all its messages, and that nothing of
the worker is left once it was handled. `RunInv` says that `running` is false from
`Halt` on, which is why a main that finds `WorkersExist` may block: the thread it
counts on still has its exit event, with the wake-up, ahead (`NoHang`). `ListenInv`
ties a listener's keep-alive handle to the stop flag. The type of `exits` (at most 1)
needs `ExitInv` as well.

Of the emitter `LibraryProofs` proves, from `EmitterAssumption` (any functions,
events and bound on the calls), `EmitterIsTyped` and `EmissionsReachListeners`
(`EmissionsAreHeard`). That a function given to `once` is called for the *first*
emission it was registered for is a statement about what is heard in the end,
several callbacks after the wrapper decided it. `QueueInv` says that the callbacks
of lists are queued by emission and registration, behind what was heard, and that
a call which a wrapper has queued is for the first emission owed to it: when the
wrapper fires nothing of it was heard, so all that it is owed still waits in the
queue behind the one that fires (`DebtsArePaid`). `FiredInv` says that a fired
wrapper has exactly one call, queued or made; `ListInv` that a registration's
number is on one list at most and on none once it fired, which needs that lists
are finite; `OwedInv` that a registration is of `once` or not, for good.
`ListHasAll` is the lemma that a copied list holds every registration.
`LibraryIsTyped` (`LibraryTypeOK`) puts the four components of the run side by side.

`HttpProofs` proves `HttpTrafficIsWhole` (`HttpIsWhole`) from `HttpAssumption` (any
body, answer, mark, file and numbers of calls), for every script and every order of
uv's answers; the marks in the history (`slips`) excuse what section 7 says.
Server and client share nothing, so the invariant is `ServerInv` and `ClientInv`.

- *What the server sends* (`Right`). The wire alone does not say which chunk comes next:
  that is up to the queue and to the completions that take from it. `InLine`: the chunks
  that wait are the last of those given, in order, and they wait only while as many as the
  mark are in flight, or once the response was ended. `OnTheWay`: the chunks uv has are the
  last of those that do not wait, so that each completion knows which one is
  done and the next from the queue is the successor of the last. `Laid`: head, chunks and last
  frame were handed to uv in their order, the last frame when nothing waited or was in
  flight. `FileLaid`: of a file one piece at a time, and no chunk waits beside it.
- *What the server hears* (`Heeded`): what listeners heard, what is buffered, what
  the parser still has to tell (`todo`) and what it has not read (`input`) make up the
  body, once and in order; the end is heard behind it all.
- *What the client hears* (`Talks`). An event passes two tasks: one says it, one
  has it heard. `Ordered` compares any two events over the three places where they may be
  (heard, to be heard, to be said), by `Rank`, their place in the answer: an invariant of
  the heard ones alone would not survive a task, nor one of the queue alone an
  answer that is read. `Moved` and `Following` say of a step where each event was before;
  events that keep the order of their places stay in order (`SameOrder`). The parts not parsed come behind
  all that was told, none is missing, and a close that nothing in flight precedes has
  only `drain` behind it.
- *What the client sends* (`Uploads`): what went out and what waits, one after the other,
  are the head, the chunks by number and the last frame.

`StreamsProofs` proves from `StreamsAssumption` (any sizes, mark, bound, calls,
faults and options) `TypeCorrect` and `NothingIsLost`, for careless scripts too. The
two need each other: what `WriteError` takes out of `accepted` is there because
nothing was lost before. `NothingLost` is an equation between concatenations;
a chunk that moves from the queue to the request, or from there to the file,
leaves `writing \o queue` or `data \o writing` as it was, which is `NextWriteFine`
and `EndedFine` and needs that at most one chunk is with uv (`FineW`). `Entrances`
is the lemma behind all that follows: a function on the stack after a step was there
before, as deep, or is one of those the step enters.

Its second part proves `FilesStaySafe` (`FilesAreSafe`), `FinishedIsWritten`
(`FinishMeansWritten`) and `PipeImplementsBytePipe` (`ImplementsPipe`) under the
hypothesis `Careless = {}`, the one of the run: section 7 (*Streams*) tells what its
members break. The invariant has these layers.

- *Where functions stand.* `PlaceInv`: what a read or a completed write entered is
  at the bottom of the stack, an emission of data just above it, and no
  emission of end is under way together with the rest of a completed write.
  `OpenInv`: the readable's file is open until it ended or was destroyed.
- *What the vectors hold.* `OnInv`: of each event nothing, the script's listener, the
  pipe's handler, or both in this order; so a handler that erases itself is
  the last, and shifts nobody. `HearInv` counts the listeners still to be called by
  the place an emission has reached; `EveryListenerHears` follows.
- *In which order the writable goes down.* `FinishInv`: it ends, finishes, closes;
  when it has finished nothing is queued or with uv, and between a completed write
  and the test for finish an ended stream writes nothing.
- *What a failure leaves.* `FaultInv`: until something went wrong or finish was said,
  no stream is destroyed and no function is under way that a failure enters. The copy
  need only be right while this lasts (`Good`).
- *The copy.* `GoodInv`: a readable that ended has been read to its end, and an emission
  of data carries the last unit read. `CopyInv`: the units that wait for the file are
  in order and are just those between the last one in it and the last one handed
  to the pipe (`Sent`: what was read, less one while its emission has not reached the
  pipe's handler). That a pending emission is neither lost nor skips the handler
  is `WaitSteps`, from `OnInv`, `PlaceInv` and the shape of each step (`Shape`).

`ImplementsPipe` follows: the chunk whose write completes is the next of the copy
(`NextUnit`), and a writable that finishes has an empty queue behind a source that has been
read to its end, so the copy is whole (`Whole`).

The second part of `SchedulerProofs` proves the four network invariants of the run `scheduler` from
`NetworkAssumption` (any finite sets of clients and guests, any number of addresses,
any bounds): `LoopIsKeptAlive` (`WorkIsCounted`) for every script; `NetworkIsTyped`
(`NetworkTypeOK`) and `HandlesHaveOwners` (`SocketsOwnHandles`) under `UdpCareless = {}`;
`EverythingReadIsHeard` (`InputIsHeard`) under that and `Careful`, a TCP script that
neither listens before its connection nor resumes before it listens. Section 7 (*TCP*,
*UDP and ping*) tells what the others break; the hypotheses are those of the run.

- *One handle at a time.* A socket closes its handle through the field `handle`, its
  callbacks through the address they belong to, and the two may differ after a close or
  between two addresses. `Sound` says for one socket which states of its row of handles
  go with which state of the walk: at most one handle is under way, those behind a
  connecting one are untouched, one being closed belongs to a socket that counts as
  closed, and the socket is kept unless an attempt was cancelled. `Heeded` adds, for
  careful scripts, that a handle reads just when somebody listens and nothing is paused.
  There is one lemma per move of a single socket (`HandleOpens` ... `ClosesTwice`), and
  `SocketMoves` carries it to the whole table.
- *The counter.* `Moved` says by how much a move changes what the socket weighs: 1 for a
  client under way, -1 for a guest whose peer has ended it. `WorkMoves` makes of it the
  equation of `WorkMatches`, whose terms are cardinalities. Stating it showed that the
  model's own first form of `WorkMatches` was wrong from three addresses on: it counted the
  *sockets* with a cancelled attempt, but `close()` may cancel several attempts of one,
  as the walk goes on with a closed socket. The history now holds the attempts, and
  each costs the counter one.
- *What is heard.* `Carried` says that the numbers which the jobs of one socket carry in the
  queue are those from the last one heard to the last one read, in order; `CarriedHead`
  that the next to run is the successor of the last heard. `ClosesOf` puts the
  close behind every chunk of its socket, once, and only for one whose peer has ended
  (`Finished`), which lasts, so that nothing is read behind it. UDP is the same for
  messages (`HeardInv`), and `UdpInv` ties the states of its handle to the tasks queued.
- *Ping.* `AttemptInv` says which handles, timer and waits each phase of an attempt has,
  `CountInv` how many attempts are answered, failed and under way.

`StdioProofs` proves `OutputIsWhole` from `StdAssumption` (any number of calls and any
mark) and `Careless = {}`: `OutputInOrder`, `OutputHoldsLoop` and `FinishIsLast`, the
parts of `StreamsAreSafe` about stdout and stderr, and their types. `InOrder` numbers the
chunks as they are taken: those that wait are the last ones, the one with uv is just
before them, and each earlier one is written or lost, not both. `buffered` cannot be trusted to
be the length of the queue, as `end` with a chunk does not count it; it falls short by at most
that one. `Finishing` is about the stack: what a completed write runs is at its bottom, and once the
stream is ended, nothing is with uv while it runs, so that finish finds all written; `end()`
inside a callback is what breaks this. `Holding` says who lets go of the loop
(`LetsGo`) while no write is under way. `AttemptKeeps` is the lemma all calls share, as each
ends in an attempt to write the next chunk, which uv takes or refuses.

Only model-checked: liveness everywhere (it is out of the prover's reach);
`Backpressure`, which counts with `SelectSeq`: to the prover that operator, like
`FoldLeft`, is a recursive definition and opaque. For the same reason `OutputInOrder` compares
chunk numbers and does not filter what was taken. Further the modules without a proof
(`Subprocess`, `Stdin`, `ProcessEvents`, `Duplex`, `Generator`, `Fetch`), and with them
the bundles of the runs `worker`, `streams` and `async` that name them; and `AsyncFrame`,
whose operators are recursive.

## 7. Disagreements found

The findings in `PROJECT.json` quote the line each contradicts. Reading the
code for the model turned up more, which no run shows:

*Loop and timers.* Besides `timers_end`, whose cause every count that all
threads share has in common (`has_pending`, `Async/AsyncApi.cpp:84`): `clearTimeout`
from another thread closes the handle on the wrong loop (266). A worker told to stop
before it took the start or close lambda of a timer leaves it in `g_timers` for good
(`Scheduler.cpp:152`), so that main never finds itself idle; one whose interval (or any
other handle) is live then stays in the destructor's `uv_run` for ever (55), and main
waits for its exit. `NothingLeftBehind` and `EveryTimerEnds` state the first exactly. A nap's reactions are
macrotasks, so one attached after it ended overtakes the earlier ones (496).
A macrotask chain starves polling (`Scheduler.cpp:153`), microtasks starve all
else (91).

*Promises.* An exception in a then-callback without a catch is never reported
(`ExpressionEval.cpp:993`); a rejected promise that a callback returns is
reported although its chain has a catch; `Promise.all` takes `new Promise`
objects for plain values.

*Workers.* `terminate()` before boot stops nothing (`worker.cc:698`); a message
buffered after the drain of `pending_messages` stays there, and one sent after
boot overtakes those in it (113); the scheduler's pointer is loaded and then
used while the thread destroys it (105); the cap counts a registry from which
running workers are evicted (412), and those are never joined (718).
`g_uv_handles` is process-wide, so a worker's end closes the uv handles of every
thread (`uv.cc:39`).

*Child processes.* Besides `children_stdin`: once the script has dropped a spawned
child, the task that `exit_cb` queues reads an entry that is freed
(`subprocess.cc:442`), and `kill()` after the exit uses the deleted process handle
(339); a failed `uv_spawn` deletes pipes that the loop still knows (666).
`stdin.write` followed by `end()` drops what is not yet written. What a process
that outlives exec's command writes is lost. Messages of fork have no frames: two
sends may arrive as one.

*Standard input.* Beside what `StdinIsWhole` (a part of `StreamsAreSafe`) says: the wrapper of `once` removes
itself only when its turn in the queue comes, so two keys of one chunk call it twice
(`stdin.cc:670`), and `removeListener` does not find it. The drain of a destination
resumes also what the script has paused, and drops the first chunk it then reads
(579). `close()` clears the listeners in a task: one added between is gone, and
stdin is not opened again (1045). A line begun before `close()` is put in front of
the first line after reopening; one without an end is dropped at the end of input. A
write refused to the pipe after `close()` holds the loop until it drains (540), for
good if `pipe` is called in between; `pipe` on a paused stdin leaves the handle that
holds the loop (635). The signal handle of the terminal's size keeps a program that
has read the end of its input from ending unless it calls `close()` (429).
`setDiscardOnPause` sets a flag nobody reads.

*Standard output.* `end()` or `uncork()` in the callback of a write makes finish come
early or twice (`iostream.cc:238`; `Careless = {"flushInCallback"}`). A write that
fails leaves what is queued behind it until the next call (229), one that is refused
never answers its callback (181). A listener registered inside an emission of its own
event invalidates the vector that is walked (128). `bytes_written` adds the status,
which is 0 (233).

*Messages and signals.* The "catch-all for ALL signals" (`process_ipc.cc:409`) loses a
signal when `off` of its name closes the one handle (634). A listener of the short name
(`on("TERM")`) is never called, since `signal_cb` looks up the full one (354), and its
handle makes the others hear each signal twice. `off("signal")` leaves handles that
swallow their signals and hold the loop (611). Reading starts with the first `send()`:
what arrives before `on("message")` is dropped (235), and `off("message")` does not stop
it. A process whose descriptor 3 happens to be open takes itself for a child (165).

*Async functions and generators.* A finally block is cut short or skipped by jumps
around an await (`StatementEval.cpp:2033`). "Finally block — ALWAYS run" (2028), but
`return(v)` to a generator paused inside the try leaves without it (1997). A body
that calls `next` of its own generator starts its statement again, without end
(`FunctionCall.cpp:189`).

*Streams.* `pipe` erases its handlers while the vector of handlers is walked;
`destroy()` or `close()` inside a callback, or twice, emits end or close again;
pause and resume in the last data callback emit end twice and drop the last
chunk; an empty file ends without close; `end(chunk)` is not counted in the
unsigned `buffered_size` it is later taken from (`writable.cc:724`); a short
write counts as a whole one; a write error without `autoDestroy` stalls the
pipe's reader; the pipe's drain resumes a stream that the user paused. A
`resume()` before anything made the stream flow keeps a pipe from ever starting its
first read, and one that finds the end of the source inside a write's callback has
the pipe finish early, as `end()` does there (`streams_finish`). A duplex
paused while its push worker runs keeps `emitting` set and the drain handler
starts no worker (`duplex.cc:891`); its end overtakes paused data; a half-open
one whose readable side ends after finish never closes (315).

*TCP.* `on("data")` before the connection leaves the socket deaf: `reading` is
set although `uv_read_start` failed with ENOTCONN, so nothing starts to read
later, and a second `on("data")` returns at once (`tcp.cc:112`; allow it with
`Careless = {"listenEarly"}`). `resume()` without a data handler drops data;
`listen` twice loses a handle; an accepted socket's end takes from a counter it
never added to, so the loop may return while a connect resolves (146);
`close()` while connecting gives the counter back twice and the walk goes on
with a closed socket (740), and during resolution the socket opens afterwards;
`getaddrinfo` refusing a name tells nobody; drain does not come after a failed
write, nor to a handler added after the queue emptied.

*UDP and ping.* A socket that the script drops after `close()` is freed before
its close callback (`upd.cc:580`); the name of `bind` resolved after `close`
binds a null handle; `close(cb)` after a failed init never calls `cb`. A name
refused at once leaves `resolve` counted (`net_module.cc:206`); the timeout of a
TCP ping frees the context that the cancelled connection then reads (867); an
ICMP ping that is answered never settles, and any echo reply counts (547).

*Emitter and loader.* `off(event, f)` does not remove what `once(event, f)` added;
the function of `once` is called one callback later than the others, and so may
be overtaken by the next emission; `emit` of the class returns true also without
listeners. A module that does not parse stays in the cache with empty exports
(`ModuleLoader.cpp:1063`): the lexer and the parser run outside the block that
erases the record of a module that fails ("avoid broken modules being reused",
1124), so an import that is tried again succeeds with nothing (`Library.cfg` has such a
file, and `ModulesAreWhole` excepts it by name). The entry of a vendor package has two
keys (410 and 1001): imported by the package's name and by its path it is two modules,
and if it imports itself back by path it is evaluated inside its own evaluation; the
property excepts these pairs of keys and no others. The script's own file has no record
either: something that imports it back evaluates it as one more module. Partners in a cycle keep what they
took from a module that failed afterwards.

*HTTP server.* `end(chunk)` while writes are in flight, or `end()` while chunks wait
for room, never sends what is queued, nor the last frame, and the connection is
not closed even when the peer leaves (`http_server.cc:512`: `finished` stops the
queue that `end` has just lengthened). "Connection will close after response is
sent" (1562), but the server never closes one by itself; a second request on it is
never answered. An end listener that registered before a late data listener hears
the end first, and again (910). `sendFile` over queued chunks or an announced length
sends broken framing; of an empty file it reports an error; it never calls back when
the peer is reset. A reset connection is never closed: `uv_shutdown` is refused,
which nobody looks at (826). The objects of a request use its state after the close
has deleted it (`HasRequest` keeps the script from it). `listen` after `close` leaves
a handle that holds the loop.

*HTTP client.* A close with a lookup, a connect or a write in flight deletes the
request that their callbacks then use, and an error is heard after the close
(`http_client_modern.cc:277`). A file body stops after its first 64 KB: the
callback that reads the next is handed to `queue_write`, which nobody calls (938).
What `uv_tcp_connect` refuses at once is unnoticed and holds the loop (1623).
`end()` before the connection sends the last frame before the head, `write` after
`end` goes out after it; a GET may write too. An answer that ends with its connection
has no end event. `abort()` after the close tells an error.

*Fetch.* Besides `fetch_thread`: as the settlement wakes nobody, a loop whose only
work was a fetch without reactions polls for ever (`builtins.cpp:662`), the exception
that `NoLostWakeup` and `QuietLoopReturns` make; the counter
is given back before the promise is settled, so the loop may also return in between
and an awaiting frame never resume (the strays of `NoEarlyExit` and `EveryTaskRuns`); a reaction pushed while or after the thread walks
the list is never called, or breaks the vector.

## 8. Not modelled

Unix sockets, named pipes, fs, uv and the addon interface are planned (section 2); of HTTP, TLS, the pipes of requests and a second
request on a connection. Of child processes `execSync`, options and the failure of
spawn are left out. Of the streams `transform` and chunk sizes,
of TCP options and shutdown timing, of UDP multicast and options are left out.
Lexing, parsing, formatting, dates, URLs, regexes, crypto, archives and
serialization turn text or bytes into others and have no state worth a model
checker; CLI, REPL and debugger are terminal I/O; libuv, llhttp and linenoise
are vendored, and libuv appears only as the code uses it.
