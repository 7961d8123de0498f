------------------------------- MODULE Fetch ---------------------------------
(***************************************************************************)
(* http.fetch (modules_builtins/builtins.cpp): the call returns a promise  *)
(* and starts a detached thread that performs the request with libcurl,    *)
(* counts itself out of g_active_http_fetches and hands the settlement of  *)
(* the promise to scheduler_run_on_loop.  The scheduler that function      *)
(* looks for is thread_local (Async/Scheduler.cpp:8), and this thread has  *)
(* none: the settlement runs inline, beside the loop thread.               *)
(*                                                                         *)
(* The evaluator's own queue is locked and wakes the loop; the promise and *)
(* its lists of callbacks have no lock.  A push on a list that the other   *)
(* thread is walking is missed, or breaks the program.                     *)
(***************************************************************************)
EXTENDS Naturals, Sequences, FiniteSets

CONSTANTS Fetches,      \* calls of fetch, and the promises they return
          MaxReactions  \* bound on the reactions attached to one promise

VARIABLES active,    \* g_active_http_fetches
          thread,    \* where the thread of a fetch is
          outcome,   \* how its request ended
          state,     \* PromiseValue::state
          reactions, \* then_callbacks and catch_callbacks: kinds of reactions
          walk,      \* the callbacks its thread has still to call
          micro,     \* the microtasks of the evaluator's Scheduler
          wake,      \* its uv_async_send is pending
          pc,        \* where the loop thread is
          seen       \* a reaction whose promise was seen pending

vars == <<active, thread, outcome, state, reactions, walk, micro, wake, pc, seen>>

Outcomes == {"fulfilled", "rejected"}
Kinds == {"then", "catch", "finally", "await"}
Nothing == <<>>

Init ==
  /\ active = 0
  /\ thread = [f \in Fetches |-> "none"]
  /\ outcome = [f \in Fetches |-> "fulfilled"]
  /\ state = [f \in Fetches |-> "unused"]
  /\ reactions = [f \in Fetches |-> <<>>] /\ walk = [f \in Fetches |-> <<>>]
  /\ micro = <<>> /\ wake = FALSE
  /\ pc = "code" /\ seen = Nothing

\* A reaction of kind k has a function of the user for outcome o.
Calls(k, o) ==
  \/ k = "then" /\ o = "fulfilled"
  \/ k = "catch" /\ o = "rejected"
  \/ k = "finally"

\* Scheduler::enqueue_microtask; the task runs user code, or it does not.
Enqueue(runsCode) == micro' = Append(micro, runsCode) /\ wake' = TRUE

------------------------------------------------------------------------------
(* The loop thread, in the script, a callback or a resumed frame.           *)

CallFetch(f) ==
  /\ pc = "code" /\ seen = Nothing /\ state[f] = "unused"
  /\ state' = [state EXCEPT ![f] = "pending"]
  /\ active' = active + 1
  /\ thread' = [thread EXCEPT ![f] = "perform"]
  /\ UNCHANGED <<outcome, reactions, walk, micro, wake, pc, seen>>

\* then, catch and await look at the state: of a settled promise the reaction
\* is a microtask of its own ...
AttachLate(f, k) ==
  /\ pc = "code" /\ seen = Nothing /\ state[f] \in Outcomes
  /\ Len(reactions[f]) + Len(micro) < MaxReactions
  /\ Enqueue(k = "await" \/ Calls(k, state[f]))
  /\ UNCHANGED <<active, thread, outcome, state, reactions, walk, pc, seen>>

\* ... and of a pending one it is pushed on the lists, a moment later.
SeePending(f, k) ==
  /\ pc = "code" /\ seen = Nothing /\ state[f] = "pending"
  /\ Len(reactions[f]) < MaxReactions
  /\ seen' = <<f, k>>
  /\ UNCHANGED <<active, thread, outcome, state, reactions, walk, micro, wake, pc>>

Attach(f, k) ==
  /\ seen = <<f, k>> /\ seen' = Nothing
  /\ reactions' = [reactions EXCEPT ![f] = Append(@, k)]
  /\ pc' \in {pc} \cup (IF thread[f] \in {"walk", "callback"} THEN {"broken"} ELSE {})
  /\ UNCHANGED <<active, thread, outcome, state, walk, micro, wake>>

EndCode ==
  /\ pc = "code" /\ seen = Nothing
  /\ pc' = "loop"
  /\ UNCHANGED <<active, thread, outcome, state, reactions, walk, micro, wake, seen>>

RunMicrotask ==
  /\ pc = "loop" /\ micro # <<>>
  /\ micro' = Tail(micro)
  /\ pc' = IF Head(micro) THEN "code" ELSE "loop"
  /\ UNCHANGED <<active, thread, outcome, state, reactions, walk, wake, seen>>

\* run_until_idle: http_fetch_has_active_work is what is left to wait for.
Idle ==
  /\ pc = "loop" /\ micro = <<>>
  /\ pc' = IF active = 0 THEN "exited" ELSE "poll"
  /\ UNCHANGED <<active, thread, outcome, state, reactions, walk, micro, wake, seen>>

Poll ==
  /\ pc = "poll" /\ wake
  /\ pc' = "loop" /\ wake' = FALSE
  /\ UNCHANGED <<active, thread, outcome, state, reactions, walk, micro, seen>>

------------------------------------------------------------------------------
(* The thread of a fetch.                                                   *)

\* curl_easy_init or the open of the file to upload fails, or the request is
\* performed: in any case the counter is given back first.
Perform(f, o) ==
  /\ thread[f] = "perform"
  /\ thread' = [thread EXCEPT ![f] = "answered"]
  /\ outcome' = [outcome EXCEPT ![f] = o]
  /\ active' = active - 1
  /\ UNCHANGED <<state, reactions, walk, micro, wake, pc, seen>>

\* process_curl_response, or the lambda of a failure.
ProcessResponse(f) ==
  /\ thread[f] = "answered"
  /\ thread' = [thread EXCEPT ![f] = "walk"]
  /\ state' = [state EXCEPT ![f] = outcome[f]]
  /\ walk' = [walk EXCEPT ![f] = reactions[f]]
  /\ UNCHANGED <<active, outcome, reactions, micro, wake, pc, seen>>

NextCallback(f, kind) ==
  /\ thread[f] = "walk" /\ walk[f] # <<>> /\ Head(walk[f]) = kind
  /\ walk' = [walk EXCEPT ![f] = Tail(@)]

\* The callback of await queues the resumption of its frame; ...
WakeFrame(f) ==
  /\ NextCallback(f, "await")
  /\ Enqueue(TRUE)
  /\ UNCHANGED <<active, thread, outcome, state, reactions, pc, seen>>

\* ... that of then and catch passes on to next, or calls the user's function.
PassOn(f, k) ==
  /\ NextCallback(f, k) /\ k # "await" /\ ~Calls(k, state[f])
  /\ Enqueue(FALSE)
  /\ UNCHANGED <<active, thread, outcome, state, reactions, pc, seen>>

CallFunction(f, k) ==
  /\ NextCallback(f, k) /\ Calls(k, state[f])
  /\ thread' = [thread EXCEPT ![f] = "callback"]
  /\ UNCHANGED <<active, outcome, state, reactions, micro, wake, pc, seen>>

\* It returns, and next is settled, or left to a promise it returned.
FunctionReturns(f) ==
  /\ thread[f] = "callback"
  /\ thread' = [thread EXCEPT ![f] = "walk"]
  /\ Enqueue(FALSE) \/ UNCHANGED <<micro, wake>>
  /\ UNCHANGED <<active, outcome, state, reactions, walk, pc, seen>>

ThreadEnds(f) ==
  /\ thread[f] = "walk" /\ walk[f] = <<>>
  /\ thread' = [thread EXCEPT ![f] = "ended"]
  /\ UNCHANGED <<active, outcome, state, reactions, walk, micro, wake, pc, seen>>

------------------------------------------------------------------------------
LoopThread ==
  \/ EndCode \/ RunMicrotask \/ Idle \/ Poll
  \/ \E f \in Fetches : CallFetch(f)
  \/ \E f \in Fetches, k \in Kinds : AttachLate(f, k) \/ SeePending(f, k) \/ Attach(f, k)

FetchThread(f) ==
  \/ \E o \in Outcomes : Perform(f, o)
  \/ ProcessResponse(f) \/ WakeFrame(f) \/ FunctionReturns(f) \/ ThreadEnds(f)
  \/ \E k \in Kinds : PassOn(f, k) \/ CallFunction(f, k)

\* A process whose memory is broken does nothing that could be said.
Next == pc # "broken" /\ (LoopThread \/ \E f \in Fetches : FetchThread(f))

Spec == Init /\ [][Next]_vars

------------------------------------------------------------------------------
\* One thread at a time runs the program: the settlement is scheduled on the
\* event loop (builtins.cpp:664), so that what a reaction calls never runs
\* beside the script, a callback, a frame or another fetch's reaction.
OneThreadRunsCode ==
  \A f \in Fetches : thread[f] = "callback" =>
    pc # "code" /\ \A g \in Fetches \ {f} : thread[g] # "callback"
==============================================================================
