------------------------------ MODULE Promises -------------------------------
(***************************************************************************)
(* Promises on one evaluator: their states, the reactions that then, catch,*)
(* finally and await attach (ExpressionEval.cpp), settlement through       *)
(* microtasks and the detection of unhandled rejections (Evaluator.cpp,    *)
(* globals/initial.cpp), and the promise of timers.nap (AsyncApi.cpp).     *)
(*                                                                         *)
(* Every attachment pushes a callback on then_callbacks and one on         *)
(* catch_callbacks; the two are one reaction here.  A delivery of several  *)
(* callbacks and the microtask of a late attachment are one kind of        *)
(* microtask.  Values are left out; parents are assumed to be still alive. *)
(* A user callback is arbitrary code: any of the operations below, then a  *)
(* value, an exception or a promise.                                       *)
(***************************************************************************)
EXTENDS Naturals, Sequences, FiniteSets

CONSTANTS Promises,   \* PromiseValue identities
          Naps,       \* those returned by timers.nap(ms)
          None,       \* no promise
          Adopting,   \* may a callback return a promise?
          MaxAttached,\* bound on the reactions attached to one promise
          MaxMicro    \* bound on the microtask queue when code awaits

ASSUME PromisesAssumption ==
  /\ Naps \subseteq Promises /\ None \notin Promises
  /\ Adopting \in BOOLEAN /\ MaxAttached \in Nat /\ MaxMicro \in Nat

VARIABLES state,     \* PromiseValue::state, or "unused"
          reactions, \* then_callbacks and catch_callbacks
          parent,    \* PromiseValue::parent
          handled, checked, reported,  \* handled, unhandled_check_scheduled,
                                       \* unhandled_reported
          own,       \* promises settled by fulfill_promise, reject_promise
          micro, macro,                \* the scheduler's queues
          run,       \* the delivery in progress
          cur,       \* the reaction whose user callback is running, or Idle
          pc         \* "code", "loop" or "run"

\* What happened, for the properties only.
VARIABLES attached,  \* per promise: how many reactions were attached
          ran,       \* per promise: the number of the last one that ran
          consumed,  \* promises with a handler for their rejection
          flows,     \* <<p, n>>: a rejection of p is passed on to n
          joined     \* <<q, n>>: a callback has returned q, which n follows

promiseVars == <<state, reactions, parent, handled, checked, reported, own, micro,
          macro, run, cur, pc, attached, ran, consumed, flows, joined>>

marks == <<handled, checked, reported>>
history == <<attached, ran, consumed, flows, joined>>

Kinds == {"then", "both", "catch", "finally", "await", "adopt"}
Reaction(k, n, i) == [kind |-> k, next |-> n, nth |-> i]
NoReaction == Reaction("none", None, 0)

\* Microtasks and macrotasks: run the reactions left of promise on, then
\* perhaps schedule the unhandled check; perform that check; resume a frame.
Task(d, p, rs, o, c) == [do |-> d, on |-> p, left |-> rs, outcome |-> o, check |-> c]
Deliver(p, rs, o, c) == Task("deliver", p, rs, o, c)
Check(p) == Task("check", p, <<>>, "rejected", FALSE)
ResumeTask(p) == Task("resume", p, <<>>, "fulfilled", FALSE)
NoRun == Deliver(None, <<>>, "fulfilled", FALSE)

PromisesInit ==
  /\ state = [p \in Promises |-> "unused"]
  /\ reactions = [p \in Promises |-> <<>>]
  /\ parent = [p \in Promises |-> None]
  /\ handled = {} /\ checked = {} /\ reported = {} /\ own = {}
  /\ micro = <<>> /\ macro = <<>>
  /\ run = NoRun /\ cur = NoReaction /\ pc = "code"
  /\ attached = [p \in Promises |-> 0]
  /\ ran = [p \in Promises |-> 0]
  /\ consumed = {} /\ flows = {} /\ joined = {}

Settled(p) == state[p] \in {"fulfilled", "rejected"}

\* mark_promise_and_ancestors_handled: up the parent links, as far as the
\* first promise that is already marked. It is the smallest set with p that
\* goes on from what it adds.
GoesUp(S) == \A q \in S \ handled : parent[q] \in S \cup {None}
Marked(p) ==
  {q \in Promises : \A S \in SUBSET Promises :
                     handled \cup {p} \subseteq S /\ GoesUp(S) => q \in S}

------------------------------------------------------------------------------
(* Settlement.                                                              *)

\* fulfill_promise and reject_promise; the latter's delivery is followed by
\* the scheduling of the unhandled check.
SettleOwn(p, o) ==
  /\ state[p] = "pending"
  /\ state' = [state EXCEPT ![p] = o]
  /\ micro' = Append(micro, Deliver(p, reactions[p], o, o = "rejected"))

\* Mutant: the reactions that wait are forgotten.
SettleNextDirectly(n, o) ==
  /\ state' = [state EXCEPT ![n] = o]
  /\ micro' = micro

\* resolve_next and reject_next: no test of the state, and no check.
SettleNext(n, o) ==
  /\ state' = [state EXCEPT ![n] = o]
  /\ micro' = Append(micro, Deliver(n, reactions[n], o, FALSE))

------------------------------------------------------------------------------
(* Operations of the program, in the script, a callback or a resumed frame. *)

InCode == pc = "code"

\* A promise with a resolver: the constructor, Promise.resolve, Promise.reject
\* or the promise of an async function.
Construct(p) ==
  /\ InCode /\ state[p] = "unused" /\ p \notin Naps
  /\ state' = [state EXCEPT ![p] = "pending"]
  /\ own' = own \cup {p}
  /\ UNCHANGED <<reactions, parent, marks, micro, macro, run, cur, pc, history>>

Nap(p) ==
  /\ InCode /\ state[p] = "unused" /\ p \in Naps
  /\ state' = [state EXCEPT ![p] = "pending"]
  /\ UNCHANGED <<reactions, parent, marks, own, micro, macro, run, cur, pc, history>>

Settle(p, o) ==
  /\ InCode /\ p \in own
  /\ SettleOwn(p, o)
  /\ UNCHANGED <<reactions, parent, marks, own, macro, run, cur, pc, history>>

\* Mutant: a reaction of a settled promise is put in front of the queue.
EngageFirst(p, r) ==
  IF state[p] = "pending"
  THEN reactions' = [reactions EXCEPT ![p] = Append(@, r)] /\ UNCHANGED micro
  ELSE micro' = <<Deliver(p, <<r>>, state[p], FALSE)>> \o micro /\ UNCHANGED reactions

\* The reaction waits in the promise's lists, or is a microtask of its own.
Engage(p, r) ==
  IF state[p] = "pending"
  THEN reactions' = [reactions EXCEPT ![p] = Append(@, r)] /\ UNCHANGED micro
  ELSE micro' = Append(micro, Deliver(p, <<r>>, state[p], FALSE)) /\ UNCHANGED reactions

\* p.then(f), p.then(f, g), p.catch(g), p.finally(f), returning n.
Attach(p, k, n) ==
  /\ InCode /\ state[p] # "unused" /\ attached[p] < MaxAttached
  /\ n \notin Naps /\ state[n] = "unused"
  /\ state' = [state EXCEPT ![n] = "pending"]
  /\ parent' = [parent EXCEPT ![n] = p]
  /\ handled' = IF k \in {"both", "catch"} THEN Marked(p) ELSE handled
  /\ Engage(p, Reaction(k, n, attached[p] + 1))
  /\ attached' = [attached EXCEPT ![p] = @ + 1]
  /\ consumed' = IF k \in {"both", "catch"} THEN consumed \cup {p} ELSE consumed
  /\ flows' = flows \cup {<<p, n>>}
  /\ UNCHANGED <<checked, reported, own, macro, run, cur, pc, ran, joined>>

\* await p: a settled promise resumes the frame in a microtask; a pending
\* one in a microtask that its delivery enqueues.
\* A fulfilled promise is not marked.
AwaitPromise(p) ==
  /\ InCode /\ state[p] # "unused"
  /\ attached[p] < MaxAttached /\ Len(micro) < MaxMicro
  /\ IF state[p] = "pending"
     THEN /\ reactions' = [reactions EXCEPT ![p] =
                             Append(@, Reaction("await", None, attached[p] + 1))]
          /\ attached' = [attached EXCEPT ![p] = @ + 1]
          /\ UNCHANGED micro
     ELSE /\ micro' = Append(micro, ResumeTask(p))
          /\ UNCHANGED <<reactions, attached>>
  /\ handled' = IF state[p] = "fulfilled" THEN handled ELSE Marked(p)
  /\ consumed' = consumed \cup {p}
  /\ UNCHANGED <<state, parent, checked, reported, own, macro, run, cur, pc, ran, flows, joined>>

\* The script, or a resumed frame, ends or suspends.
EndCode ==
  /\ InCode /\ cur = NoReaction
  /\ pc' = "loop"
  /\ UNCHANGED <<state, reactions, parent, marks, own, micro, macro, run, cur, history>>

------------------------------------------------------------------------------
(* The end of a user callback: what becomes of next (run_cb_and_chain,      *)
(* run_on_reject, run_finally).                                             *)

EndCallback == InCode /\ cur # NoReaction /\ pc' = "run" /\ cur' = NoReaction

\* finally passes on the outcome whatever its callback does.
Chain(o) ==
  /\ EndCallback
  /\ SettleNext(cur.next, IF cur.kind = "finally" THEN run.outcome ELSE o)
  /\ UNCHANGED <<reactions, parent, marks, own, macro, run, history>>

CallbackReturns == Chain("fulfilled")
CallbackThrows == Chain("rejected")

ReturnsPromise(q) == Adopting /\ cur.kind # "finally" /\ state[q] # "unused"

\* The callback returned a settled promise ...
ReturnsSettled(q) ==
  /\ EndCallback /\ ReturnsPromise(q) /\ Settled(q)
  /\ SettleNext(cur.next, state[q])
  /\ flows' = flows \cup {<<q, cur.next>>}
  /\ joined' = joined \cup {<<q, cur.next>>}
  /\ UNCHANGED <<reactions, parent, marks, own, macro, run, attached, ran, consumed>>

\* ... or a pending one, which next follows.  Its parent becomes next.
ReturnsPending(q) ==
  /\ EndCallback /\ ReturnsPromise(q) /\ state[q] = "pending"
  /\ attached[q] < MaxAttached
  /\ reactions' = [reactions EXCEPT ![q] =
                     Append(@, Reaction("adopt", cur.next, attached[q] + 1))]
  /\ parent' = [parent EXCEPT ![q] = cur.next]
  /\ attached' = [attached EXCEPT ![q] = @ + 1]
  /\ flows' = flows \cup {<<q, cur.next>>}
  /\ joined' = joined \cup {<<q, cur.next>>}
  /\ UNCHANGED <<state, marks, own, micro, macro, run, ran, consumed>>

------------------------------------------------------------------------------
(* The loop.                                                                *)

\* The oldest microtask starts; the microtask taken is of kind d.
Start(d) ==
  /\ pc = "loop" /\ micro # <<>> /\ Head(micro).do = d

StartDelivery ==
  /\ Start("deliver")
  /\ micro' = Tail(micro) /\ run' = Head(micro) /\ pc' = "run"
  /\ UNCHANGED <<state, reactions, parent, marks, own, macro, cur, history>>

StartFrame ==
  /\ Start("resume")
  /\ micro' = Tail(micro) /\ pc' = "code"
  /\ UNCHANGED <<state, reactions, parent, marks, own, macro, run, cur, history>>

\* Mutant: the check ignores the handled flag.
UnhandledCheckAll ==
  /\ Start("check")
  /\ micro' = Tail(micro)
  /\ reported' = reported \cup {Head(micro).on}
  /\ UNCHANGED <<state, reactions, parent, handled, checked, own, macro, run, cur, pc, history>>

UnhandledCheck ==
  /\ Start("check")
  /\ micro' = Tail(micro)
  /\ reported' = reported \cup ({Head(micro).on} \ handled)
  /\ UNCHANGED <<state, reactions, parent, handled, checked, own, macro, run, cur, pc, history>>

\* The delivery in progress runs its next reaction: ...
Foremost == Head(run.left)

NextReaction ==
  /\ pc = "run" /\ run.left # <<>>
  /\ run' = [run EXCEPT !.left = Tail(@)]
  /\ ran' = [ran EXCEPT ![run.on] = Foremost.nth]

\* ... without a user callback for this outcome it is passed on to next, ...
PassesOn(k, o) ==
  k = "adopt" \/ (k = "then" /\ o = "rejected") \/ (k = "catch" /\ o = "fulfilled")

PassOn ==
  /\ NextReaction /\ PassesOn(Foremost.kind, run.outcome)
  /\ SettleNext(Foremost.next, run.outcome)
  /\ UNCHANGED <<reactions, parent, marks, own, macro, cur, pc, attached, consumed, flows, joined>>

\* ... else the callback is called, or a frame's resumption is queued.
StartCallback ==
  /\ NextReaction /\ Foremost.kind # "await" /\ ~PassesOn(Foremost.kind, run.outcome)
  /\ cur' = Foremost /\ pc' = "code"
  /\ UNCHANGED <<state, reactions, parent, marks, own, micro, macro, attached, consumed, flows, joined>>

WakeFrame ==
  /\ NextReaction /\ Foremost.kind = "await"
  /\ micro' = Append(micro, ResumeTask(run.on))
  /\ UNCHANGED <<state, reactions, parent, marks, own, macro, cur, pc, attached, consumed, flows, joined>>

\* Mutant: no check is scheduled.
EndDeliverySilently ==
  /\ pc = "run" /\ run.left = <<>>
  /\ run' = NoRun /\ pc' = "loop"
  /\ UNCHANGED <<state, reactions, parent, marks, own, micro, macro, cur, history>>

EndDelivery ==
  /\ pc = "run" /\ run.left = <<>>
  /\ IF run.check /\ run.on \notin checked
     THEN checked' = checked \cup {run.on} /\ micro' = Append(micro, Check(run.on))
     ELSE UNCHANGED <<checked, micro>>
  /\ run' = NoRun /\ pc' = "loop"
  /\ UNCHANGED <<state, reactions, parent, handled, reported, own, macro, cur, history>>

\* The timer of a nap expires: its macrotask sets the state and schedules
\* each callback as a macrotask (scheduler_run_on_loop).
NapEnds(p) ==
  /\ pc = "loop" /\ micro = <<>> /\ p \in Naps /\ state[p] = "pending"
  /\ state' = [state EXCEPT ![p] = "fulfilled"]
  /\ macro' = macro \o [i \in DOMAIN reactions[p] |->
                          Deliver(p, <<reactions[p][i]>>, "fulfilled", FALSE)]
  /\ UNCHANGED <<reactions, parent, marks, own, micro, run, cur, pc, history>>

StartMacrotask ==
  /\ pc = "loop" /\ micro = <<>> /\ macro # <<>>
  /\ macro' = Tail(macro) /\ run' = Head(macro) /\ pc' = "run"
  /\ UNCHANGED <<state, reactions, parent, marks, own, micro, cur, history>>

\* A macrotask of no interest here (an event, another script) runs code.
OtherMacrotask ==
  /\ pc = "loop" /\ micro = <<>>
  /\ pc' = "code"
  /\ UNCHANGED <<state, reactions, parent, marks, own, micro, macro, run, cur, history>>

------------------------------------------------------------------------------
Program ==
  \E p \in Promises :
    \/ Construct(p) \/ Nap(p) \/ AwaitPromise(p)
    \/ \E o \in {"fulfilled", "rejected"} : Settle(p, o)
    \/ \E k \in {"then", "both", "catch", "finally"}, n \in Promises : Attach(p, k, n)

Callback ==
  \/ CallbackReturns \/ CallbackThrows
  \/ \E q \in Promises : ReturnsSettled(q) \/ ReturnsPending(q)

Loop ==
  \/ StartDelivery \/ StartFrame \/ UnhandledCheck
  \/ PassOn \/ StartCallback \/ WakeFrame \/ EndDelivery
  \/ \E p \in Naps : NapEnds(p)

PromisesNext ==
  \/ Program \/ EndCode \/ Callback \/ Loop
  \/ StartMacrotask \/ OtherMacrotask

PromisesSpec == PromisesInit /\ [][PromisesNext]_promiseVars

\* Code ends, callbacks return, and the loop goes on; the queue of macrotasks
\* is first-in first-out, so other macrotasks cannot overtake forever.  No
\* promise need ever be settled.
Fairness ==
  /\ WF_promiseVars(EndCode) /\ WF_promiseVars(CallbackReturns \/ CallbackThrows)
  /\ WF_promiseVars(Loop) /\ SF_promiseVars(StartMacrotask)

FairPromisesSpec == PromisesSpec /\ Fairness

------------------------------------------------------------------------------
Outcomes == {"fulfilled", "rejected"}
Reactions ==
  [kind : Kinds, next : Promises \cup {None}, nth : 1..MaxAttached]
QueuedTasks ==
  [do : {"deliver", "check", "resume"}, on : Promises \cup {None},
   left : Seq(Reactions), outcome : Outcomes, check : BOOLEAN]

PromisesTypeOK ==
  /\ state \in [Promises -> {"unused", "pending"} \cup Outcomes]
  /\ reactions \in [Promises -> Seq(Reactions)]
  /\ parent \in [Promises -> Promises \cup {None}]
  /\ handled \subseteq Promises /\ checked \subseteq Promises
  /\ reported \subseteq Promises /\ own \subseteq Promises
  /\ micro \in Seq(QueuedTasks) /\ macro \in Seq(QueuedTasks) /\ run \in QueuedTasks
  /\ cur \in Reactions \cup {NoReaction}
  /\ pc \in {"code", "loop", "run"}
  /\ attached \in [Promises -> 0..MaxAttached]
  /\ ran \in [Promises -> 0..MaxAttached]
  /\ consumed \subseteq Promises
  /\ flows \subseteq Promises \X Promises /\ joined \subseteq flows

\* Promises settle once and run each reaction once, in order.
PC == INSTANCE PromiseContract WITH status <- state
ImplementsContract == PC!AbsSpec

\* The promises a rejection of p is passed on to, p included.
Follows(S) == \A f \in flows : f[1] \in S => f[2] \in S
Downstream(p) ==
  {q \in Promises : \A S \in SUBSET Promises : p \in S /\ Follows(S) => q \in S}

HandledDownstream(p) == Downstream(p) \cap consumed # {}

\* A rejection is not reported as unhandled when a handler is attached to
\* the promise or to one its rejection is passed on to: as far as the code
\* keeps to it, until a callback returns a promise, which joins a chain whose
\* handlers do not mark it.
NoFalseReport ==
  [][joined = {} => \A p \in reported' \ reported : ~HandledDownstream(p)]_promiseVars

Quiet == pc = "loop" /\ micro = <<>> /\ macro = <<>>

\* When the microtasks are done, every promise that was rejected through
\* reject_promise has been reported, or has a handler somewhere downstream.
RejectionsAreJudged ==
  Quiet => \A p \in own :
    state[p] = "rejected" /\ p \notin reported => HandledDownstream(p)

\* Every reaction of a settled promise eventually runs.  Those of a nap are
\* macrotasks, which code that keeps awaiting settled promises can starve.
EveryReactionRuns ==
  \A p \in Promises \ Naps, i \in 1..MaxAttached :
    (Settled(p) /\ attached[p] >= i) ~> (ran[p] >= i)
==============================================================================
