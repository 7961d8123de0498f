----------------------------- MODULE EventEmitter -----------------------------
(* The EventEmitter class and events.create(): the listeners of one emitter    *)
(* and the macrotasks through which they are called. emit() calls nobody       *)
(* itself: it copies the list and enqueues one callback per listener. The      *)
(* script, or the listener that runs, may call the emitter between any two     *)
(* callbacks.                                                                  *)
EXTENDS Integers, Sequences, FiniteSets

CONSTANTS
  Fns,     \* functions that the script registers
  Events,  \* names of events
  Calls    \* bound on the calls that register, remove or emit

ASSUME EmitterAssumption == Calls \in Nat

VARIABLES
  listeners,  \* of each event; the order of a list is that of registration
  queue,      \* the callbacks of the emitter among the macrotasks
  fired,      \* the wrappers of once() whose flag is set
  e           \* history: [regs, emits, calls, owed, heard]

emitterVars == <<listeners, queue, fired, e>>

\* A registration: its number is the identity of the wrapper that once() makes.
Listener(f, once) == [fn |-> f, once |-> once, reg |-> e.regs + 1]
\* A callback: of a listener as it stood in the list, or (call) of the function
\* that a wrapper was made for.
Job(l, n, call) == [of |-> l, n |-> n, call |-> call]
Heard(l, n) == [reg |-> l.reg, once |-> l.once, n |-> n]

EmitterInit ==
  /\ listeners = [v \in Events |-> {}] /\ queue = <<>> /\ fired = {}
  /\ e = [regs |-> 0, emits |-> 0, calls |-> 0, owed |-> {}, heard |-> <<>>]

Call == e.calls < Calls
Counted == [e EXCEPT !.calls = @ + 1]

\* on(event, listener) and once(event, listener).
Register(v, f, once) ==
  /\ Call
  /\ listeners' = [listeners EXCEPT ![v] = @ \cup {Listener(f, once)}]
  /\ e' = [Counted EXCEPT !.regs = @ + 1]
  /\ UNCHANGED <<queue, fired>>

On(v, f) == Register(v, f, FALSE)
Once(v, f) == Register(v, f, TRUE)

\* off(event, listener) compares pointers: a function takes away all its plain
\* registrations, and none made by once(), whose pointer is the wrapper's.
Off(v, f) ==
  /\ Call
  /\ listeners' = [listeners EXCEPT ![v] = {l \in @ : l.once \/ l.fn # f}]
  /\ e' = Counted
  /\ UNCHANGED <<queue, fired>>

\* off() with a wrapper that listeners(event) has handed out.
OffWrapper(v, l) ==
  /\ Call /\ l \in listeners[v] /\ l.once
  /\ listeners' = [listeners EXCEPT ![v] = @ \ {l}]
  /\ e' = Counted
  /\ UNCHANGED <<queue, fired>>

\* removeAllListeners(event). The class always passes an event on: a call without
\* one removes nothing.
RemoveAll(v) ==
  /\ Call
  /\ listeners' = [listeners EXCEPT ![v] = {}]
  /\ e' = Counted
  /\ UNCHANGED <<queue, fired>>

\* The list that a set of registrations stands for.
Lists(ls) ==
  {q \in [1..Cardinality(ls) -> ls] : \A i, j \in DOMAIN q : i < j => q[i].reg < q[j].reg}

\* One callback for each listener on the list, in its order.
Emit(v) ==
  LET n == e.emits + 1 IN
  /\ Call
  /\ \E q \in Lists(listeners[v]) :
       queue' = queue \o [i \in DOMAIN q |-> Job(q[i], n, FALSE)]
  /\ e' = [Counted EXCEPT
             !.emits = n, !.owed = @ \cup {Heard(l, n) : l \in listeners[v]}]
  /\ UNCHANGED <<listeners, fired>>

Without(reg) == [v \in Events |-> {l \in listeners[v] : l.reg # reg}]

\* The callback of a function of the script.
RunListener ==
  /\ queue # <<>> /\ (Head(queue).call \/ ~Head(queue).of.once)
  /\ queue' = Tail(queue)
  /\ e' = [e EXCEPT !.heard = Append(@, Heard(Head(queue).of, Head(queue).n))]
  /\ UNCHANGED <<listeners, fired>>

\* Mutant: the wrapper does not look at its flag.
RunWrapperUnflagged ==
  LET j == Head(queue) IN
  /\ queue # <<>> /\ j.of.once /\ ~j.call
  /\ fired' = fired \cup {j.of.reg}
  /\ listeners' = Without(j.of.reg)
  /\ queue' = Append(Tail(queue), Job(j.of, j.n, TRUE))
  /\ UNCHANGED e

\* Mutant: the wrapper does not hand on the arguments.
RunWrapperBare ==
  LET j == Head(queue) IN
  /\ queue # <<>> /\ j.of.once /\ ~j.call
  /\ fired' = fired \cup {j.of.reg} /\ listeners' = Without(j.of.reg)
  /\ queue' = IF j.of.reg \in fired THEN Tail(queue)
              ELSE Append(Tail(queue), Job(j.of, 0, TRUE))
  /\ UNCHANGED e

\* The callback of a wrapper: the first takes it off the list and has the
\* function called by a callback of its own; the others do nothing.
RunWrapper ==
  LET j == Head(queue) IN
  /\ queue # <<>> /\ j.of.once /\ ~j.call
  /\ IF j.of.reg \in fired
     THEN queue' = Tail(queue) /\ UNCHANGED <<listeners, fired>>
     ELSE /\ fired' = fired \cup {j.of.reg}
          /\ listeners' = Without(j.of.reg)
          /\ queue' = Append(Tail(queue), Job(j.of, j.n, TRUE))
  /\ UNCHANGED e

EmitterNext ==
  \/ \E v \in Events, f \in Fns : On(v, f) \/ Once(v, f) \/ Off(v, f)
  \/ \E v \in Events :
       Emit(v) \/ RemoveAll(v) \/ \E l \in listeners[v] : OffWrapper(v, l)
  \/ RunListener \/ RunWrapper

EmitterSpec == EmitterInit /\ [][EmitterNext]_emitterVars
-------------------------------------------------------------------------------
Listeners == [fn : Fns, once : BOOLEAN, reg : 1..Calls]
Hearings == [reg : 1..Calls, once : BOOLEAN, n : 1..Calls]
Calling(reg) == {i \in DOMAIN queue : queue[i].call /\ queue[i].of.reg = reg}
Callings(reg) == {i \in DOMAIN e.heard : e.heard[i].reg = reg}
Waits(o) == \E i \in DOMAIN queue : queue[i].of.reg = o.reg /\ queue[i].n = o.n

\* The types of the variables.
EmitterTypeOK ==
  /\ listeners \in [Events -> SUBSET Listeners]
  /\ queue \in Seq([of : Listeners, n : 1..Calls, call : BOOLEAN])
  /\ fired \subseteq 1..Calls
  /\ e \in [regs : 0..Calls, emits : 0..Calls, calls : 0..Calls,
            owed : SUBSET Hearings, heard : Seq(Hearings)]

\* A listener of once() is called at most once, and then for the first emission
\* made while it was registered, however many are queued before its turn.
OnceIsOnce ==
  \A i \in DOMAIN e.heard : e.heard[i].once =>
    /\ Callings(e.heard[i].reg) = {i} /\ Calling(e.heard[i].reg) = {}
    /\ \A o \in e.owed : o.reg = e.heard[i].reg => e.heard[i].n <= o.n

\* Listeners of on() hear the emissions in the order in which they were made,
\* and each emission in the order of registration; nobody hears one twice.
HeardInTurn ==
  \A i, j \in DOMAIN e.heard :
    i < j /\ ~e.heard[i].once /\ ~e.heard[j].once =>
      \/ e.heard[i].n < e.heard[j].n
      \/ e.heard[i].n = e.heard[j].n /\ e.heard[i].reg < e.heard[j].reg

\* Those who were registered at an emission hear it, also when they are removed
\* before their turn, and nobody else does; of once(), one emission is enough.
DebtsArePaid ==
  /\ \A i \in DOMAIN e.heard : e.heard[i] \in e.owed
  /\ \A o \in e.owed :
       \/ Waits(o) \/ \E i \in DOMAIN e.heard : e.heard[i] = o
       \/ o.once /\ o.reg \in fired

\* A wrapper that has fired is gone from every list, and its function has been
\* called or is about to be.
FiredIsGone ==
  \A r \in fired :
    /\ \A v \in Events : \A l \in listeners[v] : l.reg # r
    /\ Cardinality(Callings(r)) + Cardinality(Calling(r)) = 1

\* What listeners rely on.
EmissionsAreHeard == OnceIsOnce /\ HeardInTurn /\ DebtsArePaid /\ FiredIsGone
===============================================================================
