---------------------------- MODULE ProcessEvents ----------------------------
\* process.on, off, send and ignoreSignals (modules_builtins/process/
\* process_ipc.cc): the messages a forked child gets on descriptor 3, and its
\* signals. One signal, which ends a process by default, is kept under the two
\* names a script may use for it, "full" (SIGTERM) and "short" (TERM): both
\* resolve to its number, and each is a key of its own. The order among the
\* listeners of an event is left out; a function listens once for an event.
\* Two calls of uv_run that hand on what they find are one that finds it all.
EXTENDS Integers, Sequences, FiniteSets, SequencesExt

CONSTANTS Funcs,     \* functions that listen
          Calls,     \* bound: calls the script makes
          Raises,    \* bound: signals sent to the process
          Messages   \* bound: messages the parent sends

EventsAssumption == Calls \in Nat /\ Raises \in Nat /\ Messages \in Nat

VARIABLES ipc,      \* g_ipc_state: initialized, its read_pipe reading; forked?
          on,       \* per event: its listeners
          keys,     \* names that signal_listeners has an entry for
          handles,  \* per name: has it a uv_signal_t (signal_handles), and what
                    \* libuv has caught for that and not handed on
          action,   \* what the signal does to the process
          at,       \* where the loop thread is
          jobs,     \* macrotasks: calls of listeners
          parent,   \* messages sent, and read from it; its end closed
          h         \* history: calls; signals caught; per listener the count it
                    \* began at, what it has been sent since, and the messages
                    \* it has heard; what the script did to itself (slips)

evars == <<ipc, on, keys, handles, action, at, jobs, parent, h>>

Names == {"full", "short"}
Looked == {"full", "signal"}       \* the listeners signal_cb looks up
Events == Names \cup {"message", "signal"}
Job(f, from, to) == [f |-> f, from |-> from, to |-> to]
CallsOf(e, from, to) == SetToSeq({Job(f, from, to) : f \in on[e]})
IsOpen(n) == handles[n].open
NoHandle == [open |-> FALSE, caught |-> 0]

\* libuv installs its handler with the first handle of a number and restores the
\* default with the last.
Open(n) ==
  /\ handles' = IF IsOpen(n) THEN handles ELSE [handles EXCEPT ![n].open = TRUE]
  /\ action' = IF \E m \in Names : IsOpen(m) THEN action ELSE "caught"
Close(ns) ==
  /\ handles' = [n \in Names |-> IF n \in ns THEN NoHandle ELSE handles[n]]
  /\ action' = IF (\E n \in ns : IsOpen(n)) /\ (\A n \in Names \ ns : ~IsOpen(n))
               THEN "default" ELSE action

\* initialize_child_ipc: a child begins to read.
Initialized == [ipc EXCEPT !.known = TRUE, !.reading = IF ipc.known THEN @ ELSE ipc.forked]

MayCall == at = "script" /\ h.calls < Calls
Called == [h EXCEPT !.calls = @ + 1]
Listens(e, f) == [Called EXCEPT !.since[e][f] = h.raises, !.sent[e][f] = 0]
\* Closing "full" takes the signal from the catch-all listeners.
Over(ns) ==
  IF on["signal"] # {} /\ "full" \in ns THEN [Called EXCEPT !.slips = @ \cup {"over"}] ELSE Called

-----------------------------------------------------------------------------
\* The script.

OnMessage(f) ==
  /\ MayCall /\ f \notin on["message"]
  /\ ipc' = Initialized
  /\ on' = IF ipc.forked THEN [on EXCEPT !["message"] = @ \cup {f}] ELSE on
  /\ h' = [Called EXCEPT !.since["message"][f] = parent.read]
  /\ UNCHANGED <<keys, handles, action, at, jobs, parent>>

\* on(name): a handle for the name, if it has none.
OnName(n, f) ==
  /\ MayCall /\ f \notin on[n]
  /\ on' = [on EXCEPT ![n] = @ \cup {f}] /\ keys' = keys \cup {n}
  /\ Open(n)
  /\ h' = IF n = "short" THEN [Called EXCEPT !.slips = @ \cup {n}] ELSE Listens(n, f)
  /\ UNCHANGED <<ipc, at, jobs, parent>>

\* on("signal"): a handle for every signal that has none under its full name.
OnAnySignal(f) ==
  /\ MayCall /\ f \notin on["signal"]
  /\ on' = [on EXCEPT !["signal"] = @ \cup {f}]
  /\ Open("full")
  /\ h' = Listens("signal", f)
  /\ UNCHANGED <<ipc, keys, at, jobs, parent>>

\* off(event, callback): the handle goes when the list is, or was, empty.
OffFunction(e, f) ==
  /\ MayCall
  /\ on' = [on EXCEPT ![e] = @ \ {f}]
  /\ IF e \in keys /\ on[e] \subseteq {f}
     THEN Close({e}) /\ h' = Over({e})
     ELSE UNCHANGED <<handles, action>> /\ h' = Called
  /\ UNCHANGED <<ipc, keys, at, jobs, parent>>

OffEvent(e) ==
  /\ MayCall
  /\ on' = [on EXCEPT ![e] = {}]
  /\ IF e \in Names THEN Close({e}) /\ h' = Over({e})
     ELSE UNCHANGED <<handles, action>> /\ h' = Called
  /\ UNCHANGED <<ipc, keys, at, jobs, parent>>

OffAll ==
  /\ MayCall
  /\ on' = [e \in Events |-> {}] /\ keys' = {}
  /\ Close(Names)
  /\ h' = Called
  /\ UNCHANGED <<ipc, at, jobs, parent>>

\* What becomes of the message is the parent's affair.
Send ==
  /\ MayCall
  /\ ipc' = Initialized
  /\ h' = Called
  /\ UNCHANGED <<on, keys, handles, action, at, jobs, parent>>

\* signal(SIG_IGN), behind libuv's back.
IgnoreSignals ==
  /\ MayCall /\ action' = "ignored"
  /\ h' = Called
  /\ UNCHANGED <<ipc, on, keys, handles, at, jobs, parent>>

Return ==
  /\ at = "script" /\ at' = "loop"
  /\ UNCHANGED <<ipc, on, keys, handles, action, jobs, parent, h>>

-----------------------------------------------------------------------------
\* The loop.

RunJob ==
  /\ at = "loop" /\ jobs # <<>>
  /\ at' = "script" /\ jobs' = Tail(jobs)
  /\ LET j == Head(jobs) IN
       h' = [h EXCEPT !.heard[j.f] = IF j.to = 0 THEN @ ELSE @ \o [i \in 1..(j.to - j.from + 1) |-> j.from + i - 1]]
  /\ UNCHANGED <<ipc, on, keys, handles, action, parent>>

\* signal_cb: it looks up the full name, whichever handle called it.
SignalCb(n) ==
  /\ at = "loop" /\ handles[n].caught > 0
  /\ handles' = [handles EXCEPT ![n].caught = @ - 1]
  /\ jobs' = jobs \o CallsOf("full", 0, 0) \o CallsOf("signal", 0, 0)
  /\ h' = [h EXCEPT !.sent = [e \in Looked |-> [f \in Funcs |->
                                @[e][f] + IF f \in on[e] THEN 1 ELSE 0]]]
  /\ UNCHANGED <<ipc, on, keys, action, at, parent>>

\* ipc_read_cb: one chunk, of one message or of several.
ReadMessages ==
  /\ at = "loop" /\ ipc.reading
  /\ \E last \in (parent.read + 1)..parent.sent :
       /\ jobs' = jobs \o CallsOf("message", parent.read + 1, last)
       /\ parent' = [parent EXCEPT !.read = last]
  /\ UNCHANGED <<ipc, on, keys, handles, action, at, h>>

ReadEnd ==
  /\ at = "loop" /\ ipc.reading /\ parent.closed /\ parent.read = parent.sent
  /\ ipc' = [ipc EXCEPT !.reading = FALSE]
  /\ UNCHANGED <<on, keys, handles, action, at, jobs, parent, h>>

LoopEnds ==
  /\ at = "loop" /\ jobs = <<>> /\ ~ipc.reading /\ \A n \in Names : ~IsOpen(n)
  /\ at' = "done"
  /\ UNCHANGED <<ipc, on, keys, handles, action, jobs, parent, h>>

-----------------------------------------------------------------------------
\* The others: whoever sends signals, and the parent.

Alive == at \in {"script", "loop"}
Raise ==
  /\ Alive /\ h.raises < Raises
  /\ CASE action = "default" -> at' = "killed" /\ UNCHANGED <<handles, h>>
       [] action = "ignored" -> UNCHANGED <<handles, at, h>>
       [] action = "caught" ->
            /\ handles' = [n \in Names |-> IF IsOpen(n) THEN [handles[n] EXCEPT !.caught = @ + 1]
                                            ELSE handles[n]]
            /\ h' = [h EXCEPT !.raises = @ + 1]
            /\ UNCHANGED at
  /\ UNCHANGED <<ipc, on, keys, action, jobs, parent>>

ParentSends ==
  /\ Alive /\ ipc.forked /\ ~parent.closed /\ parent.sent < Messages
  /\ parent' = [parent EXCEPT !.sent = @ + 1]
  /\ UNCHANGED <<ipc, on, keys, handles, action, at, jobs, h>>

ParentCloses ==
  /\ Alive /\ ipc.forked /\ ~parent.closed
  /\ parent' = [parent EXCEPT !.closed = TRUE]
  /\ UNCHANGED <<ipc, on, keys, handles, action, at, jobs, h>>

Init ==
  /\ \E forked \in BOOLEAN : ipc = [forked |-> forked, known |-> FALSE, reading |-> FALSE]
  /\ on = [e \in Events |-> {}] /\ keys = {}
  /\ handles = [n \in Names |-> NoHandle] /\ action = "default"
  /\ at = "script" /\ jobs = <<>>
  /\ parent = [sent |-> 0, read |-> 0, closed |-> FALSE]
  /\ h = [calls |-> 0, raises |-> 0, since |-> [e \in Looked \cup {"message"} |-> [f \in Funcs |-> 0]],
          sent |-> [e \in Looked |-> [f \in Funcs |-> 0]], heard |-> [f \in Funcs |-> <<>>],
          slips |-> {}]

ScriptCalls ==
  \/ \E f \in Funcs :
       \/ OnMessage(f) \/ OnAnySignal(f) \/ (\E n \in Names : OnName(n, f))
       \/ \E e \in Events : OffFunction(e, f)
  \/ (\E e \in Events : OffEvent(e)) \/ OffAll \/ Send \/ IgnoreSignals
LoopSteps ==
  Return \/ RunJob \/ (\E n \in Names : SignalCb(n)) \/ ReadMessages \/ ReadEnd \/ LoopEnds
Next == ScriptCalls \/ LoopSteps \/ Raise \/ ParentSends \/ ParentCloses

Spec == Init /\ [][Next]_evars
\* The script returns and the loop hands on what there is.
FairSpec == Spec /\ WF_evars(LoopSteps)

-----------------------------------------------------------------------------
TypeOK ==
  /\ ipc \in [forked : BOOLEAN, known : BOOLEAN, reading : BOOLEAN]
  /\ on \in [Events -> SUBSET Funcs] /\ keys \subseteq Names
  /\ handles \in [Names -> [open : BOOLEAN, caught : 0..Raises]]
  /\ action \in {"default", "caught", "ignored"}
  /\ at \in {"script", "loop", "done", "killed"}
  /\ jobs \in Seq([f : Funcs, from : 0..Messages, to : 0..Messages])
  /\ parent \in [sent : 0..Messages, read : 0..Messages, closed : BOOLEAN]

\* A signal that somebody listens for does not end the process: as long as a name
\* has listeners its handle is open. (A catch-all listener is safe only until the
\* handle of the name is closed under it, "over".)
SignalsAreCaught ==
  /\ \A n \in Names : on[n] # {} => IsOpen(n)
  /\ on["signal"] # {} /\ "over" \notin h.slips => IsOpen("full")
  /\ (\E n \in Names : IsOpen(n)) => action # "default"

\* Each signal that is caught while a function listens is sent to it once; one
\* that is missing is still to be handed on. (Twice, if the short name has a
\* handle too.)
SignalsAreHeard ==
  \A f \in Funcs, e \in Looked :
    f \in on[e] /\ (e = "signal" => "over" \notin h.slips) =>
      /\ h.sent[e][f] + handles["full"].caught >= h.raises - h.since[e][f]
      /\ "short" \notin h.slips => h.sent[e][f] <= h.raises

\* The messages of the parent come to each listener in order, none twice, and
\* none is missing from those read since it listens.
Told(f) ==
  h.heard[f] \o FlattenSeq([i \in DOMAIN jobs |->
    IF jobs[i].f = f /\ jobs[i].to > 0
    THEN [k \in 1..(jobs[i].to - jobs[i].from + 1) |-> jobs[i].from + k - 1] ELSE <<>>])
MessagesAreHeard ==
  \A f \in Funcs :
    /\ \A i, j \in DOMAIN Told(f) : i < j => Told(f)[i] < Told(f)[j]
    /\ f \in on["message"] => (h.since["message"][f] + 1)..parent.read \subseteq ToSet(Told(f))

\* A process with no handle for a signal ends when its parent has closed the pipe
\* (at once, if it never began to read), unless its script registers again.
NoSignals == \A n \in Names : ~IsOpen(n)
ProcessEnds ==
  (NoSignals /\ (ipc.reading => parent.closed))
    ~> (at \in {"done", "killed"} \/ ~NoSignals \/ (ipc.reading /\ ~parent.closed))
==============================================================================
