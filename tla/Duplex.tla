------------------------------- MODULE Duplex --------------------------------
\* A duplex stream (modules_builtins/streams/duplex.cc). Its two halves work in
\* macrotasks: `tasks` is their part of the queue, first in, first out. A task
\* runs script code (listeners, _read, _write, callbacks), which may call the
\* stream again: `under` holds what is left of the task, the innermost first.
EXTENDS Integers, Sequences, SequencesExt

CONSTANTS HighWater,  \* of the destination of a pipe, in chunks
          Calls,      \* bound: calls the script makes in a behaviour
          Halves      \* values allow_half_open may have

DuplexAssumption ==
  HighWater \in Nat \ {0} /\ Calls \in Nat /\ Halves \subseteq BOOLEAN

VARIABLES d,      \* DuplexStreamState, its readable and writable halves
          tasks,  \* macrotasks waiting
          under,  \* what is left of the function under way
          sink,   \* destination of the pipe: chunks it holds, and "end" heard
          h       \* history: chunks pushed, heard, taken by write(), given to
                  \* _write; events said; what the script did to the stream

dvars == <<d, tasks, under, sink, h>>

Chunk == 0..Calls
Work == {"script", "loop", "each", "refill", "readReturns", "take", "wrote", "called",
         "finished", "ended", "endHalf", "worker"}
Frame == [do : Work, of : {"none", "push", "onData", "resume", "finish", "read"}, c : Chunk]
Do(what) == [do |-> what, of |-> "none", c |-> 0]
For(what, of) == [do |-> what, of |-> of, c |-> 0]
With(what, c) == [do |-> what, of |-> "none", c |-> c]
Script == Do("script")
Task == [do : {"push", "onData", "resume", "refill", "write", "next", "end"}, c : Chunk]
Job(what, c) == [do |-> what, c |-> c]

Now == Head(under)
At(what) == under # <<>> /\ Now.do = what
Then(fs) == under' = fs \o Tail(under)
Idle == under = <<>>
Schedule(jobs) == tasks' = tasks \o jobs
RunsFree(s) == s.flowing /\ ~s.paused

-----------------------------------------------------------------------------

\* process_write_queue: the stream, the jobs and the frames it leads to.
ProcessQueue(s) ==
  CASE s.destroyed -> [s |-> [s EXCEPT !.writing = FALSE], jobs |-> <<>>, todo |-> <<>>]
    [] ~s.destroyed /\ s.wbuf = <<>> /\ s.wEnded ->
         [s |-> [s EXCEPT !.writing = FALSE, !.finished = TRUE], jobs |-> <<>>,
          todo |-> <<Script, Do("finished")>>]
    [] ~s.destroyed /\ s.wbuf = <<>> /\ ~s.wEnded ->      \* "drain"
         [s |-> [s EXCEPT !.writing = FALSE], jobs |-> <<>>, todo |-> <<Script>>]
    [] OTHER ->
         [s |-> [s EXCEPT !.writing = TRUE, !.wbuf = Tail(@)],
          jobs |-> <<Job("write", Head(s.wbuf))>>, todo |-> <<>>]

Kick(s) ==
  IF s.writing THEN [s |-> s, jobs |-> <<>>, todo |-> <<>>] ELSE ProcessQueue(s)

\* duplex_push of no data: the end is announced by a task of its own.
EndReadable(s) == [s EXCEPT !.rEnded = TRUE]

-----------------------------------------------------------------------------
\* A macrotask starts.

RunTask(what) ==
  /\ Idle /\ tasks # <<>> /\ Head(tasks).do = what
  /\ tasks' = Tail(tasks)

\* push_fn: a paused stream leaves `emitting` set.
PushWorker ==
  /\ RunTask("push")
  /\ under' = IF RunsFree(d) THEN <<For("loop", "push"), Do("endHalf")>> ELSE <<>>
  /\ UNCHANGED <<d, sink, h>>

\* on_data_fn, resume_fn
FlowWorker(which) ==
  /\ RunTask(which)
  /\ under' = <<For("loop", which), For("refill", which)>>
  /\ UNCHANGED <<d, sink, h>>

RefillWorker ==
  /\ RunTask("refill")
  /\ d' = [d EXCEPT !.reading = TRUE]
  /\ under' = <<Script, Do("readReturns")>>
  /\ UNCHANGED <<sink, h>>

EndWorker ==
  /\ RunTask("end")
  /\ under' = <<Script, Do("ended")>>
  /\ sink' = [sink EXCEPT !.ended = @ \/ d.piped]
  /\ h' = [h EXCEPT !.endSaid = TRUE,
                    !.endEarly = @ \/ (d.rbuf # <<>> /\ d.flowing /\ ~h.disturbed)]
  /\ UNCHANGED d

\* task_fn: _write, then the callback, then the next tick.
WriteWorker ==
  /\ RunTask("write")
  /\ IF d.destroyed THEN UNCHANGED <<under, h>>
     ELSE /\ under' = <<Script, Do("wrote"), Script, Do("called")>>
          /\ h' = [h EXCEPT !.written = Append(@, Head(tasks).c)]
  /\ UNCHANGED <<d, sink>>

NextWrite ==
  /\ Idle /\ tasks # <<>> /\ Head(tasks).do = "next"
  /\ LET p == ProcessQueue(d) IN
       /\ d' = p.s /\ tasks' = Tail(tasks) \o p.jobs /\ under' = p.todo
       /\ h' = [h EXCEPT !.finishes = @ + (IF p.s.finished /\ p.todo # <<>> THEN 1 ELSE 0)]
  /\ UNCHANGED sink

-----------------------------------------------------------------------------
\* ... and goes on.

\* The loop that the three workers share: one chunk to every data listener.
Emit ==
  /\ At("loop")
  /\ IF d.rbuf # <<>> /\ RunsFree(d)
     THEN /\ d' = [d EXCEPT !.rbuf = Tail(@)]
          /\ h' = [h EXCEPT !.heard = Append(@, Head(d.rbuf))]
          /\ Then(<<Script, With("each", Head(d.rbuf)),
                    IF Now.of = "push" THEN For("refill", "push") ELSE Now>>)
     ELSE Then(<<>>) /\ UNCHANGED <<d, h>>
  /\ UNCHANGED <<tasks, sink>>

\* The data handler of a pipe, if there is one, after the script's listener.
PipeData ==
  /\ At("each") /\ Then(<<>>)
  /\ IF d.piped
     THEN LET full == sink.held + 1 >= HighWater IN
          /\ sink' = [sink EXCEPT !.held = @ + 1, !.full = @ \/ full]
          /\ d' = IF full THEN [d EXCEPT !.paused = TRUE, !.flowing = FALSE] ELSE d
          /\ h' = [h EXCEPT !.disturbed = @ \/ full]
     ELSE UNCHANGED <<d, sink, h>>
  /\ UNCHANGED tasks

\* push_fn asks for more once per run, the others when their loop is over.
AskRefill ==
  /\ At("refill") /\ Now.of = "push"
  /\ Schedule(IF d.reading THEN <<>> ELSE <<Job("refill", 0)>>)
  /\ Then(<<For("loop", "none")>>)
  /\ UNCHANGED <<d, sink, h>>

CallRead ==
  /\ At("refill") /\ Now.of # "push"
  /\ IF ~d.reading /\ (Now.of = "onData" \/ d.rbuf = <<>>)
     THEN d' = [d EXCEPT !.reading = TRUE] /\ Then(<<Script, Do("readReturns")>>)
     ELSE Then(<<>>) /\ UNCHANGED d
  /\ UNCHANGED <<tasks, sink, h>>

ReadReturns ==
  /\ At("readReturns") /\ d' = [d EXCEPT !.reading = FALSE] /\ Then(<<>>)
  /\ UNCHANGED <<tasks, sink, h>>

\* Mutant: it is missing.
EmitOverForgets == At("endHalf") /\ Then(<<>>) /\ UNCHANGED <<d, tasks, sink, h>>

\* The last statement of push_fn.
EmitOver ==
  /\ At("endHalf") /\ d' = [d EXCEPT !.emitting = FALSE] /\ Then(<<>>)
  /\ UNCHANGED <<tasks, sink, h>>

Wrote ==
  /\ At("wrote") /\ Then(<<>>)
  /\ d' = [d EXCEPT !.wsize = IF @ >= 1 THEN @ - 1 ELSE 0]
  /\ UNCHANGED <<tasks, sink, h>>

Called ==
  /\ At("called") /\ Then(<<>>)
  /\ d' = [d EXCEPT !.writing = FALSE]
  /\ Schedule(<<Job("next", 0)>>)
  /\ UNCHANGED <<sink, h>>

\* After "finish" and after "end": "close", when both sides are done.
Finished ==
  /\ At("finished")
  /\ Then(IF d.rEnded \/ ~d.halfOpen THEN <<Script>> ELSE <<>>)
  /\ h' = [h EXCEPT !.closed = @ \/ d.rEnded \/ ~d.halfOpen]
  /\ UNCHANGED <<d, tasks, sink>>

EndSaid ==
  /\ At("ended")
  /\ Then(IF ~d.halfOpen /\ d.wEnded THEN <<Script>> ELSE <<>>)
  /\ h' = [h EXCEPT !.closed = @ \/ (~d.halfOpen /\ d.wEnded)]
  /\ UNCHANGED <<d, tasks, sink>>

\* read() takes a chunk if the stream does not flow.
Take ==
  /\ At("take") /\ Then(<<>>)
  /\ IF d.rbuf # <<>> /\ ~d.flowing
     THEN /\ d' = [d EXCEPT !.rbuf = Tail(@)]
          /\ h' = [h EXCEPT !.heard = Append(@, Head(d.rbuf))]
     ELSE UNCHANGED <<d, h>>
  /\ UNCHANGED <<tasks, sink>>

\* The last step of end() for a stream that may not stay half open.
EndOtherHalf ==
  /\ At("worker")
  /\ Then(<<>>)
  /\ IF ~d.halfOpen /\ ~d.rEnded
     THEN d' = EndReadable(d) /\ Schedule(<<Job("end", 0)>>)
     ELSE UNCHANGED <<d, tasks>>
  /\ UNCHANGED <<sink, h>>

\* The destination of the pipe drains. drain_handler sets the flags and no
\* worker; what was pushed meanwhile waits for the next push.
SinkDrains ==
  /\ Idle /\ sink.held > 0
  /\ sink' = [sink EXCEPT !.held = 0, !.full = FALSE]
  /\ d' = IF sink.full /\ d.paused /\ ~d.rEnded
          THEN [d EXCEPT !.paused = FALSE, !.flowing = TRUE] ELSE d
  /\ UNCHANGED <<tasks, under, h>>

-----------------------------------------------------------------------------
\* The script, in a task of its own or from within one of the stream's.

RunScript ==
  /\ Idle /\ h.calls < Calls
  /\ under' = <<Script>> /\ UNCHANGED <<d, tasks, sink, h>>

ScriptReturns ==
  /\ At("script") /\ Then(<<>>) /\ UNCHANGED <<d, tasks, sink, h>>

Call == At("script") /\ h.calls < Calls
Counted(hist) == [hist EXCEPT !.calls = @ + 1]

\* add_duplex_data_listener, for on("data") and for pipe()
Listen(pipes) ==
  /\ Call /\ (IF pipes THEN ~d.piped ELSE ~d.heeded)
  /\ LET first == ~d.piped /\ ~d.heeded
         starts == first /\ ~d.rEnded /\ ~d.destroyed IN
     /\ d' = [d EXCEPT !.piped = @ \/ pipes, !.heeded = @ \/ ~pipes,
                       !.flowing = @ \/ starts]
     /\ Schedule(IF starts THEN <<Job("onData", 0)>> ELSE <<>>)
  /\ h' = Counted(h) /\ UNCHANGED <<under, sink>>

Pause ==
  /\ Call /\ d' = [d EXCEPT !.paused = TRUE, !.flowing = FALSE]
  /\ h' = [Counted(h) EXCEPT !.disturbed = TRUE] /\ UNCHANGED <<tasks, under, sink>>

Resume ==
  /\ Call /\ d' = [d EXCEPT !.paused = FALSE, !.flowing = TRUE]
  /\ Schedule(IF d.paused THEN <<Job("resume", 0)>> ELSE <<>>)
  /\ h' = [Counted(h) EXCEPT !.disturbed = TRUE] /\ UNCHANGED <<under, sink>>

\* duplex_push of a chunk
Push ==
  /\ Call /\ ~d.rEnded /\ ~d.destroyed
  /\ LET c == Len(h.pushed) + 1
         wakes == ~d.emitting /\ RunsFree(d) IN
     /\ d' = [d EXCEPT !.rbuf = Append(@, c), !.emitting = @ \/ wakes]
     /\ Schedule(IF wakes THEN <<Job("push", 0)>> ELSE <<>>)
     /\ h' = [Counted(h) EXCEPT !.pushed = Append(@, c)]
  /\ UNCHANGED <<under, sink>>

\* Mutant: the end overtakes the tasks that wait.
PushEndFirst ==
  /\ Call /\ ~d.rEnded /\ ~d.destroyed
  /\ d' = EndReadable(d) /\ tasks' = <<Job("end", 0)>> \o tasks
  /\ h' = Counted(h) /\ UNCHANGED <<under, sink>>

PushEnd ==
  /\ Call /\ ~d.rEnded /\ ~d.destroyed
  /\ d' = EndReadable(d) /\ Schedule(<<Job("end", 0)>>)
  /\ h' = Counted(h) /\ UNCHANGED <<under, sink>>

Read ==
  /\ Call /\ ~d.rEnded /\ ~d.destroyed
  /\ IF ~d.reading /\ d.rbuf = <<>>
     THEN /\ d' = [d EXCEPT !.reading = TRUE]
          /\ under' = <<Script, Do("readReturns"), Do("take")>> \o under
     ELSE under' = <<Do("take")>> \o under /\ UNCHANGED d
  /\ h' = Counted(h) /\ UNCHANGED <<tasks, sink>>

\* The script writes between a write's task and the next tick it scheduled.
Between == \E i \in DOMAIN tasks : tasks[i].do = "next"

Write ==
  /\ Call /\ ~d.destroyed /\ ~d.wEnded
  /\ LET c == Len(h.taken) + 1
         p == Kick([d EXCEPT !.wbuf = Append(@, c), !.wsize = @ + 1]) IN
     /\ d' = p.s /\ Schedule(p.jobs) /\ under' = p.todo \o under
     /\ h' = [Counted(h) EXCEPT !.taken = Append(@, c), !.raced = @ \/ Between]
  /\ UNCHANGED sink

End ==
  /\ Call /\ ~d.destroyed /\ ~d.wEnded
  /\ \E chunk \in {<<>>, <<Len(h.taken) + 1>>} :
     LET p == Kick([d EXCEPT !.wEnded = TRUE, !.wbuf = @ \o chunk,
                             !.wsize = @ + Len(chunk)]) IN
     /\ d' = p.s /\ Schedule(p.jobs)
     /\ under' = p.todo \o <<Do("worker")>> \o under
     /\ h' = [Counted(h) EXCEPT !.taken = @ \o chunk, !.raced = @ \/ Between,
                !.finishes = @ + (IF p.s.finished THEN 1 ELSE 0)]
  /\ UNCHANGED sink

Destroy ==
  /\ Call /\ ~d.destroyed
  /\ d' = [d EXCEPT !.destroyed = TRUE, !.rEnded = TRUE, !.wEnded = TRUE,
                    !.rbuf = <<>>, !.wbuf = <<>>, !.wsize = 0]
  /\ under' = <<Script>> \o under
  /\ h' = [Counted(h) EXCEPT !.closed = TRUE] /\ UNCHANGED <<tasks, sink>>

-----------------------------------------------------------------------------
Init ==
  /\ d \in [rbuf : {<<>>}, wbuf : {<<>>}, wsize : {0}, rEnded : {FALSE}, wEnded : {FALSE},
            flowing : {FALSE}, paused : {FALSE}, finished : {FALSE}, destroyed : {FALSE},
            reading : {FALSE}, writing : {FALSE}, emitting : {FALSE},
            heeded : {FALSE}, piped : {FALSE}, halfOpen : Halves]
  /\ tasks = <<>> /\ under = <<>>
  /\ sink = [held |-> 0, full |-> FALSE, ended |-> FALSE]
  /\ h = [pushed |-> <<>>, heard |-> <<>>, taken |-> <<>>, written |-> <<>>,
          endSaid |-> FALSE, endEarly |-> FALSE, finishes |-> 0, closed |-> FALSE,
          disturbed |-> FALSE, raced |-> FALSE, calls |-> 0]

Native ==
  \/ PushWorker \/ FlowWorker("onData") \/ FlowWorker("resume") \/ RefillWorker
  \/ EndWorker \/ WriteWorker \/ NextWrite
  \/ Emit \/ PipeData \/ AskRefill \/ CallRead \/ ReadReturns \/ EmitOver
  \/ Wrote \/ Called \/ Finished \/ EndSaid \/ Take \/ EndOtherHalf

ScriptCalls ==
  \/ RunScript \/ Listen(TRUE) \/ Listen(FALSE) \/ Pause \/ Resume \/ Push \/ PushEnd
  \/ Read \/ Write \/ End \/ Destroy

Next == Native \/ ScriptReturns \/ SinkDrains \/ ScriptCalls

Spec == Init /\ [][Next]_dvars

\* The loop runs its macrotasks and script functions return.
FairSpec == Spec /\ SF_dvars(Native) /\ WF_dvars(ScriptReturns)

-----------------------------------------------------------------------------
TypeOK ==
  /\ d \in [rbuf : Seq(Chunk), wbuf : Seq(Chunk), wsize : Nat, rEnded : BOOLEAN,
            wEnded : BOOLEAN, flowing : BOOLEAN, paused : BOOLEAN, finished : BOOLEAN,
            destroyed : BOOLEAN, reading : BOOLEAN, writing : BOOLEAN, emitting : BOOLEAN,
            heeded : BOOLEAN, piped : BOOLEAN, halfOpen : BOOLEAN]
  /\ tasks \in Seq(Task) /\ under \in Seq(Frame)
  /\ sink \in [held : Nat, full : BOOLEAN, ended : BOOLEAN]
  /\ h.calls \in 0..Calls /\ h.finishes \in Nat

InFlight == SelectSeq(tasks, LAMBDA t : t.do = "write")
Flying == [i \in DOMAIN InFlight |-> InFlight[i].c]

\* Whatever is pushed, paused, resumed, read or piped, and from whichever
\* callback, the chunks are handed out in the order of the pushes, each once.
HeardInOrder == ~d.destroyed => h.heard \o d.rbuf = h.pushed

\* _write gets the chunks in the order of the writes, each once, even when two
\* ticks of the write queue overlap; write_buffer_size counts those it has not.
WrittenInOrder ==
  ~d.destroyed => /\ h.written \o Flying \o d.wbuf = h.taken
                  /\ d.wsize >= Len(Flying) + Len(d.wbuf)

\* "finish" follows the last chunk, unless the script wrote between a write and
\* the tick after it.
FinishComesLast ==
  d.finished /\ ~h.raced => h.finishes = 1 /\ d.wbuf = <<>> /\ InFlight = <<>>

\* "end" follows the last chunk of a stream that flows and was never
\* paused or resumed, by the script or by a pipe.
EndComesLast == ~h.endEarly

\* A stream that flows hands out what is pushed, unless it was ever
\* paused or resumed, by the script or by a pipe.
PushedIsHeard ==
  d.rbuf # <<>> /\ RunsFree(d) ~> d.rbuf = <<>> \/ h.disturbed

\* Every chunk written reaches _write, and end() leads to "finish".
QueueEmpties == (d.wbuf # <<>> \/ InFlight # <<>>) ~> (d.wbuf = <<>> /\ InFlight = <<>>)
WritesComplete == QueueEmpties /\ (d.wEnded ~> d.finished \/ d.destroyed)
=============================================================================
