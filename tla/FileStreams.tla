---------------------------- MODULE FileStreams -----------------------------
\* A readable and a writable file stream and the pipe between them
\* (modules_builtins/streams: readable.cc, writable.cc, streams.h). Events are
\* emitted synchronously: a listener is script code, which may call the streams
\* again before the native function that emitted the event goes on. `stack`
\* holds what is left of each function under way, the innermost one first.
EXTENDS Integers, Sequences, FiniteSets, SequencesExt

CONSTANTS Sizes,       \* sizes of the source, in units; a read returns one
          HighWater,   \* the writable's high_water_mark, in units
          Calls,       \* bound: calls the script makes in a behaviour
          Api,         \* the calls the script uses
          Faults,      \* subset of {"read", "write", "eof", "throw"}
          Options,     \* what the two factories may be given: auto_close and
                       \* speed > 1 of the readable, auto_destroy of the writable
          Careless     \* what the script does that the streams do not bear:
                       \* "listenLate" to a readable that is being piped,
                               \* "flushInCallback" of a write: end(), uncork(), or a
                       \* resume() that finds the end of the source,
                       \* "resumeEarly" before anything made the stream flow,
                       \* "resumeInData": pause() and resume() in one callback

ASSUME StreamsAssumption ==
  /\ Sizes \subseteq Nat /\ HighWater \in Nat \ {0} /\ Calls \in Nat
  /\ Options \subseteq [autoClose : BOOLEAN, throttled : BOOLEAN, autoDestroy : BOOLEAN]

VARIABLES r,        \* ReadableStreamState (held: history, it was the script that paused)
          w,        \* WritableStreamState
          on,       \* the listener vectors of both, by event
          pipe,     \* PipeContext: "none", "piping" or "done"
          stack,    \* functions under way
          file,     \* what has been written to the destination file; history:
                    \* the units of the source in it
          accepted, \* history: chunks that entered the write queue and did not fail
          broken,   \* history: something went wrong, or the script intervened
          calls     \* calls of the script so far

vars == <<r, w, on, pipe, stack, file, accepted, broken, calls>>

ReadEvents == {"data", "end", "rerror", "rclose"}
WriteEvents == {"drain", "finish", "werror", "wclose"}
Events == ReadEvents \cup WriteEvents
Chunk == {0} \cup UNION {1..n : n \in Sizes}    \* a unit of the source, or 0: the script's own data

Frame == [do : {"emit", "script", "afterData", "endOfRead", "closeR", "readFailed",
                "afterWrite", "finishW", "writeFailed", "unpipe", "pipeFailed"},
          ev : Events \cup {"none"}, arg : Chunk, i : Nat, n : Nat,
          users : Int]
Do(what) == [do |-> what, ev |-> "none", arg |-> 0, i |-> 0, n |-> 0, users |-> 0]
Emit(e, c) == [Do("emit") EXCEPT !.ev = e, !.arg = c]
Script == Do("script")

Users(e) == Cardinality({k \in DOMAIN on[e] : on[e][k] = "user"})
Top == Head(stack)
At(what) == stack # <<>> /\ Top.do = what
Then(frames) == stack' = frames \o Tail(stack)

-----------------------------------------------------------------------------
\* schedule_next_read: the stream it leaves and what it still has to do.
NextRead(s) ==
  IF s.destroyed \/ s.ended \/ s.paused \/ s.reading THEN [s |-> s, todo |-> <<>>]
  ELSE IF ~s.open \/ s.pos >= s.size
       THEN [s |-> [s EXCEPT !.ended = TRUE], todo |-> <<Emit("end", 0), Do("endOfRead")>>]
       ELSE [s |-> [s EXCEPT !.reading = TRUE, !.io = TRUE], todo |-> <<>>]

Paused(s) == [s EXCEPT !.paused = TRUE, !.flowing = FALSE]
Flowing(s) == [s EXCEPT !.paused = FALSE, !.flowing = TRUE, !.held = FALSE]

Resumed(s) ==
  IF s.paused /\ ~s.ended /\ ~s.destroyed /\ ~s.reading
  THEN NextRead(Flowing(s)) ELSE [s |-> Flowing(s), todo |-> <<>>]

\* The deferred first read of on("data") and pipe().
Started(s) ==
  IF s.ended \/ s.destroyed THEN s ELSE [s EXCEPT !.flowing = TRUE, !.timers = @ + 1]

\* schedule_next_write; a file that is not open cannot be met (OpenForWrites).
NextWrite(s) ==
  IF s.destroyed \/ s.writing # <<>> \/ s.queue = <<>> \/ s.corks > 0 THEN s
  ELSE [s EXCEPT !.writing = <<Head(s.queue)>>, !.queue = Tail(@), !.buffered = @ - 1]

\* Mutant: a chunk goes to the front of the queue.
QueuedInFront(s, c) == [s EXCEPT !.queue = <<c>> \o @, !.buffered = @ + 1]

Queued(s, c) == [s EXCEPT !.queue = Append(@, c), !.buffered = @ + 1]

\* What end() and the pipe's end handler have in common.
Ended(s) ==
  LET e == [s EXCEPT !.ended = TRUE] IN
  IF s.queue = <<>> /\ s.writing = <<>>
  THEN [s |-> [e EXCEPT !.finished = TRUE], todo |-> <<Emit("finish", 0), Do("finishW")>>]
  ELSE [s |-> NextWrite(e), todo |-> <<>>]

\* cleanup_pipe: the handlers, at most one in each vector, leave the listeners.
Unpiped ==
  [e \in Events |->
     IF Contains(on[e], "pipe")
     THEN RemoveAt(on[e], CHOOSE k \in DOMAIN on[e] : on[e][k] = "pipe") ELSE on[e]]
Cleanup == pipe' = "done" /\ on' = Unpiped

-----------------------------------------------------------------------------
\* The functions a completed operation, an expired timer or the script enters.

Idle == stack = <<>>

\* The lambda of the timer that on("data"), pipe() or a throttled read started.
DeferredRead ==
  /\ Idle /\ r.timers > 0
  /\ LET s == [r EXCEPT !.timers = @ - 1]
         go == s.flowing /\ ~s.paused /\ ~s.ended /\ ~s.destroyed
         p == IF go THEN NextRead(s) ELSE [s |-> s, todo |-> <<>>]
     IN r' = p.s /\ stack' = p.todo
  /\ UNCHANGED <<w, on, pipe, file, accepted, broken, calls>>

\* on_read_complete
ReadDropped ==
  /\ Idle /\ r.io /\ r.destroyed
  /\ r' = [r EXCEPT !.io = FALSE]
  /\ UNCHANGED <<w, on, pipe, stack, file, accepted, broken, calls>>

ReadData ==
  /\ Idle /\ r.io /\ ~r.destroyed
  /\ r' = [r EXCEPT !.io = FALSE, !.reading = FALSE, !.pos = @ + 1]
  /\ stack' = <<Emit("data", r.pos + 1), Do("afterData")>>
  /\ broken' = (broken \/ pipe = "none")    \* a unit that no pipe will see
  /\ UNCHANGED <<w, on, pipe, file, accepted, calls>>

ReadError ==
  /\ Idle /\ r.io /\ ~r.destroyed /\ "read" \in Faults
  /\ r' = [r EXCEPT !.io = FALSE, !.reading = FALSE]
  /\ stack' = <<Emit("rerror", 0), Do("readFailed")>>
  /\ broken' = (broken \/ ~w.finished)
  /\ UNCHANGED <<w, on, pipe, file, accepted, calls>>

\* Somebody made the file shorter.
ReadNothing ==
  /\ Idle /\ r.io /\ ~r.destroyed /\ "eof" \in Faults
  /\ r' = [r EXCEPT !.io = FALSE, !.reading = FALSE, !.ended = TRUE]
  /\ stack' = <<Emit("end", 0), Do("closeR")>>
  /\ broken' = (broken \/ ~w.finished)
  /\ UNCHANGED <<w, on, pipe, file, accepted, calls>>

AfterData ==
  /\ At("afterData")
  /\ \/ /\ r.pos >= r.size
        /\ r' = [r EXCEPT !.ended = TRUE]
        /\ Then(<<Emit("end", 0), Do("closeR")>>)
     \/ /\ r.pos < r.size /\ (r.paused \/ ~r.flowing)
        /\ Then(<<>>) /\ UNCHANGED r
     \/ /\ r.pos < r.size /\ ~r.paused /\ r.flowing /\ r.throttled
        /\ r' = [r EXCEPT !.timers = @ + 1] /\ Then(<<>>)
     \/ /\ r.pos < r.size /\ ~r.paused /\ r.flowing /\ ~r.throttled
        /\ LET p == NextRead(r) IN r' = p.s /\ Then(p.todo)
  /\ UNCHANGED <<w, on, pipe, file, accepted, broken, calls>>

CloseR ==
  /\ At("closeR")
  /\ IF r.autoClose THEN r' = [r EXCEPT !.open = FALSE] /\ Then(<<Emit("rclose", 0)>>)
                  ELSE Then(<<>>) /\ UNCHANGED r
  /\ UNCHANGED <<w, on, pipe, file, accepted, broken, calls>>

EndOfRead ==
  /\ At("endOfRead")
  /\ r' = [r EXCEPT !.open = @ /\ ~r.autoClose] /\ Then(<<>>)
  /\ UNCHANGED <<w, on, pipe, file, accepted, broken, calls>>

ReadFailed ==
  /\ At("readFailed")
  /\ r' = [r EXCEPT !.open = @ /\ ~r.autoClose, !.ended = TRUE] /\ Then(<<>>)
  /\ UNCHANGED <<w, on, pipe, file, accepted, broken, calls>>

Stored ==
  [data |-> file.data \o w.writing,
   units |-> IF w.writing = <<0>> THEN file.units ELSE file.units \o w.writing]

\* on_write_complete. A request under way when the stream is destroyed may
\* still have been carried out. The script's own writes carry a callback.
WriteDropped ==
  /\ Idle /\ w.writing # <<>> /\ w.destroyed
  /\ w' = [w EXCEPT !.writing = <<>>]
  /\ file' \in {file, Stored}
  /\ UNCHANGED <<r, on, pipe, stack, accepted, broken, calls>>

Callback == IF w.writing = <<0>> THEN <<Script>> ELSE <<>>

WriteDone ==
  /\ Idle /\ w.writing # <<>> /\ ~w.destroyed
  /\ w' = [w EXCEPT !.writing = <<>>]
  /\ file' = Stored
  /\ stack' = Callback \o <<Do("afterWrite")>>
  /\ UNCHANGED <<r, on, pipe, accepted, broken, calls>>

WriteError ==
  /\ Idle /\ w.writing # <<>> /\ ~w.destroyed /\ "write" \in Faults
  /\ w' = [w EXCEPT !.writing = <<>>]
  /\ stack' = <<Emit("werror", 0)>> \o Callback \o <<Do("writeFailed")>>
  /\ accepted' = RemoveAt(accepted, Len(file.data) + 1)
  /\ broken' = TRUE
  /\ UNCHANGED <<r, on, pipe, file, calls>>

\* Mutant: the first write to complete after end() finishes the stream.
AfterWriteHasty ==
  /\ At("afterWrite")
  /\ \/ /\ w.ended /\ ~w.finished
        /\ w' = [w EXCEPT !.finished = TRUE]
        /\ Then(<<Emit("finish", 0), Do("finishW")>>)
     \/ /\ ~w.ended /\ w.queue # <<>> /\ w.corks = 0
        /\ w' = NextWrite(w) /\ Then(<<>>)
     \/ /\ ~w.ended /\ (w.queue = <<>> \/ w.corks > 0)
        /\ w' = [w EXCEPT !.draining = FALSE]
        /\ Then(IF w.draining THEN <<Emit("drain", 0)>> ELSE <<>>)
  /\ UNCHANGED <<r, on, pipe, file, accepted, broken, calls>>

AfterWrite ==
  /\ At("afterWrite")
  /\ \/ /\ w.ended /\ w.queue = <<>> /\ ~w.finished
        /\ w' = [w EXCEPT !.finished = TRUE]
        /\ Then(<<Emit("finish", 0), Do("finishW")>>)
     \/ /\ ~(w.ended /\ w.queue = <<>> /\ ~w.finished)
        /\ w.queue # <<>> /\ w.corks = 0
        /\ w' = NextWrite(w) /\ Then(<<>>)
     \/ /\ ~(w.ended /\ w.queue = <<>> /\ ~w.finished)
        /\ w.queue = <<>> \/ w.corks > 0
        /\ w' = [w EXCEPT !.draining = FALSE]
        /\ Then(IF w.draining THEN <<Emit("drain", 0)>> ELSE <<>>)
  /\ UNCHANGED <<r, on, pipe, file, accepted, broken, calls>>

FinishW ==
  /\ At("finishW")
  /\ IF w.autoDestroy THEN w' = [w EXCEPT !.open = FALSE] /\ Then(<<Emit("wclose", 0)>>)
                    ELSE Then(<<>>) /\ UNCHANGED w
  /\ UNCHANGED <<r, on, pipe, file, accepted, broken, calls>>

WriteFailed ==
  /\ At("writeFailed")
  /\ IF w.autoDestroy
     THEN w' = [w EXCEPT !.destroyed = TRUE, !.open = FALSE] /\ Then(<<Emit("wclose", 0)>>)
     ELSE Then(<<>>) /\ UNCHANGED w
  /\ UNCHANGED <<r, on, pipe, file, accepted, broken, calls>>

-----------------------------------------------------------------------------
\* emit_readable_event_sync, emit_writable_event_sync: a range-for over the
\* vector itself. Its end is fixed when it starts; a handler that erases itself
\* shifts the later ones forward and leaves an empty slot, which is skipped.

EmitStart ==
  /\ At("emit") /\ Top.i = 0
  /\ Then(<<[Top EXCEPT !.i = 1, !.n = Len(on[Top.ev]), !.users = Users(Top.ev)]>>)
  /\ UNCHANGED <<r, w, on, pipe, file, accepted, broken, calls>>

Listener == IF Top.i <= Len(on[Top.ev]) THEN on[Top.ev][Top.i] ELSE "null"
Turn == At("emit") /\ Top.i \in 1..Top.n
Onward(frames) ==
  Then(frames \o <<[Top EXCEPT !.i = @ + 1,
                               !.users = IF Listener = "user" THEN @ - 1 ELSE @]>>)

EmitEnd ==
  /\ At("emit") /\ Top.i > Top.n
  /\ Then(<<>>)
  /\ UNCHANGED <<r, w, on, pipe, file, accepted, broken, calls>>

EmitSkip ==
  /\ Turn /\ Listener = "null" /\ Onward(<<>>)
  /\ UNCHANGED <<r, w, on, pipe, file, accepted, broken, calls>>

EmitUser ==
  /\ Turn /\ Listener = "user" /\ Onward(<<Script>>)
  /\ UNCHANGED <<r, w, on, pipe, file, accepted, broken, calls>>

\* Mutant: the pipe never pauses.
PipeDataGreedy ==
  /\ Turn /\ Listener = "pipe" /\ Top.ev = "data"
  /\ Onward(<<>>)
  /\ IF w.destroyed \/ w.ended
     THEN Cleanup /\ r' = Paused(r) /\ UNCHANGED <<w, accepted>>
     ELSE /\ w' = NextWrite(Queued(w, Top.arg))
          /\ accepted' = Append(accepted, Top.arg)
          /\ UNCHANGED <<pipe, on, r>>
  /\ UNCHANGED <<file, broken, calls>>

\* data_impl of implement_pipe
PipeData ==
  /\ Turn /\ Listener = "pipe" /\ Top.ev = "data"
  /\ Onward(<<>>)
  /\ IF w.destroyed \/ w.ended
     THEN Cleanup /\ r' = Paused(r) /\ UNCHANGED <<w, accepted>>
     ELSE LET q == Queued(w, Top.arg)
              full == q.buffered >= HighWater IN
          /\ w' = [NextWrite(q) EXCEPT !.draining = @ \/ full]
          /\ r' = IF full /\ ~r.paused THEN Paused(r) ELSE r
          /\ accepted' = Append(accepted, Top.arg)
          /\ UNCHANGED <<pipe, on>>
  /\ UNCHANGED <<file, broken, calls>>

\* drain_impl
PipeDrain ==
  /\ Turn /\ Listener = "pipe" /\ Top.ev = "drain"
  /\ LET p == IF r.paused /\ ~r.ended /\ ~r.destroyed
              THEN Resumed(r) ELSE [s |-> r, todo |-> <<>>]
     IN r' = p.s /\ Onward(p.todo)
  /\ UNCHANGED <<w, on, pipe, file, accepted, broken, calls>>

\* end_impl
PipeEnd ==
  /\ Turn /\ Listener = "pipe" /\ Top.ev = "end"
  /\ LET p == IF w.ended THEN [s |-> w, todo |-> <<>>] ELSE Ended(w)
     IN w' = p.s /\ Onward(p.todo \o <<Do("unpipe")>>)
  /\ UNCHANGED <<r, on, pipe, file, accepted, broken, calls>>

Unpipe ==
  /\ At("unpipe") /\ Cleanup /\ Then(<<>>)
  /\ UNCHANGED <<r, w, file, accepted, broken, calls>>

\* error_impl, close_impl
PipeError ==
  /\ Turn /\ Listener = "pipe" /\ Top.ev = "rerror"
  /\ Onward(<<Emit("werror", 0), Do("pipeFailed")>>)
  /\ UNCHANGED <<r, w, on, pipe, file, accepted, broken, calls>>

PipeFailed ==
  /\ At("pipeFailed") /\ Cleanup /\ Then(<<>>)
  /\ w' = IF w.destroyed THEN w ELSE [w EXCEPT !.destroyed = TRUE, !.open = FALSE]
  /\ UNCHANGED <<r, file, accepted, broken, calls>>

PipeClose ==
  /\ Turn /\ Listener = "pipe" /\ Top.ev = "rclose"
  /\ Cleanup /\ Onward(<<>>)
  /\ UNCHANGED <<r, w, file, accepted, broken, calls>>

-----------------------------------------------------------------------------
\* The script: from its own code, or from within a listener or a callback.

RunScript ==
  /\ Idle /\ calls < Calls
  /\ stack' = <<Script>>
  /\ UNCHANGED <<r, w, on, pipe, file, accepted, broken, calls>>

ScriptReturns ==
  /\ At("script") /\ Then(<<>>)
  /\ UNCHANGED <<r, w, on, pipe, file, accepted, broken, calls>>

\* A readable's listener throws: the stream is destroyed without ceremony.
ScriptThrows ==
  /\ At("script") /\ "throw" \in Faults /\ calls < Calls
  /\ Len(stack) > 1 /\ stack[2].do = "emit" /\ stack[2].ev \in ReadEvents
  /\ calls' = calls + 1
  /\ r' = [r EXCEPT !.destroyed = TRUE, !.ended = TRUE, !.paused = TRUE, !.open = FALSE]
  /\ stack' = (IF stack[2].ev # "rerror" THEN <<Emit("rerror", 0)>> ELSE <<>>)
              \o SubSeq(stack, 3, Len(stack))
  /\ broken' = (broken \/ ~w.finished)
  /\ UNCHANGED <<w, on, pipe, file, accepted>>

Call(name) == At("script") /\ name \in Api /\ calls < Calls /\ calls' = calls + 1
Inside(e) == \E k \in DOMAIN stack : stack[k].do = "emit" /\ stack[k].ev = e

MayFlush ==
  "flushInCallback" \in Careless \/ \A k \in DOMAIN stack : stack[k].do # "afterWrite"
MayListen == "listenLate" \in Careless \/ pipe # "piping"

OnData ==
  /\ Call("onData") /\ ~Contains(on["data"], "user") /\ ~Inside("data") /\ MayListen
  /\ on' = [on EXCEPT !["data"] = Append(@, "user")]
  /\ r' = IF on["data"] = <<>> THEN Started(r) ELSE r
  /\ UNCHANGED <<w, pipe, stack, file, accepted, broken>>

OnEnd ==
  /\ Call("onEnd") /\ ~Contains(on["end"], "user") /\ ~Inside("end") /\ MayListen
  /\ on' = [on EXCEPT !["end"] = Append(@, "user")]
  /\ UNCHANGED <<r, w, pipe, stack, file, accepted, broken>>

Pause ==
  /\ Call("pause") /\ r' = [Paused(r) EXCEPT !.held = TRUE]
  /\ UNCHANGED <<w, on, pipe, stack, file, accepted, broken>>

Resume ==
  /\ Call("resume") /\ (r.paused \/ r.flowing \/ "resumeEarly" \in Careless)
  /\ ~Inside("data") \/ "resumeInData" \in Careless
  /\ r.pos < r.size \/ MayFlush
  /\ LET p == Resumed(r) IN r' = p.s /\ stack' = p.todo \o stack
  /\ UNCHANGED <<w, on, pipe, file, accepted, broken>>

DestroyR ==
  /\ Call("destroyR") /\ ~r.destroyed
  /\ r' = [r EXCEPT !.destroyed = TRUE, !.ended = TRUE, !.paused = TRUE, !.open = FALSE]
  /\ stack' = <<Emit("rclose", 0)>> \o stack
  /\ broken' = (broken \/ ~w.finished)
  /\ UNCHANGED <<w, on, pipe, file, accepted>>

\* implement_pipe: it throws for a stream that is destroyed, or ended to write.
Pipe ==
  /\ Call("pipe") /\ pipe = "none" /\ ~r.destroyed /\ ~w.destroyed /\ ~w.ended
  /\ \A e \in {"data", "end", "rerror", "rclose", "drain"} : ~Inside(e)
  /\ pipe' = "piping"
  /\ on' = [e \in Events |-> IF e \in ReadEvents \cup {"drain"}
                             THEN Append(on[e], "pipe") ELSE on[e]]
  /\ r' = IF r.flowing THEN r ELSE Started(r)
  /\ UNCHANGED <<w, stack, file, accepted, broken>>

Write ==
  /\ Call("write") /\ ~w.destroyed /\ ~w.ended
  /\ LET q == Queued(w, 0) IN
       w' = NextWrite([q EXCEPT !.draining = @ \/ q.buffered >= HighWater])
  /\ accepted' = Append(accepted, 0)
  /\ UNCHANGED <<r, on, pipe, stack, file, broken>>

\* end(chunk) does not count its chunk in buffered_size.
End ==
  /\ Call("end") /\ ~w.destroyed /\ ~w.ended
  /\ MayFlush
  /\ \E chunk \in {<<>>, <<0>>} :
       /\ accepted' = accepted \o chunk
       /\ LET p == Ended([w EXCEPT !.queue = @ \o chunk])
          IN w' = p.s /\ stack' = p.todo \o stack
  /\ broken' = TRUE
  /\ UNCHANGED <<r, on, pipe, file>>

DestroyW ==
  /\ Call("destroyW") /\ ~w.destroyed
  /\ w' = [w EXCEPT !.destroyed = TRUE, !.ended = TRUE, !.open = FALSE,
                    !.queue = <<>>, !.buffered = 0]
  /\ stack' = <<Emit("wclose", 0)>> \o stack
  /\ broken' = (broken \/ ~w.finished)
  /\ UNCHANGED <<r, on, pipe, file, accepted>>

Cork ==
  /\ Call("cork") /\ w' = [w EXCEPT !.corks = @ + 1]
  /\ UNCHANGED <<r, on, pipe, stack, file, accepted, broken>>

\* Mutant: the count may fall below zero.
UncorkBlind ==
  /\ Call("cork") /\ MayFlush
  /\ LET s == [w EXCEPT !.corks = @ - 1] IN w' = IF s.corks = 0 THEN NextWrite(s) ELSE s
  /\ UNCHANGED <<r, on, pipe, stack, file, accepted, broken>>

Uncork ==
  /\ Call("cork") /\ w.corks > 0 /\ MayFlush
  /\ LET s == [w EXCEPT !.corks = @ - 1] IN w' = IF s.corks = 0 THEN NextWrite(s) ELSE s
  /\ UNCHANGED <<r, on, pipe, stack, file, accepted, broken>>

-----------------------------------------------------------------------------
Init ==
  /\ \E o \in Options, size \in Sizes :
     /\ r = [size |-> size, pos |-> 0, open |-> TRUE, paused |-> FALSE, flowing |-> FALSE, ended |-> FALSE,
             reading |-> FALSE, io |-> FALSE, destroyed |-> FALSE, timers |-> 0, held |-> FALSE,
             autoClose |-> o.autoClose, throttled |-> o.throttled]
     /\ w = [queue |-> <<>>, buffered |-> 0, writing |-> <<>>, draining |-> FALSE,
             ended |-> FALSE, finished |-> FALSE, destroyed |-> FALSE, open |-> TRUE,
             corks |-> 0, autoDestroy |-> o.autoDestroy]
  /\ on = [e \in Events |-> <<>>]
  /\ pipe = "none" /\ stack = <<>> /\ file = [data |-> <<>>, units |-> <<>>] /\ accepted = <<>>
  /\ broken = FALSE /\ calls = 0

Native ==
  \/ AfterData \/ CloseR \/ EndOfRead \/ ReadFailed \/ AfterWrite \/ FinishW \/ WriteFailed
  \/ EmitStart \/ EmitEnd \/ EmitSkip \/ EmitUser
  \/ PipeData \/ PipeDrain \/ PipeEnd \/ Unpipe \/ PipeError \/ PipeFailed \/ PipeClose

ReadCompletes == ReadDropped \/ ReadData \/ ReadError \/ ReadNothing
WriteCompletes == WriteDropped \/ WriteDone \/ WriteError

ScriptCalls ==
  \/ RunScript \/ ScriptThrows \/ OnData \/ OnEnd \/ Pause \/ Resume \/ DestroyR \/ Pipe
  \/ Write \/ End \/ DestroyW \/ Cork \/ Uncork

Next == Native \/ DeferredRead \/ ReadCompletes \/ WriteCompletes \/ ScriptReturns \/ ScriptCalls

Spec == Init /\ [][Next]_vars

\* Functions go on, the script returns, libuv carries out its requests and
\* runs expired timers. Nothing is assumed of what the script calls.
FairSpec == Spec /\ WF_vars(Native) /\ WF_vars(ScriptReturns)
                 /\ SF_vars(DeferredRead) /\ SF_vars(ReadCompletes) /\ SF_vars(WriteCompletes)

-----------------------------------------------------------------------------
Readable ==
  [pos : Chunk, size : Sizes, open : BOOLEAN, paused : BOOLEAN, flowing : BOOLEAN,
   ended : BOOLEAN, reading : BOOLEAN, io : BOOLEAN, destroyed : BOOLEAN,
   timers : Nat, autoClose : BOOLEAN, throttled : BOOLEAN, held : BOOLEAN]
Writable ==
  [queue : Seq(Chunk), buffered : Int, writing : Seq(Chunk), draining : BOOLEAN,
   ended : BOOLEAN, finished : BOOLEAN, destroyed : BOOLEAN, open : BOOLEAN,
   corks : 0..Calls, autoDestroy : BOOLEAN]

TypeOK ==
  /\ r \in Readable /\ w \in Writable
  /\ on \in [Events -> Seq({"user", "pipe"})]
  /\ pipe \in {"none", "piping", "done"} /\ stack \in Seq(Frame)
  /\ file \in [data : Seq(Chunk), units : Seq(Chunk)] /\ accepted \in Seq(Chunk)
  /\ broken \in BOOLEAN /\ calls \in 0..Calls

\* Whatever the script does between and inside the callbacks, every chunk that
\* entered the write queue is in the file, being written or still queued, in
\* the order of the calls: pausing, corking, deferred reads and re-entrant
\* calls neither lose, repeat nor reorder one. (Not once destroyed, and
\* not the chunk whose write failed.)
NothingLost ==
  ~w.destroyed => file.data \o w.writing \o w.queue = accepted

\* The pipe keeps at most a high water mark of its chunks waiting: every other
\* call of the script (a resume() behind the pipe's back) may add one.
Backpressure ==
  LET piped == SelectSeq(w.queue, LAMBDA c : c # 0)
  IN piped # <<>> => Len(piped) < HighWater + calls

\* No request is made on a closed file: the writable closes its file only when
\* nothing is left to write (schedule_next_write would report "File not open").
OpenForWrites == (w.queue # <<>> \/ w.writing # <<>>) /\ ~w.destroyed => w.open

\* "finish" is said when all writes are finished and end() was called. (A stream
\* that is destroyed may say it with a write under way.)
FinishMeansWritten == w.finished /\ ~w.destroyed => w.queue = <<>> /\ w.writing = <<>>

\* A listener that was registered when an event was emitted hears it, although
\* the pipe's handlers leave the vectors while these are being walked.
EveryListenerHears ==
  \A k \in DOMAIN stack :
    stack[k].do = "emit" /\ stack[k].i > stack[k].n => stack[k].users = 0

\* What two file streams owe the script whatever it calls: all it wrote goes to
\* the file, which is open until it is there, and its listeners are called.
FilesAreSafe == NothingLost /\ OpenForWrites /\ EveryListenerHears

\* The pipe copies the source in order and finishes only a whole copy.
Copy == INSTANCE BytePipe WITH
  size <- r.size,
  out <- file.units,
  state <- IF broken THEN "broken" ELSE IF w.finished THEN "finished" ELSE "open"
ImplementsPipe == Copy!Spec

\* A pipe from a stream that has not ended finishes its destination, unless the
\* script keeps the readable paused or the writable corked, or a stream was
\* destroyed: nobody waits for a drain, a read or a write that never comes. (A
\* failed write of a stream without auto_destroy does stop it for good.)
Held == w.corks > 0 \/ r.held
PipeRuns == pipe = "piping" /\ ~r.ended
PipeIsOver ==
  w.finished \/ w.destroyed \/ r.destroyed \/ Held \/ (broken /\ ~w.autoDestroy)
PipeEnds == PipeRuns ~> PipeIsOver
=============================================================================
