------------------------------ MODULE HttpClient ------------------------------
\* A request of the HTTP client over TCP (modules_builtins/http/
\* http_client_modern.cc). Everything but the uv callbacks is a macrotask: a call
\* queues bytes and posts a flush, an event posts a task that queues the listener,
\* a close posts a task that closes the socket and lets uv delete the request.
EXTENDS Integers, Sequences, FiniteSets, SequencesExt

CONSTANTS Answer,      \* bound: pieces of the answer's body
          ClientCalls  \* bound: calls the script makes

ClientAssumption == Answer \in Nat /\ ClientCalls \in Nat

VARIABLES cl,     \* HttpClientRequest, its socket (phase), what uv was given (up)
          posted, \* macrotasks
          input,  \* what the server has sent and nobody has read
          ran,    \* who runs: the loop or the script
          ch      \* history: chunks the script wrote, events heard but drains, calls, slips

cvars == <<cl, posted, input, ran, ch>>

Part(kind, n) == [kind |-> kind, n |-> n]
Task(what) == [do |-> what, event |-> Part("", 0)]
Say(e, n) == [do |-> "say", event |-> Part(e, n)]
\* What a server sends, as far as it gets: an answer, and how it ends.
Answers ==
  {<<Part("response", 0)>> \o [i \in 1..Answer |-> Part("data", i)] \o <<Part(end, 0)>> :
     end \in {"end", "bad", "eof", "reset"}}

-------------------------------------------------------------------------------
\* Functions of the pair [c, p] of a request and the tasks posted.

Post(s, t) == [s EXCEPT !.p = Append(@, t)]
Emit(s, e, n) == Post(s, Say(e, n))
CloseConnection(s) == Post(s, Task("close"))
Fail(s) == CloseConnection(Emit(s, "error", 0))

\* Mutant: a write goes ahead of those that wait.
QueueWriteFirst(s, part) ==
  Post([s EXCEPT !.c.queue = <<part>> \o @], Task("flush"))

\* queue_write
QueueWrite(s, part) ==
  LET t == [s EXCEPT !.c.queue = Append(@, part)] IN
  IF s.c.writing THEN t ELSE Post(t, Task("flush"))

\* process_write_queue: one write at a time. uv takes it from when the socket
\* connects until it is reset, and says so otherwise.
Flush(s) ==
  LET rest == [s EXCEPT !.c.queue = Tail(@)] IN
  IF s.c.closed \/ s.c.writing \/ s.c.queue = <<>> THEN s
  ELSE IF s.c.phase \in {"connecting", "open"}
  THEN [rest EXCEPT !.c.writing = TRUE, !.c.flight = TRUE, !.c.up = Append(@, Head(s.c.queue))]
  ELSE Emit(rest, "error", 0)

\* Mutant: the next write is left to the next call.
WrittenAlone(s, ok) ==
  LET t == [s EXCEPT !.c.flight = FALSE] IN
  IF ok THEN Emit([t EXCEPT !.c.writing = FALSE], "drain", 0) ELSE Fail(t)

\* on_write_complete
Written(s, ok) ==
  LET t == [s EXCEPT !.c.writing = FALSE, !.c.flight = FALSE] IN
  IF ~ok THEN Fail([s EXCEPT !.c.flight = FALSE])
  ELSE IF t.c.queue = <<>> THEN Emit(t, "drain", 0) ELSE Post(t, Task("flush"))

\* close_connection_internal
CloseInternal(s) ==
  IF s.c.closed THEN s
  ELSE Emit([s EXCEPT !.c.closed = TRUE, !.c.phase = "closing"], "close", 0)

\* send_initial_request: the head, and the body if it was given at the start.
SendInitialRequest(s) ==
  LET t == Emit(QueueWrite([s EXCEPT !.c.sent = TRUE], Part("head", 0)), "connect", 0) IN
  CASE s.c.body = "file" -> Post(t, Task("file"))
    [] s.c.body = "fixed" -> QueueWrite([t EXCEPT !.c.complete = TRUE], Part("chunk", 1))
    [] OTHER -> t

\* stream_next_file_chunk, called once: the callback handed to queue_write, which
\* would call it again, is called by nobody.
StreamFile(s) ==
  IF s.c.closed THEN s
  ELSE IF s.c.file > 0 THEN QueueWrite([s EXCEPT !.c.file = @ - 1], Part("chunk", 1))
  ELSE LET t == [s EXCEPT !.c.complete = TRUE] IN
       IF ~t.c.writing /\ t.c.queue = <<>> THEN Emit(t, "drain", 0) ELSE t

\* The tasks that are not events.
Run(s, what) ==
  CASE what = "flush" -> Flush(s)
    [] what = "close" -> CloseInternal(s)
    [] what = "file" -> StreamFile(s)
    [] what = "pause" ->
         [s EXCEPT !.c.paused = TRUE, !.c.reading = IF s.c.paused THEN @ ELSE FALSE]
    [] what = "resume" ->
         [s EXCEPT !.c.paused = FALSE,
                   !.c.reading = IF s.c.paused /\ s.c.phase = "open" THEN TRUE ELSE @]

\* The last part of a read, parsed. (Those before it are events: an answer has one
\* end, its last part.)
Parse(s, part) ==
  CASE part.kind = "end" -> CloseConnection(Emit(s, "end", 0))
    [] part.kind = "bad" -> Fail(s)
    [] part.kind = "eof" -> CloseConnection(s)
    [] part.kind = "reset" -> Fail([s EXCEPT !.c.phase = "broken"])
    [] OTHER -> Emit(s, part.kind, part.n)

State == [c |-> cl, p |-> posted]
Becomes(s) == cl' = s.c /\ posted' = s.p
-------------------------------------------------------------------------------
\* http.open with a GET ("none"), a body option, or a body to be written.
Init ==
  /\ \E body \in {"none", "fixed", "file", "stream"}, size \in 0..1 :
       /\ body # "file" => size = 0
       /\ cl = [phase |-> "queued", body |-> body, file |-> size, closed |-> FALSE,
                sent |-> FALSE, complete |-> FALSE, writing |-> FALSE, flight |-> FALSE,
                queue |-> <<>>,
                paused |-> FALSE, reading |-> FALSE, up |-> <<>>]
  /\ posted = <<Task("start")>> /\ input \in Answers /\ ran = "script"
  /\ ch = [given |-> 0, heard |-> <<>>, calls |-> 0, slips |-> {}]

\* A call uses the request, which is deleted when its socket is gone.
CCall == ran = "script" /\ ch.calls < ClientCalls /\ cl.phase # "gone"
CCounted(slip) ==
  [ch EXCEPT !.calls = @ + 1, !.slips = @ \cup slip]
Unless(ok, slip) == IF ok THEN {} ELSE {slip}
NotClosing == ~cl.closed /\ Task("close") \notin Range(posted)

\* request.write(data): refused before the head was sent, never after end().
\* (Bound: a script writes to a request without a body of its own.)
WriteCall ==
  /\ CCall /\ cl.sent /\ cl.body = "stream"
  /\ Becomes(QueueWrite(State, Part("chunk", ch.given + 1)))
  /\ ch' = [CCounted(Unless(~cl.complete, "misplaced"))
              EXCEPT !.given = @ + 1]
  /\ UNCHANGED <<input, ran>>

\* request.end(data, callback), either left out: not refused before the head was
\* sent; a callback is a drain.
EndCall ==
  /\ CCall /\ ~cl.complete
  /\ \E data, callback \in BOOLEAN :
       LET s == IF data THEN QueueWrite(State, Part("chunk", ch.given + 1)) ELSE State
           t == IF cl.body = "stream" THEN QueueWrite(s, Part("last", 0)) ELSE s
           u == [t EXCEPT !.c.complete = TRUE] IN
       /\ data => cl.body = "stream"
       /\ Becomes(IF callback THEN Emit(u, "drain", 0) ELSE u)
       /\ ch' = [CCounted(Unless(cl.sent, "misplaced"))
                   EXCEPT !.given = IF data THEN @ + 1 ELSE @]
  /\ UNCHANGED <<input, ran>>

PauseOrResume ==
  /\ CCall /\ \E what \in {"pause", "resume"} : Becomes(Post(State, Task(what)))
  /\ ch' = CCounted({}) /\ UNCHANGED <<input, ran>>

Abort ==
  /\ CCall /\ Becomes(Fail(State))
  /\ ch' = CCounted(Unless(NotClosing, "late"))
  /\ UNCHANGED <<input, ran>>

ReturnToLoop == ran = "script" /\ ran' = "loop" /\ UNCHANGED <<cl, posted, input, ch>>

Polls == ran = "loop" /\ posted = <<>>
\* A callback of something else.
OtherCallback ==
  /\ Polls /\ ch.calls < ClientCalls /\ ran' = "script"
  /\ UNCHANGED <<cl, posted, input, ch>>

-------------------------------------------------------------------------------
\* The macrotasks.
Next1(what) == ran = "loop" /\ posted # <<>> /\ Head(posted).do = what
Rest == [c |-> cl, p |-> Tail(posted)]

\* uv_getaddrinfo may refuse to start.
Start ==
  /\ Next1("start")
  /\ \/ Becomes([Rest EXCEPT !.c.phase = "resolving"])
     \/ Becomes(Fail([Rest EXCEPT !.c.phase = "failed"]))
  /\ UNCHANGED <<input, ran, ch>>

\* A close finds a lookup, a connect or a write in flight, whose callback will
\* use the request after its deletion.
InFlight == cl.flight \/ cl.phase \in {"resolving", "connecting"}
RunTask ==
  \E what \in {"flush", "close", "file", "pause", "resume"} :
    /\ Next1(what)
    /\ IF cl.phase = "gone" THEN Becomes(Rest) ELSE Becomes(Run(Rest, what))
    /\ ch' = [ch EXCEPT !.slips = IF what = "close" /\ ~cl.closed /\ InFlight
                                  THEN @ \cup {"inFlight"} ELSE @]
    /\ UNCHANGED <<input, ran>>

\* The task of an event enqueues the listener.
Relay ==
  /\ Next1("say")
  /\ Becomes(Post(Rest, [Head(posted) EXCEPT !.do = "hear"]))
  /\ UNCHANGED <<input, ran, ch>>

Hear ==
  /\ Next1("hear") /\ Becomes(Rest) /\ ran' = "script"
  /\ ch' = [ch EXCEPT !.heard = IF Head(posted).event.kind = "drain" THEN @
                                ELSE Append(@, Head(posted).event)]
  /\ UNCHANGED input

\* The uv callbacks.

\* getaddrinfo answers; uv_tcp_connect may refuse at once, unnoticed.
OnResolved ==
  /\ Polls /\ cl.phase = "resolving"
  /\ \/ \E phase \in {"connecting", "stuck"} : Becomes([State EXCEPT !.c.phase = phase])
     \/ Becomes(Fail([State EXCEPT !.c.phase = "failed"]))
  /\ UNCHANGED <<input, ran, ch>>

OnConnect ==
  /\ Polls /\ cl.phase = "connecting"
  /\ \/ Becomes(SendInitialRequest([State EXCEPT !.c.phase = "open", !.c.reading = TRUE]))
     \/ LET s == Fail([State EXCEPT !.c.phase = "failed"]) IN
        Becomes(IF cl.flight THEN Written(s, FALSE) ELSE s)
  /\ UNCHANGED <<input, ran, ch>>

OnWriteComplete ==
  /\ Polls /\ cl.flight /\ cl.phase \in {"open", "broken"}
  /\ \E ok \in BOOLEAN : (cl.phase = "broken" => ~ok) /\ Becomes(Written(State, ok))
  /\ UNCHANGED <<input, ran, ch>>

OnRead ==
  /\ Polls /\ cl.phase = "open" /\ cl.reading /\ input # <<>>
  /\ \E k \in 1..Len(input) :
       /\ LET told == [i \in 1..(k - 1) |-> Say(input[i].kind, input[i].n)]
          IN Becomes(Parse([State EXCEPT !.p = @ \o told], input[k]))
       /\ k > 1 => input[k].kind \notin {"eof", "reset"}
       /\ input' = SubSeq(input, k + 1, Len(input))
  /\ UNCHANGED <<ran, ch>>

\* The socket is closed. What was in flight is cancelled, which a listener hears
\* as an error, and asks for a close of what is deleted then.
OnClosed ==
  /\ Polls /\ cl.phase = "closing"
  /\ LET s == [State EXCEPT !.c.phase = "gone", !.c.flight = FALSE] IN
     IF "inFlight" \in ch.slips THEN Becomes(Fail(s)) ELSE Becomes(s)
  /\ UNCHANGED <<input, ran, ch>>

Tasks == Start \/ RunTask \/ Relay \/ Hear
UvDone == OnResolved \/ OnConnect \/ OnWriteComplete \/ OnClosed
ScriptCalls == WriteCall \/ EndCall \/ PauseOrResume \/ Abort
Next == ScriptCalls \/ ReturnToLoop \/ OtherCallback \/ Tasks \/ UvDone \/ OnRead

Spec ==
  /\ Init /\ [][Next]_cvars
  /\ WF_cvars(ReturnToLoop) /\ WF_cvars(Tasks) /\ SF_cvars(UvDone)
-------------------------------------------------------------------------------
Kinds == {"", "connect", "response", "data", "end", "error", "drain", "close",
          "head", "chunk", "last", "bad", "eof", "reset"}
Parts == [kind : Kinds, n : Nat]
Jobs ==
  [do : {"start", "flush", "close", "file", "pause", "resume", "say", "hear"}, event : Parts]
Phases == {"queued", "resolving", "connecting", "stuck", "open", "broken", "failed", "closing", "gone"}

\* The types of the variables.
TypeOK ==
  /\ cl.phase \in Phases /\ cl.queue \in Seq(Parts) /\ cl.up \in Seq(Parts)
  /\ cl.closed \in BOOLEAN /\ cl.writing \in BOOLEAN /\ cl.flight \in BOOLEAN /\ cl.reading \in BOOLEAN
  /\ posted \in Seq(Jobs) /\ ran \in {"script", "loop"}
  /\ ch.heard \in Seq(Parts) /\ ch.calls \in 0..ClientCalls

Ahead(kind, others) ==
  \A i, j \in DOMAIN ch.heard : ch.heard[i].kind = kind /\ ch.heard[j].kind \in others => i <= j
Once(kind) ==
  \A i, j \in DOMAIN ch.heard : ch.heard[i].kind = kind /\ ch.heard[j].kind = kind => i = j

\* The listeners hear the connection, the answer, its body piece by piece, its
\* end, and the close after everything and once. (Not if the socket was closed
\* with something in flight, or abort() comes late: it always tells an error.)
EventsInOrder ==
  /\ Ahead("connect", {"response", "data", "end"}) /\ Ahead("response", {"data", "end"})
  /\ Ahead("data", {"end"}) /\ Once("end") /\ Once("close")
  /\ \A i, j \in DOMAIN ch.heard :
       ch.heard[i].kind = "data" /\ ch.heard[j].kind = "data" /\ i < j =>
         ch.heard[i].n < ch.heard[j].n
  /\ \A i \in DOMAIN ch.heard : ch.heard[i].kind = "data" /\ ch.heard[i].n > 1 =>
       \E j \in 1..(i - 1) : ch.heard[j] = Part("data", ch.heard[i].n - 1)
  /\ ch.slips \cap {"inFlight", "late"} = {} =>
       \A i \in DOMAIN ch.heard : ch.heard[i].kind = "close" => i = Len(ch.heard)

\* The server gets the head, then the chunks in the order of the calls, then, and
\* only when all of them went, the last frame. (Not if the script ends before the
\* connection, or writes after its end.)
UploadInOrder ==
  "misplaced" \in ch.slips \/ \A i \in DOMAIN cl.up :
    /\ cl.up[i].kind = "head" <=> i = 1
    /\ cl.up[i].kind = "chunk" => cl.up[i].n = i - 1
    /\ cl.up[i].kind = "last" => i = Len(cl.up) /\ i = ch.given + 2

AsksWhole == EventsInOrder /\ UploadInOrder

Closing == \E i \in DOMAIN posted : posted[i].do = "close"
Told == \E i \in DOMAIN ch.heard : ch.heard[i].kind = "close"
\* Whatever ends an exchange, the script is told that it is closed, and then the
\* request no longer holds the loop.
CloseIsTold == Closing ~> Told /\ cl.closed
\* What the script wrote goes out as long as the connection stands.
QueueEmpties == cl.queue # <<>> ~> cl.queue = <<>> \/ cl.closed \/ "misplaced" \in ch.slips
ClientGoesOn == CloseIsTold /\ QueueEmpties
===============================================================================
