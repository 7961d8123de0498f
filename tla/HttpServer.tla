------------------------------ MODULE HttpServer ------------------------------
\* An HTTP server and one of its connections (modules_builtins/http/
\* http_server.cc): a request that is parsed piece by piece into the listeners of
\* a handler, and the response the handler writes, of which at most MaxPending
\* chunks are with uv at a time. The state is deleted with the connection.
EXTENDS Integers, Sequences, FiniteSets, SequencesExt

CONSTANTS MaxPending,  \* MAX_PENDING_WRITES
          Body,        \* bound: pieces of the request's body
          FileChunks,  \* bound: chunks of a file that is sent
          HttpCalls    \* bound: calls the script makes

HttpAssumption ==
  MaxPending \in Nat \ {0} /\ Body \in Nat /\ FileChunks \in Nat /\ HttpCalls \in Nat

VARIABLES server,  \* ServerInstance: its handle, closed, the tasks posted
          res,     \* HttpResponse and the connection: what uv has to write is out
          req,     \* HttpRequestState: parser events unread (input) and unparsed (todo)
          code,    \* who runs: the loop, the handler, other code of the script
          hs       \* history: chunks taken over, heard, calls, slips

hvars == <<server, res, req, code, hs>>

Item(kind, n) == [kind |-> kind, n |-> n]
Pieces(n) == [i \in 1..n |-> Item("body", i)]
\* What a peer sends, as far as it gets: one request, and how it leaves.
Inputs ==
  {<<Item("head", 0)>> \o Pieces(Body) \o tail :
     tail \in {<<Item("end", 0), Item("eof", 0)>>, <<Item("end", 0), Item("reset", 0)>>,
               <<Item("bad", 0), Item("eof", 0)>>, <<Item("eof", 0)>>}}

-------------------------------------------------------------------------------
\* The response.

\* uv_write, whose result nobody looks at: nothing is written to a connection
\* that is shut down or was reset. wire is what uv was given, in order.
Put(s, item) ==
  IF s.tcp = "open" THEN [s EXCEPT !.out = Append(@, item), !.wire = Append(@, item)] ELSE s

\* flush_headers: the framing is fixed here, by the length if one was set.
Flush(s) ==
  IF s.head # "none" THEN s
  ELSE Put([s EXCEPT !.head = IF s.length THEN "length" ELSE "chunked"], Item("head", 0))

\* perform_close: uv_shutdown, refused after a reset, which nobody looks at.
PerformClose(s) == IF s.tcp = "open" THEN [s EXCEPT !.tcp = "shutting"] ELSE s
InFlight(s) == s.queue # <<>> \/ s.pending > 0
CloseIfDrained(s) == IF s.closing /\ ~InFlight(s) THEN PerformClose(s) ELSE s
RequestClose(s) == CloseIfDrained([s EXCEPT !.closing = TRUE])

\* process_queued_writes, and emit_drain when that empties the queue. A queue
\* that has something follows a chunk, so the head has been sent.
Fill(s) ==
  LET k == IF s.finished THEN 0 ELSE Min({Len(s.queue), MaxPending - s.pending})
      sent == [i \in 1..k |-> Item("chunk", s.queue[i])]
      t == [s EXCEPT !.pending = @ + k, !.queue = SubSeq(@, k + 1, Len(@)),
                     !.out = IF s.tcp = "open" THEN @ \o sent ELSE @,
                     !.wire = IF s.tcp = "open" THEN @ \o sent ELSE @]
  IN IF t.blocked /\ t.queue = <<>> /\ t.pending < MaxPending
     THEN [t EXCEPT !.blocked = FALSE] ELSE t

\* write_chunk
Refuses(s) == s.finished \/ s.file
WriteChunk(s, n) ==
  IF s.pending >= MaxPending THEN [s EXCEPT !.queue = Append(@, n), !.blocked = TRUE]
  ELSE Put([Flush(s) EXCEPT !.pending = @ + 1], Item("chunk", n))

Finished(s) ==
  LET t == [s EXCEPT !.finished = TRUE] IN
  IF s.head = "none" THEN Flush([t EXCEPT !.length = TRUE]) ELSE t
LastFrame(s) == IF s.head = "chunked" THEN Put(s, Item("last", 0)) ELSE s
Final(s, n) == IF n = 0 THEN s ELSE Put(s, Item("final", n))

\* Mutant: the writes in flight are forgotten.
EndResponseAtOnce(s, n) ==
  IF Refuses(s) THEN s ELSE CloseIfDrained(LastFrame(Final(Finished(s), n)))

\* end_response with a chunk n, or 0 for none. With writes in flight the rest is
\* left to their completion, which sends the last frame but not what is queued.
EndResponse(s, n) ==
  LET t == Finished(s) IN
  IF Refuses(s) THEN s
  ELSE IF InFlight(s) THEN [t EXCEPT !.queue = IF n = 0 THEN @ ELSE Append(@, n)]
  ELSE CloseIfDrained(LastFrame(Final(t, n)))

\* The completion of a chunk.
ChunkWritten(s) ==
  LET t == Fill([s EXCEPT !.pending = @ - 1])
  IN CloseIfDrained(IF t.finished /\ ~InFlight(t) THEN LastFrame(t) ELSE t)

\* finish_sendfile
FinishFile(s) ==
  LET t == [s EXCEPT !.file = FALSE, !.callback = FALSE, !.finished = TRUE]
  IN IF InFlight(t) THEN t ELSE CloseIfDrained(Put(t, Item("last", 0)))

\* stream_file_chunk, and the completion of a chunk of the file. A file that
\* cannot be read, or is empty, ends here.
StreamFile(s) ==
  IF s.finished THEN [s EXCEPT !.callback = FALSE]
  ELSE IF s.left = 0 THEN FinishFile(s)
  ELSE Put([s EXCEPT !.left = @ - 1], Item("file", s.left))
FileWritten(s, ok) ==
  IF ok /\ ~s.finished /\ s.left > 0 THEN StreamFile(s) ELSE FinishFile(s)

\* send_file: from here on the response counts as chunked, whatever was announced.
SendFile(s, k) ==
  StreamFile(Flush([s EXCEPT !.file = TRUE, !.callback = TRUE, !.left = k,
                             !.head = IF @ = "length" THEN "chunked" ELSE @]))

-------------------------------------------------------------------------------
Init ==
  /\ server = [handle |-> "null", closed |-> FALSE, tasks |-> <<>>, listened |-> FALSE]
  /\ res = [tcp |-> "none", head |-> "none", length |-> FALSE, finished |-> FALSE,
            pending |-> 0, queue |-> <<>>, blocked |-> FALSE, closing |-> FALSE,
            file |-> FALSE, callback |-> FALSE, left |-> 0, out |-> <<>>, wire |-> <<>>]
  /\ req = [called |-> FALSE, data |-> FALSE, end |-> FALSE, buffered |-> <<>>,
            complete |-> FALSE, paused |-> FALSE, todo |-> <<>>, input |-> <<>>]
  /\ code = "script"
  /\ hs = [given |-> <<>>, heard |-> <<>>, calls |-> 0, slips |-> {}]

\* The script runs: at first, in the handler, in a listener, in another callback.
Running == code \in {"script", "handler"}
HCall == Running /\ hs.calls < HttpCalls
HCounted(h) == [h EXCEPT !.calls = @ + 1]
\* The objects of the request and the response use the state they were made for.
HasRequest == req.called /\ res.tcp # "gone"

\* server.listen(port, callback), once
Listen ==
  /\ HCall /\ ~server.listened /\ ~server.closed
  /\ server' = [server EXCEPT !.tasks = Append(@, "listen"), !.listened = TRUE]
  /\ UNCHANGED <<res, req, code, hs>>

\* Mutant: close() before the listening task finds no handle and leaves it.
CloseServerAtOnce ==
  /\ HCall /\ ~server.closed
  /\ server' = [server EXCEPT !.closed = TRUE,
                              !.handle = IF @ = "open" THEN "closed" ELSE @]
  /\ hs' = HCounted(hs) /\ UNCHANGED <<res, req, code>>

\* server.close(callback)
CloseServer ==
  /\ HCall /\ ~server.closed
  /\ server' = [server EXCEPT !.tasks = Append(@, "close"), !.closed = TRUE]
  /\ hs' = HCounted(hs) /\ UNCHANGED <<res, req, code>>

\* res.write(chunk)
Write ==
  LET n == Len(hs.given) + 1 IN
  /\ HCall /\ HasRequest
  /\ IF Refuses(res) THEN hs' = HCounted(hs) /\ UNCHANGED res
     ELSE /\ res' = WriteChunk(res, n)
          /\ hs' = [HCounted(hs) EXCEPT !.given = Append(@, n)]
  /\ UNCHANGED <<server, req, code>>

\* res.end(chunk), res.end() and res.redirect()
EndCall ==
  LET n == Len(hs.given) + 1 IN
  /\ HCall /\ HasRequest
  /\ \E data \in {0, n} :
       /\ res' = EndResponse(res, data)
       /\ hs' = [HCounted(hs) EXCEPT
            !.given = IF data = 0 \/ Refuses(res) THEN @ ELSE Append(@, n),
            !.slips = IF ~Refuses(res) /\ InFlight(res) /\ (data # 0 \/ res.queue # <<>>)
                      THEN @ \cup {"cut"} ELSE @]
  /\ UNCHANGED <<server, req, code>>

\* res.setHeader and res.writeHead with a length; res.flushHeaders()
SetLength ==
  /\ HCall /\ HasRequest /\ res.head = "none" /\ ~res.length
  /\ res' = [res EXCEPT !.length = TRUE] /\ hs' = HCounted(hs)
  /\ UNCHANGED <<server, req, code>>

FlushHeaders ==
  /\ HCall /\ HasRequest /\ res.head = "none" /\ res' = Flush(res) /\ hs' = HCounted(hs)
  /\ UNCHANGED <<server, req, code>>

\* res.sendFile(file, callback): neither queued chunks, nor a length that was
\* announced, nor another file under way stop it.
SendFileCall ==
  /\ HCall /\ HasRequest
  /\ \E k \in 0..FileChunks : res' = SendFile(res, k)
  /\ hs' = [HCounted(hs) EXCEPT
       !.slips = IF res.queue # <<>> \/ res.length \/ res.file \/ res.finished
                 THEN @ \cup {"file"} ELSE @]
  /\ UNCHANGED <<server, req, code>>

\* req.on("data"): what was buffered is delivered, and the end after it.
OnData ==
  /\ HCall /\ HasRequest /\ ~req.data
  /\ req' = [req EXCEPT !.data = TRUE, !.buffered = <<>>]
  /\ hs' = [HCounted(hs) EXCEPT
       !.heard = @ \o req.buffered
                 \o IF req.buffered # <<>> /\ req.complete /\ req.end THEN <<0>> ELSE <<>>,
       !.slips = IF req.complete /\ req.buffered # <<>> /\ 0 \in Range(hs.heard)
                 THEN @ \cup {"late"} ELSE @]
  /\ UNCHANGED <<server, res, code>>

\* req.on("end")
OnEnd ==
  /\ HCall /\ HasRequest /\ ~req.end
  /\ req' = [req EXCEPT !.end = TRUE]
  /\ hs' = [HCounted(hs) EXCEPT
       !.heard = IF req.complete /\ req.buffered = <<>> THEN Append(@, 0) ELSE @]
  /\ UNCHANGED <<server, res, code>>

\* req.pause(), req.resume()
PauseResume ==
  /\ HCall /\ HasRequest
  /\ req' = [req EXCEPT !.paused = ~@] /\ hs' = HCounted(hs)
  /\ UNCHANGED <<server, res, code>>

\* The code returns to the loop or to the parser.
Return ==
  /\ Running /\ code' = "loop" /\ UNCHANGED <<server, res, req, hs>>

\* The handler throws before anything was sent: an answer of 500 goes out.
Throw ==
  LET n == Len(hs.given) + 1 IN
  /\ code = "handler" /\ code' = "loop"
  /\ IF res.head = "none" /\ ~res.finished
     THEN /\ res' = EndResponse(res, n)
          /\ hs' = [hs EXCEPT !.given = IF Refuses(res) THEN @ ELSE Append(@, n)]
     ELSE UNCHANGED <<res, hs>>
  /\ UNCHANGED <<server, req>>

-------------------------------------------------------------------------------
\* The loop.

AtLoop == code = "loop" /\ req.todo = <<>>

\* A callback of the script, of a timer or of drain: it may make calls.
OtherTask ==
  /\ AtLoop /\ hs.calls < HttpCalls /\ code' = "script"
  /\ UNCHANGED <<server, res, req, hs>>

\* The tasks of listen() and close().
ServerTask ==
  /\ AtLoop /\ server.tasks # <<>>
  /\ server' = [server EXCEPT !.tasks = Tail(@),
       !.handle = IF Head(server.tasks) = "listen" THEN "open"
                  ELSE IF @ = "open" THEN "closed" ELSE @]
  /\ UNCHANGED <<res, req, code, hs>>

\* on_connection: a server that is closing leaves the connection where it is.
OnConnection ==
  /\ AtLoop /\ server.handle = "open" /\ ~server.closed /\ res.tcp = "none"
  /\ res' = [res EXCEPT !.tcp = "open"]
  /\ \E i \in Inputs : req' = [req EXCEPT !.input = i]
  /\ UNCHANGED <<server, code, hs>>

Leaving == {"eof", "reset"}
\* on_read: some of what the peer has sent, or its end. (Its handle is read until
\* it is closed.)
OnRead ==
  /\ AtLoop /\ res.tcp \in {"open", "shutting"} /\ ~req.paused /\ req.input # <<>>
  /\ IF Head(req.input).kind \in Leaving
     THEN /\ res' = RequestClose(
               IF Head(req.input).kind = "reset" /\ res.tcp = "open"
               THEN [res EXCEPT !.tcp = "broken"] ELSE res)
          /\ req' = [req EXCEPT !.input = Tail(@)]
     ELSE \E k \in 1..Len(req.input) :
            /\ \A i \in 1..k : req.input[i].kind \notin Leaving
            /\ req' = [req EXCEPT !.todo = SubSeq(req.input, 1, k),
                                  !.input = SubSeq(@, k + 1, Len(@))]
            /\ UNCHANGED res
  /\ UNCHANGED <<server, code, hs>>

\* llhttp_execute calls back for each part it recognises.
Parsing(kind) == code = "loop" /\ req.todo # <<>> /\ Head(req.todo).kind = kind
Parsed == [req EXCEPT !.todo = Tail(@)]

OnHeadersComplete ==
  /\ Parsing("head") /\ req' = [Parsed EXCEPT !.called = TRUE] /\ code' = "handler"
  /\ UNCHANGED <<server, res, hs>>

OnBody ==
  LET n == Head(req.todo).n IN
  /\ Parsing("body")
  /\ IF req.data
     THEN /\ hs' = [hs EXCEPT !.heard = Append(@, n)] /\ code' = "script" /\ req' = Parsed
     ELSE /\ req' = [Parsed EXCEPT !.buffered = Append(@, n)] /\ UNCHANGED <<code, hs>>
  /\ UNCHANGED <<server, res>>

OnMessageComplete ==
  /\ Parsing("end") /\ req' = [Parsed EXCEPT !.complete = TRUE]
  /\ IF req.end
     THEN hs' = [hs EXCEPT !.heard = Append(@, 0)] /\ code' = "script"
     ELSE UNCHANGED <<code, hs>>
  /\ UNCHANGED <<server, res>>

\* What does not parse, or a body too large to buffer, ends the connection.
OnParseError ==
  /\ Parsing("bad") /\ req' = [req EXCEPT !.todo = <<>>] /\ res' = RequestClose(res)
  /\ UNCHANGED <<server, code, hs>>

\* uv has written the oldest request.
OnWritten ==
  LET done == Head(res.out)
      s == [res EXCEPT !.out = Tail(@)] IN
  /\ AtLoop /\ res.out # <<>> /\ res.tcp # "gone"
  /\ CASE done.kind = "chunk" -> res' = ChunkWritten(s)
       [] done.kind = "file" -> \E ok \in BOOLEAN : res' = FileWritten(s, ok)
       [] OTHER -> res' = s
  /\ UNCHANGED <<server, req, code, hs>>

\* The shutdown follows the writes; its callback closes the handle, whose
\* callback deletes the state.
OnShutdown ==
  /\ AtLoop /\ res.tcp = "shutting" /\ res.out = <<>>
  /\ res' = [res EXCEPT !.tcp = "closed"] /\ UNCHANGED <<server, req, code, hs>>

OnClosed ==
  /\ AtLoop /\ res.tcp = "closed"
  /\ res' = [res EXCEPT !.tcp = "gone"] /\ UNCHANGED <<server, req, code, hs>>

UvAnswers == OnWritten \/ OnShutdown \/ OnClosed \/ ServerTask
Reads == OnConnection \/ OnRead
Parses == OnHeadersComplete \/ OnBody \/ OnMessageComplete \/ OnParseError
Script ==
  \/ Listen \/ CloseServer \/ Write \/ EndCall \/ SetLength \/ FlushHeaders
  \/ SendFileCall \/ OnData \/ OnEnd \/ PauseResume \/ Throw

Next == Script \/ Return \/ OtherTask \/ Reads \/ Parses \/ UvAnswers

Fairness == WF_hvars(Return) /\ WF_hvars(Parses) /\ SF_hvars(UvAnswers)
Spec == Init /\ [][Next]_hvars /\ Fairness
-------------------------------------------------------------------------------
\* The types of the variables.
TypeOK ==
  /\ server.handle \in {"null", "open", "closed"}
  /\ server.tasks \in Seq({"listen", "close"})
  /\ res.tcp \in {"none", "open", "broken", "shutting", "closed", "gone"}
  /\ res.head \in {"none", "length", "chunked"} /\ res.pending \in Nat
  /\ res.queue \in Seq(Nat) /\ req.buffered \in Seq(1..Body)
  /\ code \in {"loop", "handler", "script"} /\ hs.calls \in 0..HttpCalls

IsChunk(i) == res.wire[i].kind \in {"chunk", "final"}
AllSent == \A n \in DOMAIN hs.given : n + 1 \in DOMAIN res.wire /\ IsChunk(n + 1)

\* The peer gets the head first, then the chunks in the order of the calls,
\* whichever of them had to wait, a file in its order, and one last frame after
\* all of it.
SentInOrder ==
  "file" \in hs.slips \/ \A i \in DOMAIN res.wire :
    /\ res.wire[i].kind = "head" <=> i = 1
    /\ IsChunk(i) => i - 1 \in DOMAIN hs.given /\ res.wire[i].n = hs.given[i - 1]
    /\ res.wire[i].kind = "last" => res.finished /\ i = Len(res.wire) /\ AllSent

\* A response that was ended has gone out whole once uv is done with it, unless
\* end() came with a chunk, or before queued chunks, while others were in flight;
\* and who sent a file has been told.
FinishedIsSent ==
  res.finished /\ res.out = <<>> /\ res.tcp = "open" /\ hs.slips = {} =>
    /\ AllSent /\ ~res.callback
    /\ res.head = "chunked" => \E i \in DOMAIN res.wire : res.wire[i].kind = "last"

\* A listener hears the body in its order and the end after all of it, once, also
\* what came before it listened; but who asks for the data after its end listener
\* was called has missed the order.
BodyIsHeard ==
  "late" \in hs.slips \/
  /\ \E n \in 0..Body :
       hs.heard \in {[i \in 1..n |-> i], [i \in 1..(n + 1) |-> IF i > n THEN 0 ELSE i]}
  /\ req.data => req.buffered = <<>>
  /\ req.complete /\ req.end /\ req.data => 0 \in Range(hs.heard)

ServesWhole == SentInOrder /\ FinishedIsSent /\ BodyIsHeard

\* A writer that was told to wait gets its drain, unless the response was cut or
\* the peer is gone.
DrainComes == res.blocked ~> ~res.blocked \/ res.finished \/ res.tcp # "open"
\* A connection that the peer has left or spoilt is closed and its state deleted,
\* unless its response was cut, or its file sent over queued chunks. (After a reset
\* nothing closes it.)
LeftIsClosed == res.closing ~> res.tcp \in {"broken", "gone"} \/ hs.slips \cap {"cut", "file"} # {}
\* A server that was closed gives back its handle.
ServerLetsGo == server.closed ~> server.handle # "open" /\ server.tasks = <<>>
ServerGoesOn == DrainComes /\ LeftIsClosed /\ ServerLetsGo
===============================================================================
