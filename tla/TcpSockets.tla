----------------------------- MODULE TcpSockets -----------------------------
\* Sockets over TCP (modules_builtins/net_module/tcp.cc): clients that walk the
\* addresses of a host, connections that a server accepts, and the counter
\* g_active_tcp_work that keeps the event loop from returning. Everything runs
\* on the loop's thread; the script runs between two tasks, or inside uv_run
\* when a write completes and the drain callbacks are called.
EXTENDS Integers, Sequences, FiniteSets

CONSTANTS Clients,  \* sockets that connect() makes
          Guests,   \* connections that peers may open to the server
          Addrs,    \* addresses a host name may have
          Chunks,   \* bound: chunks the peers send
          Calls,    \* bound: calls the script makes
          Careless  \* what the script does that the module is not ready for

TcpAssumption ==
  /\ Clients \cap Guests = {} /\ IsFiniteSet(Clients \cup Guests) /\ Addrs \in Nat \ {0} /\ Chunks \in Nat /\ Calls \in Nat
  /\ Careless \subseteq {"listenEarly", "resumeEarly", "listenTwice"}

VARIABLES sock,   \* TcpSocketInstance and where its address walk is
          uv,     \* the uv_tcp_t of each address a socket has tried
          peer,   \* the other side: writes it has not taken, whether one has failed
          srv,    \* TcpServerInstance
          work,   \* g_active_tcp_work
          queue,  \* macrotasks
          at,     \* where the loop thread is
          h       \* history: chunks sent, read, heard, "close" said, calls, attempts cancelled

vars == <<sock, uv, peer, srv, work, queue, at, h>>

Socks == Clients \cup Guests
Fresh == [walk |-> "none", handle |-> 0, closed |-> FALSE, reading |-> FALSE, paused |-> FALSE,
          onData |-> FALSE, drains |-> 0, kept |-> FALSE, known |-> FALSE]
Job(what, s, c) == [do |-> what, of |-> s, c |-> c]
Enqueue(jobs) == queue' = queue \o jobs
Script == at \in {"script", "drain"}
Closing == {"dropped", "closing", "cancelled"}
Of(s) == uv[s][sock[s].handle]
SetUv(s, state) == uv' = [uv EXCEPT ![s][sock[s].handle] = state]

-----------------------------------------------------------------------------
\* start_reading_if_needed, as a change of the socket and of its handle. On a
\* handle that still connects uv_read_start fails, and nobody looks.
Ready(s) == /\ sock[s].handle # 0 /\ ~sock[s].closed /\ ~sock[s].reading
            /\ Of(s) \in {"connecting", "idle"}
StartReading(s, rec) ==
  IF Ready(s) /\ ~rec.paused
  THEN /\ sock' = [sock EXCEPT ![s] = [rec EXCEPT !.reading = TRUE]]
       /\ IF Of(s) = "idle" THEN SetUv(s, "reading") ELSE UNCHANGED uv
  ELSE sock' = [sock EXCEPT ![s] = rec] /\ UNCHANGED uv

\* The end of the address walk, and one attempt: the addresses before k fail at
\* once, k is connecting.
Lost(rec) == [rec EXCEPT !.walk = "over", !.kept = FALSE]

Exhausted(s, rec) ==
  /\ sock' = [sock EXCEPT ![s] = Lost(rec)]
  /\ work' = work - 1
  /\ Enqueue(<<Job("error", s, 0)>>)

\* try_next_address from address a, the handles being uvs.
TryNextAddress(s, a, rec, uvs) ==
  \/ Exhausted(s, rec) /\ uv' = uvs
  \/ \E k \in a..Addrs :
       LET gone == IF k > a THEN FALSE ELSE rec.closed IN
       /\ sock' = [sock EXCEPT ![s] =
            [rec EXCEPT !.walk = "connecting", !.handle = k, !.closed = gone]]
       /\ uv' = [uvs EXCEPT ![s] = [i \in 1..Addrs |-> IF i = k THEN "connecting"
                                     ELSE IF i \in a..(k - 1) THEN "dropped" ELSE @[i]]]
       /\ UNCHANGED <<work, queue>>

-----------------------------------------------------------------------------
\* Callbacks of uv_run.

Resolved(s) ==
  /\ at = "poll" /\ sock[s].walk = "resolving"
  /\ TryNextAddress(s, 1, sock[s], uv)
  /\ UNCHANGED <<peer, srv, at, h>>

\* on_address_connect
Connected(s) ==
  /\ at = "poll" /\ sock[s].walk = "connecting" /\ sock[s].handle # 0 /\ Of(s) = "connecting"
  /\ sock' = [sock EXCEPT ![s].walk = "open"] /\ SetUv(s, "idle")
  /\ Enqueue(<<Job("connect", s, 0)>>)
  /\ UNCHANGED <<peer, srv, work, at, h>>

\* Mutant: a refusal closes the handle and leaves it at that.
RefusedQuits(s) ==
  /\ at = "poll" /\ sock[s].walk = "connecting" /\ sock[s].handle # 0 /\ Of(s) = "connecting"
  /\ sock' = [sock EXCEPT ![s].handle = 0] /\ SetUv(s, "dropped")
  /\ UNCHANGED <<peer, srv, work, queue, at, h>>

Refused(s) ==
  /\ at = "poll" /\ sock[s].walk = "connecting" /\ sock[s].handle # 0 /\ Of(s) = "connecting"
  /\ TryNextAddress(s, sock[s].handle + 1, [sock[s] EXCEPT !.handle = 0, !.closed = FALSE],
                    [uv EXCEPT ![s][sock[s].handle] = "dropped"])
  /\ UNCHANGED <<peer, srv, at, h>>

\* on_tcp_connection; a server that is closing does not accept.
Accept(s) ==
  /\ at = "poll" /\ s \in Guests /\ sock[s].walk = "none" /\ srv.handle = "listening" /\ ~srv.closed
  /\ sock' = [sock EXCEPT ![s] = [Fresh EXCEPT !.walk = "open", !.handle = 1, !.kept = TRUE]]
  /\ uv' = [uv EXCEPT ![s][1] = "idle"]
  /\ Enqueue(<<Job("connection", s, 0)>>)
  /\ UNCHANGED <<peer, srv, work, at, h>>

Read(s) ==
  /\ at = "poll" /\ sock[s].handle # 0 /\ Of(s) = "reading"
  /\ h.sent < Chunks
  /\ Enqueue(IF sock[s].onData THEN <<Job("data", s, h.read[s] + 1)>> ELSE <<>>)
  /\ h' = [h EXCEPT !.read[s] = @ + 1, !.sent = @ + 1]
  /\ UNCHANGED <<sock, uv, peer, srv, work, at>>

\* Mutant: the socket leaves the registry at once.
EndOfReadForgets(s) ==
  /\ at = "poll" /\ sock[s].handle # 0 /\ Of(s) = "reading"
  /\ sock' = [sock EXCEPT ![s].reading = FALSE, ![s].drains = 0, ![s].closed = TRUE,
                          ![s].kept = FALSE]
  /\ SetUv(s, "closing") /\ Enqueue(<<Job("close", s, 0)>>)
  /\ UNCHANGED <<peer, srv, work, at, h>>

\* The read callback with an error or the end of the stream, whenever the peer
\* chooses.
EndOfRead(s) ==
  /\ at = "poll" /\ sock[s].handle # 0 /\ Of(s) = "reading"
  /\ sock' = [sock EXCEPT ![s].reading = FALSE, ![s].drains = 0, ![s].closed = TRUE]
  /\ SetUv(s, "closing") /\ Enqueue(<<Job("close", s, 0)>>)
  /\ UNCHANGED <<peer, srv, work, at, h>>

\* The write callback without an error: when nothing is left to write, the
\* drain callbacks are taken and called at once. Callbacks of writes that ended
\* together all find the queue empty.
Wrote(s) ==
  /\ at = "poll" /\ sock[s].handle # 0 /\ Of(s) \in {"idle", "reading"} /\ peer[s].owed > 0
  /\ peer' = [peer EXCEPT ![s].owed = @ - 1]
  /\ \E empty \in {TRUE, peer[s].owed = 1} :
       IF empty /\ sock[s].drains > 0
       THEN at' = "drain" /\ sock' = [sock EXCEPT ![s].drains = 0]
       ELSE UNCHANGED <<at, sock>>
  /\ UNCHANGED <<uv, srv, work, queue, h>>

\* ... with an error: nothing happens, drain callbacks included.
WriteFailed(s) ==
  /\ at = "poll" /\ sock[s].handle # 0 /\ Of(s) \in {"idle", "reading"}
  /\ peer[s].owed > 0 /\ peer' = [peer EXCEPT ![s].owed = @ - 1, ![s].failed = TRUE]
  /\ UNCHANGED <<sock, uv, srv, work, queue, at, h>>

\* Mutant: only one of the two ways to close gives the counter back.
ClosedLeaks(s, a) ==
  /\ at = "closing" /\ uv[s][a] = "closing"
  /\ uv' = [uv EXCEPT ![s][a] = "gone"] /\ work' = work
  /\ sock' = [sock EXCEPT ![s].kept = FALSE] /\ peer' = [peer EXCEPT ![s].owed = 0]
  /\ UNCHANGED <<srv, queue, at, h>>

\* The close callbacks, for the end of a stream and for close() of a client;
\* close() of a guest gives nothing back, the end of its stream does.
Closed(s, a) ==
  /\ at = "closing" /\ uv[s][a] = "closing"
  /\ uv' = [uv EXCEPT ![s][a] = "gone"]
  /\ work' = IF s \in Clients \/ sock[s].handle # 0 THEN work - 1 ELSE work
  /\ sock' = [sock EXCEPT ![s].kept = FALSE] /\ peer' = [peer EXCEPT ![s].owed = 0]
  /\ UNCHANGED <<srv, queue, at, h>>

Dropped(s, a) ==
  /\ at = "closing" /\ uv[s][a] = "dropped" /\ uv' = [uv EXCEPT ![s][a] = "gone"]
  /\ UNCHANGED <<sock, peer, srv, work, queue, at, h>>

\* close() of a client that was connecting: uv cancels the attempt first, and
\* on_address_connect takes that for a refusal; then the close callback.
Cancelled(s, a) ==
  /\ at = "closing" /\ uv[s][a] = "cancelled" /\ h' = [h EXCEPT !.cancelled = @ \cup {<<s, a>>}]
  /\ \/ /\ sock' = [sock EXCEPT ![s] = Lost(@)]
        /\ uv' = [uv EXCEPT ![s][a] = "gone"]
        /\ work' = work - 2 /\ Enqueue(<<Job("error", s, 0)>>)
     \/ \E k \in (a + 1)..Addrs :
          /\ sock' = [sock EXCEPT ![s].walk = "connecting", ![s].handle = k, ![s].kept = FALSE,
                                  ![s].closed = (k = a + 1)]
          /\ uv' = [uv EXCEPT ![s][a] = "gone", ![s][k] = "connecting"]
          /\ work' = work - 1 /\ UNCHANGED queue
  /\ UNCHANGED <<peer, srv, at>>

-----------------------------------------------------------------------------
\* The script.

Call == Script /\ h.calls < Calls /\ h' = [h EXCEPT !.calls = @ + 1]
Met(s) == sock[s].known /\ sock[s].walk # "none"
Alive(s) == ~sock[s].closed /\ sock[s].handle # 0
\* The script waits for the connect callback, or it does not.
Waits(s, what) == sock[s].walk \notin {"resolving", "connecting"} \/ what \in Careless

\* A host name that getaddrinfo refuses fails inside connect(), before the
\* script has the object to set a handler on: no event tells it.
Connect(s) ==
  /\ Call /\ s \in Clients /\ sock[s].walk = "none"
  /\ \/ /\ sock' = [sock EXCEPT ![s] = [Fresh EXCEPT !.walk = "resolving", !.kept = TRUE,
                                                     !.known = TRUE]]
        /\ work' = work + 1
     \/ /\ sock' = [sock EXCEPT ![s] = [Fresh EXCEPT !.walk = "over", !.known = TRUE]]
        /\ UNCHANGED work
  /\ UNCHANGED <<uv, peer, srv, queue, at>>

OnData(s) ==
  /\ Call /\ Met(s) /\ Waits(s, "listenEarly")
  /\ StartReading(s, [sock[s] EXCEPT !.onData = TRUE])
  /\ UNCHANGED <<peer, srv, work, queue, at>>

OnDrain(s) ==
  /\ Call /\ Met(s) /\ sock' = [sock EXCEPT ![s].drains = @ + 1]
  /\ UNCHANGED <<uv, peer, srv, work, queue, at>>

Write(s) ==
  /\ Call /\ Met(s) /\ Alive(s) /\ Of(s) \in {"idle", "reading"}
  /\ peer' = [peer EXCEPT ![s].owed = @ + 1]
  /\ UNCHANGED <<sock, uv, srv, work, queue, at>>

Close(s) ==
  /\ Call /\ Met(s)
  /\ IF Alive(s)
     THEN /\ SetUv(s, IF Of(s) = "connecting" THEN "cancelled" ELSE "closing")
          /\ sock' = [sock EXCEPT ![s].closed = TRUE, ![s].handle = 0]
     ELSE sock' = [sock EXCEPT ![s].closed = TRUE] /\ UNCHANGED uv
  /\ UNCHANGED <<peer, srv, work, queue, at>>

Pause(s) ==
  /\ Call /\ Met(s) /\ Alive(s) /\ ~sock[s].paused
  /\ sock' = [sock EXCEPT ![s].paused = TRUE]
  /\ IF Of(s) = "reading" THEN SetUv(s, "idle") ELSE UNCHANGED uv
  /\ UNCHANGED <<peer, srv, work, queue, at>>

\* Mutant: resume() leaves `reading` as pause() found it.
ResumeHalf(s) ==
  /\ Call /\ Met(s) /\ Alive(s) /\ sock[s].paused
  /\ sock[s].onData \/ "resumeEarly" \in Careless
  /\ StartReading(s, [sock[s] EXCEPT !.paused = FALSE])
  /\ UNCHANGED <<peer, srv, work, queue, at>>

Resume(s) ==
  /\ Call /\ Met(s) /\ Alive(s) /\ sock[s].paused
  /\ sock[s].onData \/ "resumeEarly" \in Careless
  /\ sock' = [sock EXCEPT ![s].paused = FALSE, ![s].reading = TRUE]
  /\ IF Of(s) = "idle" THEN SetUv(s, "reading") ELSE UNCHANGED uv
  /\ UNCHANGED <<peer, srv, work, queue, at>>

\* listen() and close() of the server leave their work to a task.
Listen ==
  /\ Call /\ Guests # {}
  /\ "listenTwice" \in Careless
     \/ (srv.handle = "none" /\ ~srv.closed /\ \A i \in DOMAIN queue : queue[i].do # "listen")
  /\ Enqueue(<<Job("listen", "server", 0)>>)
  /\ UNCHANGED <<sock, uv, peer, srv, work, at>>

CloseServer ==
  /\ Call /\ Guests # {} /\ srv' = [srv EXCEPT !.closed = TRUE]
  /\ Enqueue(<<Job("unlisten", "server", 0)>>)
  /\ UNCHANGED <<sock, uv, peer, work, at>>

-----------------------------------------------------------------------------
\* The loop.

Begin(what) == at = "tasks" /\ queue # <<>> /\ Head(queue).do = what /\ queue' = Tail(queue)

\* A second listen() loses the handle of the first. An address in use is
\* reported by uv_listen, and the handle stays.
RunListen ==
  /\ Begin("listen")
  /\ \E handle \in {"none", "idle", "listening"} :
       srv' = [srv EXCEPT !.handle = handle,
                          !.lost = @ + (IF srv.handle = "listening" THEN 1 ELSE 0)]
  /\ UNCHANGED <<sock, uv, peer, work, at, h>>

RunUnlisten ==
  /\ Begin("unlisten") /\ srv' = [srv EXCEPT !.handle = "none"]
  /\ UNCHANGED <<sock, uv, peer, work, at, h>>

\* Mutant: a chunk that finds its socket closed is not handed over.
RunHandlerOpen(what) ==
  /\ Begin(what) /\ at' = "script"
  /\ LET s == Head(queue).of IN
     /\ h' = IF what = "data" /\ ~sock[s].closed THEN [h EXCEPT !.heard[s] = Append(@, Head(queue).c)]
             ELSE IF what = "close" THEN [h EXCEPT !.closes[s] = Append(@, Len(h.heard[s]))]
             ELSE h
     /\ sock' = IF what = "connection" THEN [sock EXCEPT ![s].known = TRUE] ELSE sock
  /\ UNCHANGED <<uv, peer, srv, work>>

RunHandler(what) ==
  /\ Begin(what) /\ at' = "script"
  /\ LET s == Head(queue).of IN
     /\ h' = IF what = "data" THEN [h EXCEPT !.heard[s] = Append(@, Head(queue).c)]
             ELSE IF what = "close" THEN [h EXCEPT !.closes[s] = Append(@, Len(h.heard[s]))]
             ELSE h
     /\ sock' = IF what = "connection" THEN [sock EXCEPT ![s].known = TRUE] ELSE sock
  /\ UNCHANGED <<uv, peer, srv, work>>

ScriptReturns ==
  /\ Script /\ at' = IF at = "drain" THEN "poll" ELSE "tasks"
  /\ UNCHANGED <<sock, uv, peer, srv, work, queue, h>>

\* The idle test of run_until_idle: no active handle, no work counted.
Quiet ==
  /\ work <= 0 /\ srv.handle # "listening" /\ srv.lost = 0
  /\ \A s \in Socks, a \in 1..Addrs : uv[s][a] # "reading"

Poll ==
  /\ at = "tasks" /\ queue = <<>> /\ at' = IF Quiet THEN "returned" ELSE "poll"
  /\ UNCHANGED <<sock, uv, peer, srv, work, queue, h>>

EndOfPoll ==
  /\ at = "poll" /\ at' = "closing"
  /\ UNCHANGED <<sock, uv, peer, srv, work, queue, h>>

EndOfClosing ==
  /\ at = "closing" /\ at' = "tasks"
  /\ \A s \in Socks, a \in 1..Addrs : uv[s][a] \notin Closing
  /\ UNCHANGED <<sock, uv, peer, srv, work, queue, h>>

-----------------------------------------------------------------------------
Init ==
  /\ sock = [s \in Socks |-> Fresh]
  /\ uv = [s \in Socks |-> [a \in 1..Addrs |-> "none"]]
  /\ peer = [s \in Socks |-> [owed |-> 0, failed |-> FALSE]]
  /\ srv = [handle |-> "none", closed |-> FALSE, lost |-> 0]
  /\ work = 0 /\ queue = <<>> /\ at = "script"
  /\ h = [sent |-> 0, read |-> [s \in Socks |-> 0], heard |-> [s \in Socks |-> <<>>],
          closes |-> [s \in Socks |-> <<>>], calls |-> 0, cancelled |-> {}]

Events ==
  \E s \in Socks : Resolved(s) \/ Connected(s) \/ Refused(s) \/ Wrote(s) \/ WriteFailed(s)
PeerActs == \E s \in Socks : Accept(s) \/ Read(s) \/ EndOfRead(s)
Api(s) ==
  \/ Connect(s) \/ OnData(s) \/ OnDrain(s) \/ Write(s) \/ Close(s) \/ Pause(s) \/ Resume(s)
Loop ==
  \/ RunListen \/ RunUnlisten \/ Poll \/ EndOfPoll \/ EndOfClosing \/ ScriptReturns
  \/ \E what \in {"connect", "connection", "data", "close", "error"} : RunHandler(what)
  \/ \E s \in Socks, a \in 1..Addrs : Closed(s, a) \/ Dropped(s, a) \/ Cancelled(s, a)

Next ==
  \/ Loop \/ Listen \/ CloseServer \/ Events \/ PeerActs \/ \E s \in Socks : Api(s)

Spec == Init /\ [][Next]_vars

\* The loop turns and the script returns; what is due is not put off by every
\* uv_run for ever: names resolve, attempts succeed or fail, what was written is
\* taken or fails. These events are finitely many, so that one condition does
\* for all of them. A peer may never connect, send or end.
FairSpec == Spec /\ WF_vars(Loop) /\ SF_vars(Events)

-----------------------------------------------------------------------------
TypeOK ==
  /\ sock \in [Socks -> [walk : {"none", "resolving", "connecting", "open", "over"},
                         handle : 0..Addrs, closed : BOOLEAN, reading : BOOLEAN,
                         paused : BOOLEAN, onData : BOOLEAN, drains : Nat, kept : BOOLEAN,
                         known : BOOLEAN]]
  /\ uv \in [Socks -> [1..Addrs -> {"none", "connecting", "idle", "reading", "gone"} \cup Closing]]
  /\ peer \in [Socks -> [owed : Nat, failed : BOOLEAN]]
  /\ srv \in [handle : {"none", "idle", "listening"}, closed : BOOLEAN, lost : Nat]
  /\ work \in Int /\ at \in {"tasks", "script", "poll", "drain", "closing", "returned"}
  /\ \A i \in DOMAIN queue : queue[i].of \in Socks \cup {"server"}
  /\ h.read \in [Socks -> 0..Chunks] /\ h.calls \in 0..Calls
  /\ h.cancelled \subseteq Clients \X (1..Addrs)

\* A socket that does not count as closed has a handle that is open, so that
\* nothing that asks `closed` first closes a handle twice, or writes to one that
\* is being closed, whoever closed it before: the script, the end of
\* the stream or the address walk.
NoDoubleClose ==
  \A s \in Socks : Alive(s) => Of(s) \in {"connecting", "idle", "reading"}

\* A handle points to its socket without owning it: as long as one can still
\* call back, the registry keeps the socket, unless the script closed it while
\* it was connecting.
WasCancelled(s) == \E a \in 1..Addrs : <<s, a>> \in h.cancelled
OwnerIsKept ==
  \A s \in Socks, a \in 1..Addrs :
    uv[s][a] \in {"connecting", "idle", "reading", "closing", "cancelled"}
      => sock[s].kept \/ WasCancelled(s)

\* What uv has read is heard, in order and whole, whatever the script pauses,
\* resumes and closes meanwhile: the chunks heard are the first ones, those that
\* wait in the queue are the others, in their order.
DataWaiting(s) == {i \in DOMAIN queue : queue[i].do = "data" /\ queue[i].of = s}
ReadIsHeard ==
  \A s \in Socks :
    /\ Len(h.heard[s]) <= h.read[s] /\ \A n \in DOMAIN h.heard[s] : h.heard[s][n] = n
    /\ {queue[i].c : i \in DataWaiting(s)} = (Len(h.heard[s]) + 1)..h.read[s]
    /\ \A i, j \in DataWaiting(s) : i < j => queue[i].c < queue[j].c

\* "close" is said once, and after the last chunk.
CloseComesLast ==
  \A s \in Socks : h.closes[s] # <<>> => h.closes[s] = <<h.read[s]>>

\* A socket that listens to data, and is neither paused nor over, reads: also
\* after pause and resume in any order with the connection.
HeededIsRead ==
  \A s \in Socks :
    sock[s].walk = "open" /\ sock[s].onData /\ ~sock[s].paused /\ Alive(s)
      => Of(s) = "reading"

\* The counter holds one for each client under way or open. It has lost one to
\* each guest whose peer ended the connection, who never was counted, and one to
\* each attempt that close() cancelled, which is given back both by the close and
\* by the end of the walk that goes on.
Counted(s) ==
  s \in Clients /\ (sock[s].walk \in {"resolving", "connecting"}
                    \/ \E a \in 1..Addrs : uv[s][a] \in {"idle", "reading", "closing"})
EndedByPeer(s) == s \in Guests /\ sock[s].handle = 1 /\ uv[s][1] = "gone"
WorkMatches ==
  work = Cardinality({s \in Socks : Counted(s)}) - Cardinality({s \in Socks : EndedByPeer(s)})
         - Cardinality(h.cancelled)

\* Every connect comes to an answer, whatever addresses fail and whether or not
\* the script closes it meanwhile, unless the counter has been robbed.
ConnectEnds ==
  \A s \in Clients : sock[s].walk = "resolving"
    ~> sock[s].walk \in {"open", "over"} \/ \E g \in Socks : WasCancelled(g) \/ EndedByPeer(g)

\* When the script has closed everything it has, the loop returns; a socket
\* closed while its name was resolving or while it was connecting may open
\* afterwards, and then nothing closes it.
AllClosed ==
  /\ srv.handle # "listening" /\ \A i \in DOMAIN queue : queue[i].do # "listen"
  /\ \A s \in Socks :
       \/ sock[s].walk \in {"none", "over"}
       \/ sock[s].closed /\ \A a \in 1..Addrs : uv[s][a] \in Closing \cup {"none", "gone"}
LoopReturns == AllClosed ~> at = "returned" \/ ~AllClosed

\* A drain callback registered while a write is under way is called, unless the
\* write fails or the connection ends.
DrainIsCalled ==
  \A s \in Socks : sock[s].drains > 0 /\ peer[s].owed > 0 /\ Alive(s)
    ~> sock[s].drains = 0 \/ peer[s].failed \/ sock[s].closed \/ at = "returned"
=============================================================================
