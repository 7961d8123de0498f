--------------------------- MODULE StreamsProofs ----------------------------
\* Proofs about FileStreams: nothing that was accepted is lost, finish is said
\* when all is written, every listener hears, and the pipe implements BytePipe.
EXTENDS FileStreams, FiniteSetTheorems, SequenceTheorems, TLAPS



\* A readable that may stand for r, and a writable that may stand for w after n
\* calls of the script.
Fine(s) ==
  /\ s \in Readable
  /\ s.pos <= s.size /\ (s.io => s.reading /\ s.pos < s.size)
FineW(s, n) == s \in Writable /\ Len(s.writing) <= 1 /\ s.corks <= n

Legal == {f \in Frame : f.do = "emit" => f.ev \in Events}
Files == [data : Seq(Chunk), units : Seq(Chunk)]

Base ==
  /\ Fine(r) /\ FineW(w, calls)
  /\ on \in [Events -> Seq({"user", "pipe"})]
  /\ pipe \in {"none", "piping", "done"}
  /\ stack \in Seq(Legal)
  /\ file \in Files /\ accepted \in Seq(Chunk)
  /\ broken \in BOOLEAN /\ calls \in 0..Calls

-----------------------------------------------------------------------------
\* Sequences.
LEMMA TailTyped ==
  ASSUME NEW S, NEW s \in Seq(S), s # <<>>
  PROVE  /\ Tail(s) \in Seq(S) /\ Head(s) \in S /\ Head(s) = s[1] /\ 1 \in DOMAIN s
         /\ Len(s) > 0 /\ Len(Tail(s)) = Len(s) - 1
         /\ \A k \in DOMAIN Tail(s) : k \in Nat \ {0} /\ k + 1 \in DOMAIN s /\ Tail(s)[k] = s[k + 1]
OBVIOUS

LEMMA JoinTyped ==
  ASSUME NEW S, NEW s \in Seq(S), NEW t \in Seq(S)
  PROVE  /\ s \o t \in Seq(S) /\ Len(s \o t) = Len(s) + Len(t)
         /\ \A k \in DOMAIN (s \o t) :
              \/ k \in DOMAIN s /\ (s \o t)[k] = s[k]
              \/ k \in Nat /\ k > Len(s) /\ k - Len(s) \in DOMAIN t /\ (s \o t)[k] = t[k - Len(s)]
OBVIOUS

LEMMA SingleTyped ==
  ASSUME NEW S, NEW x \in S
  PROVE  <<x>> \in Seq(S) /\ Len(<<x>>) = 1 /\ DOMAIN <<x>> = {1} /\ <<x>>[1] = x
OBVIOUS

LEMMA PairTyped ==
  ASSUME NEW S, NEW x \in S, NEW y \in S
  PROVE  <<x, y>> \in Seq(S) /\ Len(<<x, y>>) = 2 /\ DOMAIN <<x, y>> = {1, 2}
         /\ <<x, y>>[1] = x /\ <<x, y>>[2] = y
OBVIOUS

-----------------------------------------------------------------------------
\* Types.
LEMMA ChunkFacts ==
  /\ Chunk \subseteq Nat /\ 0 \in Chunk
  /\ \A size \in Sizes : \A c \in 0..size : c \in Chunk
BY DEF Chunk

Doings == {"script", "afterData", "endOfRead", "closeR", "readFailed", "afterWrite", "finishW",
           "writeFailed", "unpipe", "pipeFailed"}

\* The frames that the code pushes.
LEMMA FrameFacts ==
  /\ \A what \in Doings : Do(what) \in Legal /\ Do(what).do = what
  /\ \A e \in Events, c \in Chunk :
       Emit(e, c) \in Legal /\ Emit(e, c).do = "emit" /\ Emit(e, c).ev = e
       /\ Emit(e, c).arg = c /\ Emit(e, c).i = 0
  /\ Script \in Legal /\ Script.do = "script" /\ Script.arg = 0
  /\ \A what : Do(what).do = what /\ Do(what).ev = "none" /\ Do(what).arg = 0 /\ Do(what).i = 0
<1>1. \A what \in Doings : Do(what) \in Legal
  BY ChunkFacts DEF Do, Frame, Doings, Legal
<1>2. \A what : Do(what).do = what /\ Do(what).ev = "none" /\ Do(what).arg = 0 /\ Do(what).i = 0
  BY DEF Do
<1>3. ASSUME NEW e \in Events, NEW c \in Chunk
      PROVE  Emit(e, c) \in Legal /\ Emit(e, c).do = "emit" /\ Emit(e, c).ev = e
             /\ Emit(e, c).arg = c /\ Emit(e, c).i = 0
  <2> DEFINE f == [do |-> "emit", ev |-> "none", arg |-> 0, i |-> 0, n |-> 0, users |-> 0]
  <2>0. Emit(e, c) = [f EXCEPT !.ev = e, !.arg = c]
    BY DEF Emit, Do
  <2>1. Emit(e, c) = [do |-> "emit", ev |-> e, arg |-> c, i |-> 0, n |-> 0, users |-> 0]
    BY <2>0
  <2> QED BY <2>1, ChunkFacts DEF Frame, Legal
<1>4. Script \in Legal /\ Script.do = "script" /\ Script.arg = 0
  BY <1>1, <1>2 DEF Script, Doings
<1> QED BY <1>1, <1>2, <1>3, <1>4

EndTodo == <<Emit("end", 0), Do("endOfRead")>>

\* schedule_next_read does nothing, ends the stream or asks for a read.
LEMMA NextReadCases ==
  ASSUME NEW s
  PROVE  \/ NextRead(s).s = s /\ NextRead(s).todo = <<>>
         \/ /\ ~s.destroyed /\ ~s.ended /\ ~s.reading /\ (~s.open \/ s.pos >= s.size)
            /\ NextRead(s).s = [s EXCEPT !.ended = TRUE] /\ NextRead(s).todo = EndTodo
         \/ /\ ~s.destroyed /\ ~s.ended /\ ~s.reading /\ s.open /\ ~(s.pos >= s.size)
            /\ NextRead(s).s = [s EXCEPT !.reading = TRUE, !.io = TRUE]
            /\ NextRead(s).todo = <<>>
BY DEF NextRead, EndTodo

LEMMA FlowFine ==
  ASSUME NEW s, Fine(s)
  PROVE  Fine(Paused(s)) /\ Fine(Flowing(s)) /\ Fine(Started(s))
<1>1. Fine([s EXCEPT !.paused = TRUE, !.flowing = FALSE])
  BY DEF Fine, Readable
<1>2. Fine([s EXCEPT !.paused = FALSE, !.flowing = TRUE, !.held = FALSE])
  BY DEF Fine, Readable
<1>3. Fine([s EXCEPT !.flowing = TRUE, !.timers = @ + 1])
  <2>1. s \in Readable /\ s.timers + 1 \in Nat
    BY DEF Fine, Readable
  <2>2. [s EXCEPT !.flowing = TRUE, !.timers = @ + 1] \in Readable
    BY <2>1 DEF Readable
  <2> QED BY <2>1, <2>2 DEF Fine, Readable
<1> QED BY <1>1, <1>2, <1>3 DEF Paused, Flowing, Started

LEMMA NextReadFine ==
  ASSUME NEW s, Fine(s)
  PROVE  Fine(NextRead(s).s) /\ NextRead(s).todo \in {<<>>, EndTodo}
<1>1. Fine([s EXCEPT !.ended = TRUE])
  BY DEF Fine, Readable
<1>2. s.pos \in Nat /\ s.size \in Nat
  BY ChunkFacts, StreamsAssumption DEF Fine, Readable
<1>3. CASE ~(s.pos >= s.size)
  <2> DEFINE t == [s EXCEPT !.reading = TRUE, !.io = TRUE]
  <2>0. s \in Readable /\ t \in Readable
    BY DEF Fine, Readable
  <2>1. Fine(t)
    <3>1. /\ t.reading = TRUE /\ t.pos = s.pos /\ t.size = s.size /\ t.ended = s.ended
          /\ t.destroyed = s.destroyed /\ t.open = s.open
      BY <2>0 DEF Readable
    <3> HIDE DEF t
    <3> QED BY <1>2, <1>3, <2>0, <3>1 DEF Fine
  <2> QED BY <1>1, <2>1, NextReadCases
<1> QED BY <1>1, <1>3, NextReadCases

LEMMA ResumedFine ==
  ASSUME NEW s, Fine(s)
  PROVE  Fine(Resumed(s).s) /\ Resumed(s).todo \in {<<>>, EndTodo}
BY FlowFine, NextReadFine DEF Resumed

LEMMA Initially == Init => Base
<1> SUFFICES ASSUME Init PROVE Base
  OBVIOUS
<1>1. PICK o \in Options, size \in Sizes :
        /\ r = [size |-> size, pos |-> 0, open |-> TRUE, paused |-> FALSE, flowing |-> FALSE,
                ended |-> FALSE, reading |-> FALSE, io |-> FALSE, destroyed |-> FALSE,
                timers |-> 0, held |-> FALSE, autoClose |-> o.autoClose,
                throttled |-> o.throttled]
        /\ w = [queue |-> <<>>, buffered |-> 0, writing |-> <<>>, draining |-> FALSE,
                ended |-> FALSE, finished |-> FALSE, destroyed |-> FALSE, open |-> TRUE,
                corks |-> 0, autoDestroy |-> o.autoDestroy]
  BY DEF Init
<1>2. size \in Nat
  BY StreamsAssumption
<1>3. o.autoClose \in BOOLEAN /\ o.throttled \in BOOLEAN /\ o.autoDestroy \in BOOLEAN
  BY StreamsAssumption
<1>4. Fine(r)
  BY <1>1, <1>2, <1>3, ChunkFacts DEF Readable, Fine
<1>5. FineW(w, calls)
  BY <1>1, <1>3, StreamsAssumption DEF Writable, FineW, Init
<1>6. on \in [Events -> Seq({"user", "pipe"})]
  BY DEF Init
<1>7. file \in Files /\ accepted \in Seq(Chunk) /\ stack \in Seq(Legal) /\ calls \in 0..Calls
  BY StreamsAssumption DEF Init, Files
<1> QED BY <1>4, <1>5, <1>6, <1>7 DEF Base, Init

LEMMA BaseTyped == Base => TypeOK
<1> SUFFICES ASSUME Base PROVE TypeOK
  OBVIOUS
<1>1. stack \in Seq(Frame)
  <2>1. \A k \in DOMAIN stack : stack[k] \in Frame
    BY DEF Base, Legal
  <2> QED BY <2>1 DEF Base
<1> QED BY <1>1 DEF Base, TypeOK, Fine, FineW, Files

FinishTodo == <<Emit("finish", 0), Do("finishW")>>

\* schedule_next_write leaves the stream or hands its first chunk to uv.
LEMMA NextWriteCases ==
  ASSUME NEW s
  PROVE  \/ NextWrite(s) = s
         \/ /\ ~s.destroyed /\ s.writing = <<>> /\ s.queue # <<>> /\ ~(s.corks > 0)
            /\ NextWrite(s) = [s EXCEPT !.writing = <<Head(s.queue)>>, !.queue = Tail(s.queue),
                                        !.buffered = s.buffered - 1]
BY DEF NextWrite

\* It changes nothing else, and not the order of the chunks.
LEMMA NextWriteFine ==
  ASSUME NEW n \in Nat, NEW s, FineW(s, n)
  PROVE  /\ FineW(NextWrite(s), n)
         /\ NextWrite(s).writing \o NextWrite(s).queue = s.writing \o s.queue
         /\ NextWrite(s).ended = s.ended /\ NextWrite(s).finished = s.finished
         /\ NextWrite(s).destroyed = s.destroyed /\ NextWrite(s).open = s.open
         /\ (s.queue = <<>> => NextWrite(s) = s)
<1>1. CASE NextWrite(s) = s
  BY <1>1
<1>2. CASE s.writing = <<>> /\ s.queue # <<>>
  <2> DEFINE t == [s EXCEPT !.writing = <<Head(s.queue)>>, !.queue = Tail(s.queue),
                            !.buffered = s.buffered - 1]
  <2>1. s \in Writable /\ s.queue \in Seq(Chunk) /\ s.buffered \in Int
    BY DEF FineW, Writable
  <2>2. Tail(s.queue) \in Seq(Chunk) /\ <<Head(s.queue)>> \in Seq(Chunk)
        /\ Len(<<Head(s.queue)>>) = 1 /\ s.buffered - 1 \in Int
    BY <1>2, <2>1, TailTyped, SingleTyped
  <2>3. /\ t \in Writable /\ t.writing = <<Head(s.queue)>> /\ t.queue = Tail(s.queue)
        /\ t.corks = s.corks /\ t.ended = s.ended /\ t.finished = s.finished
        /\ t.destroyed = s.destroyed /\ t.open = s.open
    BY <2>1, <2>2 DEF Writable
  <2>4. <<Head(s.queue)>> \o Tail(s.queue) = s.writing \o s.queue
    BY <1>2, <2>1
  <2> HIDE DEF t
  <2>5. FineW(t, n)
    BY <2>2, <2>3 DEF FineW
  <2>6. NextWrite(s) = s \/ NextWrite(s) = t
    BY NextWriteCases DEF t
  <2> QED BY <1>1, <1>2, <2>3, <2>4, <2>5, <2>6
<1> QED BY <1>1, <1>2, NextWriteCases

LEMMA QueuedFine ==
  ASSUME NEW n \in Nat, NEW s, FineW(s, n), NEW c \in Chunk
  PROVE  /\ FineW(Queued(s, c), n) /\ Queued(s, c).queue = Append(s.queue, c)
         /\ Queued(s, c).writing = s.writing /\ Queued(s, c).ended = s.ended
         /\ Queued(s, c).finished = s.finished /\ Queued(s, c).destroyed = s.destroyed
         /\ Queued(s, c).open = s.open
<1>1. s \in Writable /\ s.queue \in Seq(Chunk) /\ Append(s.queue, c) \in Seq(Chunk)
      /\ s.buffered + 1 \in Int
  BY DEF FineW, Writable
<1> QED BY <1>1 DEF Queued, FineW, Writable

LEMMA EndedFine ==
  ASSUME NEW n \in Nat, NEW s, FineW(s, n)
  PROVE  /\ FineW(Ended(s).s, n) /\ Ended(s).s.ended /\ Ended(s).s.destroyed = s.destroyed
         /\ Ended(s).s.open = s.open
         /\ Ended(s).s.writing \o Ended(s).s.queue = s.writing \o s.queue
         /\ \/ /\ s.queue = <<>> /\ s.writing = <<>> /\ Ended(s).s.finished
               /\ Ended(s).s.queue = <<>> /\ Ended(s).s.writing = <<>>
               /\ Ended(s).todo = FinishTodo
            \/ Ended(s).s.finished = s.finished /\ Ended(s).todo = <<>>
<1> DEFINE e == [s EXCEPT !.ended = TRUE]
           f == [e EXCEPT !.finished = TRUE]
<1>1. /\ FineW(e, n) /\ e.ended /\ e.destroyed = s.destroyed /\ e.open = s.open
      /\ e.writing = s.writing /\ e.queue = s.queue /\ e.finished = s.finished
  BY DEF FineW, Writable
<1>2. /\ FineW(f, n) /\ f.ended /\ f.destroyed = s.destroyed /\ f.open = s.open
      /\ f.writing = s.writing /\ f.queue = s.queue /\ f.finished
  BY <1>1 DEF FineW, Writable
<1>3. CASE s.queue = <<>> /\ s.writing = <<>>
  <2>1. Ended(s) = [s |-> f, todo |-> FinishTodo]
    BY <1>3 DEF Ended, FinishTodo
  <2> HIDE DEF f
  <2> QED BY <1>2, <1>3, <2>1
<1>4. CASE ~(s.queue = <<>> /\ s.writing = <<>>)
  <2>1. Ended(s) = [s |-> NextWrite(e), todo |-> <<>>]
    BY <1>1, <1>4 DEF Ended
  <2> HIDE DEF e
  <2>2. Ended(s).s = NextWrite(e) /\ Ended(s).todo = <<>>
    BY <2>1
  <2>3. /\ FineW(NextWrite(e), n) /\ NextWrite(e).ended = e.ended
        /\ NextWrite(e).writing \o NextWrite(e).queue = s.writing \o s.queue
        /\ NextWrite(e).finished = s.finished /\ NextWrite(e).destroyed = s.destroyed
        /\ NextWrite(e).open = s.open
    BY <1>1, NextWriteFine
  <2> QED BY <1>1, <2>2, <2>3
<1> QED BY <1>3, <1>4

-----------------------------------------------------------------------------
\* What the actions push is legal, and so is what they leave.
LEMMA Todos ==
  /\ <<>> \in Seq(Legal) /\ EndTodo \in Seq(Legal) /\ FinishTodo \in Seq(Legal)
  /\ <<Script>> \in Seq(Legal)
  /\ \A what \in Doings : <<Do(what)>> \in Seq(Legal)
  /\ \A e \in Events, c \in Chunk :
       /\ <<Emit(e, c)>> \in Seq(Legal)
       /\ \A what \in Doings : <<Emit(e, c), Do(what)>> \in Seq(Legal)
<1>1. \A e \in Events, c \in Chunk, what \in Doings : <<Emit(e, c), Do(what)>> \in Seq(Legal)
  BY FrameFacts, PairTyped
<1>2. "end" \in Events /\ "finish" \in Events /\ 0 \in Chunk
      /\ "endOfRead" \in Doings /\ "finishW" \in Doings
  BY ChunkFacts DEF Events, ReadEvents, WriteEvents, Doings
<1>3. EndTodo \in Seq(Legal) /\ FinishTodo \in Seq(Legal)
  BY <1>1, <1>2 DEF EndTodo, FinishTodo
<1>4. \A x \in Legal : <<x>> \in Seq(Legal)
  BY SingleTyped
<1> QED BY <1>1, <1>3, <1>4, FrameFacts

LEMMA EventFacts ==
  /\ \A e \in ReadEvents : e \in Events
  /\ \A e \in WriteEvents : e \in Events
  /\ {"data", "end", "rerror", "rclose"} \subseteq Events
  /\ {"drain", "finish", "werror", "wclose"} \subseteq Events
BY DEF Events, ReadEvents, WriteEvents

LEMMA StackTyped ==
  ASSUME Base, stack # <<>>
  PROVE  /\ Top \in Legal /\ Tail(stack) \in Seq(Legal) /\ Top = stack[1]
         /\ \A fs \in Seq(Legal) : fs \o Tail(stack) \in Seq(Legal)
         /\ (Top.do = "emit" => Top.ev \in Events)
         /\ Top.i \in Nat /\ Top.n \in Nat /\ Top.arg \in Chunk /\ Top.users \in Int
<1>1. Top \in Legal /\ Tail(stack) \in Seq(Legal) /\ Top = stack[1]
  BY TailTyped DEF Base, Top
<1>2. \A fs \in Seq(Legal) : fs \o Tail(stack) \in Seq(Legal)
  BY <1>1, JoinTyped
<1> QED BY <1>1, <1>2 DEF Legal, Frame

LEMMA OnwardTyped ==
  ASSUME Base, Turn, NEW fs \in Seq(Legal), Onward(fs)
  PROVE  stack' \in Seq(Legal)
<1>1. stack # <<>> /\ Top.do = "emit"
  BY DEF Turn, At
<1> DEFINE f == [Top EXCEPT !.i = @ + 1, !.users = IF Listener = "user" THEN @ - 1 ELSE @]
<1>2. Top \in Legal /\ Top.i \in Nat /\ Top.users \in Int
  BY <1>1, StackTyped
<1>3. Top.i + 1 \in Nat /\ (IF Listener = "user" THEN Top.users - 1 ELSE Top.users) \in Int
  BY <1>2
<1>4. f \in Legal
  BY <1>2, <1>3 DEF Legal, Frame
<1>5. stack' = (fs \o <<f>>) \o Tail(stack)
  BY DEF Onward, Then
<1> HIDE DEF f
<1>6. fs \o <<f>> \in Seq(Legal)
  BY <1>4, SingleTyped, JoinTyped
<1> QED BY <1>1, <1>5, <1>6, StackTyped

LEMMA UnpipedTyped ==
  ASSUME Base
  PROVE  Unpiped \in [Events -> Seq({"user", "pipe"})]
<1> SUFFICES ASSUME NEW e \in Events
             PROVE  (IF Contains(on[e], "pipe")
                     THEN RemoveAt(on[e], CHOOSE k \in DOMAIN on[e] : on[e][k] = "pipe")
                     ELSE on[e]) \in Seq({"user", "pipe"})
  BY DEF Unpiped
<1>1. on[e] \in Seq({"user", "pipe"})
  BY DEF Base
<1>2. CASE Contains(on[e], "pipe")
  <2>1. PICK k \in DOMAIN on[e] : on[e][k] = "pipe"
    BY <1>1, <1>2 DEF Contains
  <2> DEFINE c == CHOOSE j \in DOMAIN on[e] : on[e][j] = "pipe"
  <2>2. c \in DOMAIN on[e]
    BY <2>1
  <2> HIDE DEF c
  <2>3. SubSeq(on[e], 1, c - 1) \in Seq({"user", "pipe"})
        /\ SubSeq(on[e], c + 1, Len(on[e])) \in Seq({"user", "pipe"})
    BY <1>1, <2>2
  <2>4. RemoveAt(on[e], c) \in Seq({"user", "pipe"})
    BY <2>3, JoinTyped DEF RemoveAt
  <2> QED BY <1>2, <2>4 DEF c
<1> QED BY <1>1, <1>2

-----------------------------------------------------------------------------
\* Every step keeps the types, and what uv and the calls bound.
LEMMA ReadsKeepBase ==
  ASSUME Base, DeferredRead \/ ReadCompletes
  PROVE  Base'
<1>1. r \in Readable /\ Fine(r) /\ r.pos \in Nat /\ r.size \in Nat /\ r.timers \in Nat
      /\ r.size \in Sizes /\ r.pos \in Chunk
  BY ChunkFacts, StreamsAssumption DEF Base, Fine, Readable
<1>2. CASE DeferredRead
  <2> DEFINE s == [r EXCEPT !.timers = @ - 1]
  <2>1. s \in Readable /\ s.size = r.size /\ s.pos = r.pos /\ s.io = r.io /\ s.ended = r.ended
        /\ s.destroyed = r.destroyed /\ s.open = r.open /\ s.reading = r.reading
    BY <1>1, <1>2 DEF DeferredRead, Readable
  <2>2. Fine(s)
    BY <1>1, <2>1 DEF Fine
  <2>3. \/ r' = s /\ stack' = <<>>
        \/ r' = NextRead(s).s /\ stack' = NextRead(s).todo
    BY <1>2 DEF DeferredRead
  <2> HIDE DEF s
  <2>4. Fine(r') /\ stack' \in Seq(Legal)
    <3>1. Fine(NextRead(s).s) /\ NextRead(s).todo \in Seq(Legal)
      BY <2>2, NextReadFine, Todos
    <3> QED BY <2>2, <2>3, <3>1, Todos
  <2> QED BY <1>2, <2>4 DEF DeferredRead, Base
<1>3. CASE ReadDropped
  <2>1. Fine([r EXCEPT !.io = FALSE])
    BY <1>1 DEF Fine, Readable
  <2> QED BY <1>3, <2>1 DEF ReadDropped, Base
<1>4. CASE ReadData
  <2>1. r.pos + 1 \in Chunk /\ r.pos + 1 <= r.size
    BY <1>1, <1>4, ChunkFacts DEF Fine, ReadData
  <2>2. Fine([r EXCEPT !.io = FALSE, !.reading = FALSE, !.pos = @ + 1])
    BY <1>1, <2>1 DEF Fine, Readable
  <2>3. <<Emit("data", r.pos + 1), Do("afterData")>> \in Seq(Legal)
    BY <2>1, Todos, EventFacts DEF Doings
  <2>4. (broken \/ pipe = "none") \in BOOLEAN
    OBVIOUS
  <2> QED BY <1>4, <2>2, <2>3, <2>4 DEF ReadData, Base
<1>5. CASE ReadError
  <2>1. Fine([r EXCEPT !.io = FALSE, !.reading = FALSE])
    BY <1>1 DEF Fine, Readable
  <2>2. <<Emit("rerror", 0), Do("readFailed")>> \in Seq(Legal)
    BY ChunkFacts, Todos, EventFacts DEF Doings
  <2>3. (broken \/ ~w.finished) \in BOOLEAN
    OBVIOUS
  <2> QED BY <1>5, <2>1, <2>2, <2>3 DEF ReadError, Base
<1>6. CASE ReadNothing
  <2>1. Fine([r EXCEPT !.io = FALSE, !.reading = FALSE, !.ended = TRUE])
    BY <1>1 DEF Fine, Readable
  <2>2. <<Emit("end", 0), Do("closeR")>> \in Seq(Legal)
    BY ChunkFacts, Todos, EventFacts DEF Doings
  <2>3. (broken \/ ~w.finished) \in BOOLEAN
    OBVIOUS
  <2> QED BY <1>6, <2>1, <2>2, <2>3 DEF ReadNothing, Base
<1> QED BY <1>2, <1>3, <1>4, <1>5, <1>6 DEF ReadCompletes

LEMMA ReadFramesKeepBase ==
  ASSUME Base, AfterData \/ CloseR \/ EndOfRead \/ ReadFailed
  PROVE  Base'
<1>1. r \in Readable /\ Fine(r) /\ r.timers + 1 \in Nat
  BY ChunkFacts, StreamsAssumption DEF Base, Fine, Readable
<1>2. \A fs \in Seq(Legal) : stack # <<>> => fs \o Tail(stack) \in Seq(Legal)
  BY StackTyped
<1>3. stack # <<>>
  BY DEF AfterData, CloseR, EndOfRead, ReadFailed, At
<1>4. CASE AfterData
  <2>1. Fine([r EXCEPT !.ended = TRUE])
    BY <1>1 DEF Fine, Readable
  <2>2. Fine([r EXCEPT !.timers = @ + 1])
    <3>1. [r EXCEPT !.timers = @ + 1] \in Readable
      BY <1>1 DEF Readable
    <3> QED BY <1>1, <3>1 DEF Fine, Readable
  <2>3. Fine(NextRead(r).s) /\ NextRead(r).todo \in Seq(Legal)
    BY <1>1, NextReadFine, Todos
  <2>4. <<Emit("end", 0), Do("closeR")>> \in Seq(Legal)
    BY ChunkFacts, Todos, EventFacts DEF Doings
  <2>5. Fine(r') /\ stack' \in Seq(Legal)
    BY <1>1, <1>2, <1>3, <1>4, <2>1, <2>2, <2>3, <2>4, Todos DEF AfterData, Then
  <2> QED BY <1>4, <2>5 DEF AfterData, Base
<1>5. CASE CloseR
  <2>1. Fine([r EXCEPT !.open = FALSE])
    BY <1>1 DEF Fine, Readable
  <2>2. <<Emit("rclose", 0)>> \in Seq(Legal)
    BY ChunkFacts, Todos, EventFacts
  <2>3. Fine(r') /\ stack' \in Seq(Legal)
    BY <1>1, <1>2, <1>3, <1>5, <2>1, <2>2, Todos DEF CloseR, Then
  <2> QED BY <1>5, <2>3 DEF CloseR, Base
<1>6. CASE EndOfRead
  <2>1. Fine([r EXCEPT !.open = @ /\ ~r.autoClose])
    BY <1>1 DEF Fine, Readable
  <2>2. stack' \in Seq(Legal)
    BY <1>2, <1>3, <1>6, Todos DEF EndOfRead, Then
  <2> QED BY <1>6, <2>1, <2>2 DEF EndOfRead, Base
<1>7. CASE ReadFailed
  <2>1. Fine([r EXCEPT !.open = @ /\ ~r.autoClose, !.ended = TRUE])
    BY <1>1 DEF Fine, Readable
  <2>2. stack' \in Seq(Legal)
    BY <1>2, <1>3, <1>7, Todos DEF ReadFailed, Then
  <2> QED BY <1>7, <2>1, <2>2 DEF ReadFailed, Base
<1> QED BY <1>4, <1>5, <1>6, <1>7

LEMMA Removed ==
  ASSUME NEW S, NEW d \in Seq(S), NEW m \in Seq(S), Len(m) = 1, NEW q \in Seq(S)
  PROVE  RemoveAt((d \o m) \o q, Len(d) + 1) = d \o q
<1> DEFINE b == d \o m
           a == b \o q
<1>1. b \in Seq(S) /\ Len(b) = Len(d) + 1 /\ Len(d) \in Nat /\ Len(q) \in Nat
  <2>1. d \o m \in Seq(S) /\ Len(d \o m) = Len(d) + Len(m)
    BY JoinTyped
  <2>2. Len(d) \in Nat /\ Len(q) \in Nat
    BY LenProperties
  <2> QED BY <2>1, <2>2
<1>2. SubSeq(b, 1, Len(d)) = d
  <2>1. SubSeq(b, 1, Len(d)) = SubSeq(d, 1, Len(d))
    BY SubSeqOfConcat1
  <2> QED BY <2>1, SubSeqFull
<1> HIDE DEF b
<1>3. a \in Seq(S) /\ Len(a) = Len(d) + 1 + Len(q)
  <2>1. b \o q \in Seq(S) /\ Len(b \o q) = Len(b) + Len(q)
    BY <1>1, JoinTyped
  <2> QED BY <1>1, <2>1
<1>4. SubSeq(a, 1, Len(d)) = d
  <2>1. SubSeq(a, 1, Len(d)) = SubSeq(b, 1, Len(d))
    BY <1>1, SubSeqOfConcat1
  <2> QED BY <1>2, <2>1
<1>5. SubSeq(a, Len(d) + 2, Len(a)) = q
  <2>1. SubSeq(a, Len(b) + 1, Len(b) + Len(q)) = SubSeq(q, Len(b) + 1 - Len(b), Len(b) + Len(q) - Len(b))
    BY <1>1, SubSeqOfConcat2
  <2>2. Len(b) + 1 - Len(b) = 1 /\ Len(b) + Len(q) - Len(b) = Len(q)
        /\ Len(b) + 1 = Len(d) + 2 /\ Len(b) + Len(q) = Len(a)
    BY <1>1, <1>3
  <2>3. SubSeq(q, 1, Len(q)) = q
    BY SubSeqFull
  <2> QED BY <2>1, <2>2, <2>3
<1>6. PICK i \in Nat : i = Len(d) + 1 /\ i - 1 = Len(d) /\ i + 1 = Len(d) + 2
  BY <1>1
<1> HIDE DEF a
<1>7. RemoveAt(a, i) = SubSeq(a, 1, i - 1) \o SubSeq(a, i + 1, Len(a))
  BY DEF RemoveAt
<1>8. RemoveAt(a, Len(d) + 1) = d \o q
  BY <1>4, <1>5, <1>6, <1>7
<1> QED BY <1>8 DEF a, b

\* A write that fails takes its chunk out of what was accepted.
LEMMA Failed ==
  ASSUME Base, NothingLost, WriteError
  PROVE  /\ RemoveAt(accepted, Len(file.data) + 1) = file.data \o w.queue
         /\ RemoveAt(accepted, Len(file.data) + 1) \in Seq(Chunk)
<1>1. file.data \in Seq(Chunk) /\ w.queue \in Seq(Chunk) /\ w.writing \in Seq(Chunk)
      /\ Len(w.writing) <= 1
  BY DEF Base, Files, FineW, Writable
<1>2. accepted = (file.data \o w.writing) \o w.queue /\ w.writing # <<>>
  BY DEF NothingLost, WriteError
<1>3. Len(w.writing) = 1
  <2> DEFINE s == w.writing
  <2>1. s \in Seq(Chunk) /\ s # <<>> /\ Len(s) <= 1
    BY <1>1, <1>2
  <2> HIDE DEF s
  <2>2. Len(s) > 0 /\ Len(s) \in Nat
    BY <2>1, TailTyped, LenProperties
  <2>3. \A n \in Nat : n > 0 /\ n <= 1 => n = 1
    OBVIOUS
  <2>4. Len(s) = 1
    BY <2>1, <2>2, <2>3, Zenon
  <2> QED BY <2>4 DEF s
<1>4. RemoveAt((file.data \o w.writing) \o w.queue, Len(file.data) + 1) = file.data \o w.queue
  BY <1>1, <1>3, Removed
<1>5. file.data \o w.queue \in Seq(Chunk)
  BY <1>1, ConcatProperties
<1> QED BY <1>2, <1>4, <1>5

LEMMA WritesKeepBase ==
  ASSUME Base, NothingLost, WriteCompletes
  PROVE  Base'
<1>1. w \in Writable /\ FineW(w, calls) /\ w.writing \in Seq(Chunk) /\ calls \in Nat
      /\ file \in Files /\ file.data \in Seq(Chunk) /\ file.units \in Seq(Chunk)
  BY DEF Base, FineW, Writable, Files
<1>2. FineW([w EXCEPT !.writing = <<>>], calls)
  <2>1. <<>> \in Seq(Chunk) /\ Len(<<>>) = 0
    OBVIOUS
  <2>2. [w EXCEPT !.writing = <<>>] \in Writable
    BY <1>1, <2>1 DEF Writable
  <2> QED BY <1>1, <2>1, <2>2 DEF FineW, Writable
<1>3. Stored \in Files
  <2>1. file.data \o w.writing \in Seq(Chunk) /\ file.units \o w.writing \in Seq(Chunk)
    BY <1>1, JoinTyped
  <2> QED BY <1>1, <2>1 DEF Stored, Files
<1>4. Callback \in Seq(Legal)
  BY Todos DEF Callback
<1>5. CASE WriteDropped
  BY <1>2, <1>3, <1>5 DEF WriteDropped, Base
<1>6. CASE WriteDone
  <2>1. Callback \o <<Do("afterWrite")>> \in Seq(Legal)
    BY <1>4, Todos, JoinTyped DEF Doings
  <2> QED BY <1>2, <1>3, <1>6, <2>1 DEF WriteDone, Base
<1>7. CASE WriteError
  <2>1. <<Emit("werror", 0)>> \in Seq(Legal) /\ <<Do("writeFailed")>> \in Seq(Legal)
    BY ChunkFacts, Todos, EventFacts DEF Doings
  <2>2. stack' \in Seq(Legal)
    <3>1. <<Emit("werror", 0)>> \o Callback \in Seq(Legal)
      BY <1>4, <2>1, JoinTyped
    <3> QED BY <1>7, <2>1, <3>1, JoinTyped DEF WriteError
  <2>3. RemoveAt(accepted, Len(file.data) + 1) \in Seq(Chunk)
    BY <1>7, Failed
  <2> QED BY <1>2, <1>7, <2>2, <2>3 DEF WriteError, Base
<1> QED BY <1>5, <1>6, <1>7 DEF WriteCompletes

LEMMA WriteFramesKeepBase ==
  ASSUME Base, AfterWrite \/ FinishW \/ WriteFailed
  PROVE  Base'
<1>1. w \in Writable /\ FineW(w, calls) /\ calls \in Nat
  BY DEF Base, FineW
<1>2. stack # <<>> /\ \A fs \in Seq(Legal) : fs \o Tail(stack) \in Seq(Legal)
  BY StackTyped DEF AfterWrite, FinishW, WriteFailed, At
<1>3. <<Emit("drain", 0)>> \in Seq(Legal) /\ <<Emit("wclose", 0)>> \in Seq(Legal)
  BY ChunkFacts, Todos, EventFacts
<1>4. CASE AfterWrite
  <2>1. FineW([w EXCEPT !.finished = TRUE], calls) /\ FineW([w EXCEPT !.draining = FALSE], calls)
        /\ FineW(NextWrite(w), calls)
    BY <1>1, NextWriteFine DEF FineW, Writable
  <2>2. FineW(w', calls)
    BY <1>4, <2>1 DEF AfterWrite
  <2>3. stack' \in Seq(Legal)
    BY <1>2, <1>3, <1>4, Todos DEF AfterWrite, Then, FinishTodo
  <2> QED BY <1>4, <2>2, <2>3 DEF AfterWrite, Base
<1>5. CASE FinishW
  <2>1. FineW([w EXCEPT !.open = FALSE], calls)
    BY <1>1 DEF FineW, Writable
  <2>2. FineW(w', calls) /\ stack' \in Seq(Legal)
    BY <1>1, <1>2, <1>3, <1>5, <2>1, Todos DEF FinishW, Then
  <2> QED BY <1>5, <2>2 DEF FinishW, Base
<1>6. CASE WriteFailed
  <2>1. FineW([w EXCEPT !.destroyed = TRUE, !.open = FALSE], calls)
    BY <1>1 DEF FineW, Writable
  <2>2. FineW(w', calls) /\ stack' \in Seq(Legal)
    BY <1>1, <1>2, <1>3, <1>6, <2>1, Todos DEF WriteFailed, Then
  <2> QED BY <1>6, <2>2 DEF WriteFailed, Base
<1> QED BY <1>4, <1>5, <1>6

LEMMA EmissionsKeepBase ==
  ASSUME Base, EmitStart \/ EmitEnd \/ EmitSkip \/ EmitUser
  PROVE  Base'
<1>1. CASE EmitStart
  <2> DEFINE f == [Top EXCEPT !.i = 1, !.n = Len(on[Top.ev]), !.users = Users(Top.ev)]
  <2>1. stack # <<>> /\ Top.do = "emit"
    BY <1>1 DEF EmitStart, At
  <2>2. Top \in Legal /\ Top.ev \in Events
    BY <2>1, StackTyped
  <2>3. Len(on[Top.ev]) \in Nat /\ Users(Top.ev) \in Int
    <3>1. on[Top.ev] \in Seq({"user", "pipe"})
      BY <2>2 DEF Base
    <3>2. Len(on[Top.ev]) \in Nat /\ DOMAIN on[Top.ev] = 1..Len(on[Top.ev])
      BY <3>1
    <3>3. IsFiniteSet(1..Len(on[Top.ev]))
      BY <3>2, FS_Interval
    <3>4. IsFiniteSet({k \in DOMAIN on[Top.ev] : on[Top.ev][k] = "user"})
      BY <3>2, <3>3, FS_Subset
    <3> QED BY <3>2, <3>4, FS_CardinalityType DEF Users
  <2>4. f \in Legal
    BY <2>2, <2>3 DEF Legal, Frame
  <2>5. stack' = <<f>> \o Tail(stack)
    BY <1>1 DEF EmitStart, Then
  <2> HIDE DEF f
  <2>6. stack' \in Seq(Legal)
    BY <2>1, <2>4, <2>5, SingleTyped, StackTyped
  <2> QED BY <1>1, <2>6 DEF EmitStart, Base
<1>2. CASE EmitEnd
  <2>1. stack' \in Seq(Legal)
    BY <1>2, StackTyped, Todos DEF EmitEnd, At, Then
  <2> QED BY <1>2, <2>1 DEF EmitEnd, Base
<1>3. CASE EmitSkip
  <2>1. stack' \in Seq(Legal)
    BY <1>3, OnwardTyped, Todos DEF EmitSkip
  <2> QED BY <1>3, <2>1 DEF EmitSkip, Base
<1>4. CASE EmitUser
  <2>1. stack' \in Seq(Legal)
    BY <1>4, OnwardTyped, Todos DEF EmitUser
  <2> QED BY <1>4, <2>1 DEF EmitUser, Base
<1> QED BY <1>1, <1>2, <1>3, <1>4

LEMMA PipeKeepsBase ==
  ASSUME Base, PipeData \/ PipeDrain \/ PipeEnd \/ Unpipe \/ PipeError \/ PipeFailed \/ PipeClose
  PROVE  Base'
<1>1. /\ Fine(r) /\ w \in Writable /\ FineW(w, calls) /\ calls \in Nat
      /\ w.queue \in Seq(Chunk) /\ accepted \in Seq(Chunk)
  BY DEF Base, FineW, Writable
<1>2. Turn => Top.arg \in Chunk
  BY StackTyped DEF Turn, At
<1>3. Cleanup => on' \in [Events -> Seq({"user", "pipe"})] /\ pipe' \in {"none", "piping", "done"}
  BY UnpipedTyped DEF Cleanup
<1>4. CASE PipeData
  <2>1. stack' \in Seq(Legal)
    BY <1>4, OnwardTyped, Todos DEF PipeData
  <2>2. CASE w.destroyed \/ w.ended
    <3>1. Fine(Paused(r))
      BY <1>1, FlowFine
    <3> QED BY <1>3, <1>4, <2>1, <2>2, <3>1 DEF PipeData, Base
  <2>3. CASE ~(w.destroyed \/ w.ended)
    <3> DEFINE q == Queued(w, Top.arg)
               full == q.buffered >= HighWater
               x == NextWrite(q)
    <3>1. Turn /\ Top.arg \in Chunk
      BY <1>2, <1>4 DEF PipeData
    <3>2. FineW(x, calls)
      BY <1>1, <3>1, QueuedFine, NextWriteFine
    <3>3. w' = [x EXCEPT !.draining = @ \/ full]
      BY <1>4, <2>3 DEF PipeData
    <3> HIDE DEF x
    <3>4. FineW([x EXCEPT !.draining = @ \/ full], calls)
      <4>1. (x.draining \/ full) \in BOOLEAN
        OBVIOUS
      <4> HIDE DEF full
      <4> QED BY <3>2, <4>1 DEF FineW, Writable
    <3>5. Fine(Paused(r))
      BY <1>1, FlowFine
    <3>6. Fine(r') /\ accepted' \in Seq(Chunk)
      <4>1. (r' = Paused(r) \/ r' = r) /\ accepted' = Append(accepted, Top.arg)
        BY <1>4, <2>3 DEF PipeData
      <4> QED BY <1>1, <3>1, <3>5, <4>1
    <3>7. UNCHANGED <<pipe, on, file, broken, calls>>
      BY <1>4, <2>3 DEF PipeData
    <3> QED BY <2>1, <3>3, <3>4, <3>6, <3>7 DEF Base
  <2> QED BY <2>2, <2>3
<1>5. CASE PipeDrain
  <2>1. \/ r' = Resumed(r).s /\ Onward(Resumed(r).todo)
        \/ r' = r /\ Onward(<<>>)
    BY <1>5 DEF PipeDrain
  <2>2. Fine(Resumed(r).s) /\ Resumed(r).todo \in Seq(Legal)
    BY <1>1, ResumedFine, Todos
  <2>3. Fine(r') /\ stack' \in Seq(Legal)
    BY <1>1, <1>5, <2>1, <2>2, OnwardTyped, Todos DEF PipeDrain
  <2> QED BY <1>5, <2>3 DEF PipeDrain, Base
<1>6. CASE PipeEnd
  <2>1. \/ w' = Ended(w).s /\ Onward(Ended(w).todo \o <<Do("unpipe")>>)
        \/ w' = w /\ Onward(<<>> \o <<Do("unpipe")>>)
    BY <1>6 DEF PipeEnd
  <2>2. FineW(Ended(w).s, calls) /\ Ended(w).todo \in Seq(Legal)
    BY <1>1, EndedFine, Todos
  <2>3. Ended(w).todo \o <<Do("unpipe")>> \in Seq(Legal) /\ <<>> \o <<Do("unpipe")>> \in Seq(Legal)
    BY <2>2, Todos, JoinTyped DEF Doings
  <2>4. FineW(w', calls) /\ stack' \in Seq(Legal)
    BY <1>1, <1>6, <2>1, <2>2, <2>3, OnwardTyped DEF PipeEnd
  <2> QED BY <1>6, <2>4 DEF PipeEnd, Base
<1>7. CASE Unpipe
  <2>1. stack' \in Seq(Legal)
    BY <1>7, StackTyped, Todos DEF Unpipe, At, Then
  <2> QED BY <1>3, <1>7, <2>1 DEF Unpipe, Base
<1>8. CASE PipeError
  <2>1. <<Emit("werror", 0), Do("pipeFailed")>> \in Seq(Legal)
    BY ChunkFacts, Todos, EventFacts DEF Doings
  <2>2. stack' \in Seq(Legal)
    BY <1>8, <2>1, OnwardTyped DEF PipeError
  <2> QED BY <1>8, <2>2 DEF PipeError, Base
<1>9. CASE PipeFailed
  <2>1. stack' \in Seq(Legal)
    BY <1>9, StackTyped, Todos DEF PipeFailed, At, Then
  <2>2. FineW([w EXCEPT !.destroyed = TRUE, !.open = FALSE], calls)
    BY <1>1 DEF FineW, Writable
  <2>3. FineW(w', calls)
    BY <1>1, <1>9, <2>2 DEF PipeFailed
  <2> QED BY <1>3, <1>9, <2>1, <2>3 DEF PipeFailed, Base
<1>10. CASE PipeClose
  <2>1. stack' \in Seq(Legal)
    BY <1>10, OnwardTyped, Todos DEF PipeClose
  <2> QED BY <1>3, <1>10, <2>1 DEF PipeClose, Base
<1> QED BY <1>4, <1>5, <1>6, <1>7, <1>8, <1>9, <1>10

LEMMA ScriptKeepsBase ==
  ASSUME Base, ScriptReturns \/ ScriptCalls
  PROVE  Base'
<1>1. /\ Fine(r) /\ r \in Readable /\ w \in Writable /\ FineW(w, calls) /\ calls \in Nat
      /\ w.queue \in Seq(Chunk) /\ accepted \in Seq(Chunk) /\ w.corks \in Nat
      /\ stack \in Seq(Legal) /\ calls \in 0..Calls
  BY StreamsAssumption DEF Base, Fine, FineW, Writable
<1>2. \A n \in Nat : FineW(w, n) => FineW(w, n + 1)
  BY <1>1 DEF FineW
<1>3. \A name : Call(name) => calls' \in 0..Calls /\ calls' = calls + 1 /\ FineW(w, calls')
  BY <1>1, <1>2, StreamsAssumption DEF Call
<1>4. CASE RunScript \/ ScriptReturns
  <2>1. stack' \in Seq(Legal)
    BY <1>4, StackTyped, Todos DEF RunScript, ScriptReturns, At, Then
  <2> QED BY <1>4, <2>1 DEF RunScript, ScriptReturns, Base
<1>5. CASE ScriptThrows
  <2>1. Fine([r EXCEPT !.destroyed = TRUE, !.ended = TRUE, !.paused = TRUE, !.open = FALSE])
    BY <1>1 DEF Fine, Readable
  <2>2. Len(stack) > 1 /\ stack[2].do = "emit" /\ (broken \/ ~w.finished) \in BOOLEAN
    BY <1>5 DEF ScriptThrows
  <2>3. SubSeq(stack, 3, Len(stack)) \in Seq(Legal)
    BY <1>1, <2>2
  <2>4. <<Emit("rerror", 0)>> \in Seq(Legal)
    BY ChunkFacts, Todos, EventFacts
  <2>5. stack' \in Seq(Legal)
    BY <1>5, <2>3, <2>4, Todos, JoinTyped DEF ScriptThrows
  <2>6. calls' = calls + 1 /\ calls' \in 0..Calls /\ FineW(w, calls')
    BY <1>1, <1>2, <1>5, StreamsAssumption DEF ScriptThrows
  <2> QED BY <1>5, <2>1, <2>2, <2>5, <2>6 DEF ScriptThrows, Base
<1>6. CASE OnData \/ OnEnd
  <2>1. \A e \in {"data", "end"} :
          [on EXCEPT ![e] = Append(@, "user")] \in [Events -> Seq({"user", "pipe"})]
    <3>1. \A e \in {"data", "end"} : e \in Events /\ Append(on[e], "user") \in Seq({"user", "pipe"})
      BY EventFacts DEF Base
    <3> QED BY <3>1 DEF Base
  <2>2. Fine(Started(r)) /\ Started(r) \in Readable
    BY <1>1, FlowFine DEF Fine
  <2> QED BY <1>1, <1>3, <1>6, <2>1, <2>2 DEF OnData, OnEnd, Base
<1>7. CASE Pause
  <2>1. Fine(Paused(r))
    BY <1>1, FlowFine
  <2>2. Fine([Paused(r) EXCEPT !.held = TRUE])
    BY <2>1 DEF Fine, Readable
  <2> QED BY <1>3, <1>7, <2>2 DEF Pause, Base
<1>8. CASE Resume
  <2>1. Fine(Resumed(r).s) /\ Resumed(r).todo \in Seq(Legal)
    BY <1>1, ResumedFine, Todos
  <2>2. r' = Resumed(r).s /\ stack' = Resumed(r).todo \o stack
    BY <1>8 DEF Resume
  <2>3. stack' \in Seq(Legal)
    BY <1>1, <2>1, <2>2, JoinTyped
  <2> QED BY <1>3, <1>8, <2>1, <2>2, <2>3 DEF Resume, Base
<1>9. CASE DestroyR
  <2>1. Fine([r EXCEPT !.destroyed = TRUE, !.ended = TRUE, !.paused = TRUE, !.open = FALSE])
    BY <1>1 DEF Fine, Readable
  <2>2. <<Emit("rclose", 0)>> \in Seq(Legal) /\ (broken \/ ~w.finished) \in BOOLEAN
    BY ChunkFacts, Todos, EventFacts
  <2>3. stack' \in Seq(Legal)
    BY <1>1, <1>9, <2>2, JoinTyped DEF DestroyR
  <2> QED BY <1>3, <1>9, <2>1, <2>2, <2>3 DEF DestroyR, Base
<1>10. CASE Pipe
  <2>1. on' \in [Events -> Seq({"user", "pipe"})]
    <3>1. \A e \in Events : on[e] \in Seq({"user", "pipe"})
                            /\ Append(on[e], "pipe") \in Seq({"user", "pipe"})
      BY DEF Base
    <3> QED BY <1>10, <3>1 DEF Pipe
  <2>2. Fine(Started(r))
    BY <1>1, FlowFine
  <2>3. Fine(r')
    BY <1>1, <1>10, <2>2 DEF Pipe
  <2> QED BY <1>3, <1>10, <2>1, <2>3 DEF Pipe, Base
<1>11. CASE Write
  <2> DEFINE q == Queued(w, 0)
             x == [q EXCEPT !.draining = @ \/ q.buffered >= HighWater]
  <2>1. FineW(q, calls')
    BY <1>1, <1>3, <1>11, ChunkFacts, QueuedFine DEF Write
  <2> HIDE DEF q
  <2>2. FineW(x, calls')
    <3>1. (q.draining \/ q.buffered >= HighWater) \in BOOLEAN
      OBVIOUS
    <3> QED BY <2>1, <3>1 DEF FineW, Writable
  <2>3. w' = NextWrite(x) /\ accepted' = Append(accepted, 0)
    BY <1>11 DEF Write, q
  <2> HIDE DEF x
  <2>4. calls' \in Nat /\ Append(accepted, 0) \in Seq(Chunk)
    BY <1>1, <1>3, <1>11, ChunkFacts DEF Write
  <2>5. FineW(w', calls')
    BY <2>2, <2>3, <2>4, NextWriteFine
  <2> QED BY <1>3, <1>11, <2>3, <2>4, <2>5 DEF Write, Base
<1>12. CASE End
  <2>1. PICK chunk \in {<<>>, <<0>>} :
          /\ accepted' = accepted \o chunk
          /\ w' = Ended([w EXCEPT !.queue = @ \o chunk]).s
          /\ stack' = Ended([w EXCEPT !.queue = @ \o chunk]).todo \o stack
    BY <1>12 DEF End
  <2> DEFINE x == [w EXCEPT !.queue = @ \o chunk]
  <2>2. chunk \in Seq(Chunk)
    <3>1. <<0>> \in Seq(Chunk) /\ <<>> \in Seq(Chunk)
      BY ChunkFacts, SingleTyped
    <3> QED BY <3>1
  <2>3. accepted \o chunk \in Seq(Chunk) /\ w.queue \o chunk \in Seq(Chunk)
    BY <1>1, <2>2, JoinTyped
  <2>4. FineW(x, calls')
    BY <1>1, <1>3, <1>12, <2>3 DEF End, FineW, Writable
  <2> HIDE DEF x
  <2>5. calls' \in Nat
    BY <1>1, <1>3, <1>12 DEF End
  <2>6. FineW(Ended(x).s, calls') /\ Ended(x).todo \in Seq(Legal)
    BY <2>4, <2>5, EndedFine, Todos
  <2>7. FineW(w', calls') /\ stack' \in Seq(Legal)
    BY <1>1, <2>1, <2>6, JoinTyped DEF x
  <2> QED BY <1>3, <1>12, <2>1, <2>3, <2>7 DEF End, Base
<1>13. CASE DestroyW
  <2> DEFINE x == [w EXCEPT !.destroyed = TRUE, !.ended = TRUE, !.open = FALSE,
                            !.queue = <<>>, !.buffered = 0]
  <2>0. <<>> \in Seq(Chunk) /\ FineW(w, calls')
    BY <1>3, <1>13 DEF DestroyW
  <2>1. FineW(x, calls')
    <3>1. x \in Writable /\ x.writing = w.writing /\ x.corks = w.corks
      <4>0. PICK q \in Seq(Chunk) : q = <<>>
        BY <2>0
      <4>1. PICK b \in Int : b = 0
        OBVIOUS
      <4>2. x = [w EXCEPT !.destroyed = TRUE, !.ended = TRUE, !.open = FALSE,
                          !.queue = q, !.buffered = b]
        BY <4>0, <4>1
      <4> HIDE DEF x
      <4> QED BY <1>1, <4>2 DEF Writable
    <3> HIDE DEF x
    <3> QED BY <2>0, <3>1 DEF FineW
  <2>2. <<Emit("wclose", 0)>> \in Seq(Legal) /\ (broken \/ ~w.finished) \in BOOLEAN
    BY ChunkFacts, Todos, EventFacts
  <2>3. stack' \in Seq(Legal)
    BY <1>1, <1>13, <2>2, JoinTyped DEF DestroyW
  <2> QED BY <1>3, <1>13, <2>1, <2>2, <2>3 DEF DestroyW, Base
<1>14. CASE Cork
  <2>0. calls' = calls + 1 /\ calls' \in 0..Calls
    BY <1>3, <1>14 DEF Cork
  <2>1. w.corks + 1 \in 0..Calls /\ w.corks + 1 <= calls'
    BY <1>1, <2>0, StreamsAssumption DEF FineW
  <2>2. FineW([w EXCEPT !.corks = @ + 1], calls')
    BY <1>1, <2>1 DEF FineW, Writable
  <2> QED BY <1>3, <1>14, <2>2 DEF Cork, Base
<1>15. CASE Uncork
  <2> DEFINE x == [w EXCEPT !.corks = @ - 1]
  <2>0. calls' = calls + 1 /\ calls' \in 0..Calls /\ w.corks > 0
    BY <1>3, <1>15 DEF Uncork
  <2>1. w.corks - 1 \in 0..Calls /\ w.corks - 1 <= calls' /\ calls' \in Nat
    BY <1>1, <2>0, StreamsAssumption DEF FineW
  <2>2. FineW(x, calls')
    BY <1>1, <2>1 DEF FineW, Writable
  <2>3. w' = NextWrite(x) \/ w' = x
    BY <1>15 DEF Uncork
  <2> HIDE DEF x
  <2>4. FineW(w', calls')
    BY <2>1, <2>2, <2>3, NextWriteFine
  <2> QED BY <1>3, <1>15, <2>4 DEF Uncork, Base
<1> QED BY <1>4, <1>5, <1>6, <1>7, <1>8, <1>9, <1>10, <1>11, <1>12, <1>13, <1>14, <1>15
        DEF ScriptCalls

LEMMA BaseKept == ASSUME Base, NothingLost, [Next]_vars PROVE Base'
<1>1. CASE Next
  BY <1>1, ReadsKeepBase, ReadFramesKeepBase, WritesKeepBase, WriteFramesKeepBase,
     EmissionsKeepBase, PipeKeepsBase, ScriptKeepsBase DEF Next, Native
<1>2. CASE UNCHANGED vars
  BY <1>2 DEF vars, Base
<1> QED BY <1>1, <1>2

-----------------------------------------------------------------------------
\* Nothing is lost: only the actions named here touch the chunks.
LEMMA Grouped ==
  ASSUME NEW S, NEW a \in Seq(S), NEW b \in Seq(S), NEW c \in Seq(S)
  PROVE  (a \o b) \o c = a \o (b \o c)
BY ConcatAssociative

Cat(a, b) == a \o b

LEMMA CatFacts ==
  /\ \A a, b \in Seq(Chunk) : Cat(a, b) \in Seq(Chunk)
  /\ \A a, b, c \in Seq(Chunk) : Cat(Cat(a, b), c) = Cat(a, Cat(b, c))
  /\ \A a \in Seq(Chunk) : Cat(a, <<>>) = a
<1>1. \A a, b \in Seq(Chunk) : Cat(a, b) \in Seq(Chunk)
  BY JoinTyped DEF Cat
<1>2. ASSUME NEW a \in Seq(Chunk), NEW b \in Seq(Chunk), NEW c \in Seq(Chunk)
      PROVE  Cat(Cat(a, b), c) = Cat(a, Cat(b, c))
  BY Grouped DEF Cat
<1>3. ASSUME NEW a \in Seq(Chunk) PROVE Cat(a, <<>>) = a
  BY ConcatEmptySeq DEF Cat
<1> QED BY <1>1, <1>2, <1>3

LEMMA WritableFacts ==
  \A v \in Writable : v.writing \in Seq(Chunk) /\ v.queue \in Seq(Chunk)
BY DEF Writable

LEMMA LineGrows ==
  ASSUME Base, NothingLost, NEW t \in Seq(Chunk), Base',
         Cat(w'.writing, w'.queue) = Cat(Cat(w.writing, w.queue), t),
         w'.destroyed \/ ~w.destroyed, accepted' = Cat(accepted, t), UNCHANGED file
  PROVE  NothingLost'
<1> SUFFICES ASSUME ~w'.destroyed PROVE Cat(Cat(file.data, w'.writing), w'.queue) = accepted'
  BY DEF NothingLost, Cat
<1>1. /\ w.writing \in Seq(Chunk) /\ w.queue \in Seq(Chunk) /\ file.data \in Seq(Chunk)
      /\ w'.writing \in Seq(Chunk) /\ w'.queue \in Seq(Chunk)
  BY WritableFacts DEF Base, FineW, Files
<1>2. Cat(Cat(file.data, w.writing), w.queue) = accepted
  BY DEF NothingLost, Cat
<1>3. Cat(Cat(file.data, w'.writing), w'.queue) = Cat(file.data, Cat(w'.writing, w'.queue))
  BY <1>1, CatFacts
<1>4. accepted = Cat(file.data, Cat(w.writing, w.queue))
  BY <1>1, <1>2, CatFacts
<1>5. Cat(w.writing, w.queue) \in Seq(Chunk)
  BY <1>1, CatFacts
<1>6. Cat(Cat(file.data, Cat(w.writing, w.queue)), t)
        = Cat(file.data, Cat(Cat(w.writing, w.queue), t))
  <2> DEFINE a == file.data
             b == Cat(w.writing, w.queue)
  <2>1. a \in Seq(Chunk) /\ b \in Seq(Chunk)
    BY <1>1, <1>5
  <2> HIDE DEF a, b
  <2>2. Cat(Cat(a, b), t) = Cat(a, Cat(b, t))
    BY <2>1, CatFacts
  <2> QED BY <2>2 DEF a, b
<1> QED BY <1>3, <1>4, <1>6

LEMMA LineKept ==
  ASSUME Base, NothingLost, Cat(w'.writing, w'.queue) = Cat(w.writing, w.queue),
         w'.destroyed \/ ~w.destroyed, UNCHANGED <<file, accepted>>, Base'
  PROVE  NothingLost'
<1>0. w.writing \in Seq(Chunk) /\ w.queue \in Seq(Chunk) /\ accepted \in Seq(Chunk)
  BY WritableFacts DEF Base, FineW
<1>1. Cat(w.writing, w.queue) \in Seq(Chunk) /\ accepted \in Seq(Chunk)
  BY <1>0, CatFacts
<1>3. <<>> \in Seq(Chunk)
  OBVIOUS
<1>2. Cat(w'.writing, w'.queue) = Cat(Cat(w.writing, w.queue), <<>>)
      /\ accepted' = Cat(accepted, <<>>) /\ UNCHANGED file
  BY <1>1, CatFacts
<1> QED BY <1>2, <1>3, LineGrows

LEMMA WritesLoseNothing ==
  ASSUME Base, NothingLost, Base', WriteCompletes
  PROVE  NothingLost'
<1>1. /\ w \in Writable /\ w.writing \in Seq(Chunk) /\ w.queue \in Seq(Chunk)
      /\ file \in Files /\ file.data \in Seq(Chunk)
  BY WritableFacts DEF Base, FineW, Files
<1>2. WriteCompletes => /\ w'.writing = <<>> /\ w'.queue = w.queue
                        /\ w'.destroyed = w.destroyed
  BY <1>1 DEF WriteCompletes, WriteDropped, WriteDone, WriteError, Writable
<1>3. CASE WriteDropped
  BY <1>2, <1>3 DEF WriteDropped, NothingLost
<1>4. CASE WriteDone
  <2>1. file'.data = Cat(file.data, w.writing) /\ UNCHANGED accepted
    BY <1>4 DEF WriteDone, Stored, Cat
  <2>2. Cat(file.data, w.writing) \in Seq(Chunk)
    BY <1>1, CatFacts
  <2>3. Cat(file'.data, w'.writing) = Cat(file.data, w.writing)
    BY <1>2, <2>1, <2>2, CatFacts
  <2>4. Cat(Cat(file.data, w.writing), w.queue) = accepted
    BY <1>4 DEF NothingLost, WriteDone, Cat
  <2>5. Cat(Cat(file'.data, w'.writing), w'.queue) = accepted'
    BY <1>2, <2>1, <2>3, <2>4
  <2> QED BY <2>5 DEF NothingLost, Cat
<1>5. CASE WriteError
  <2>1. accepted' = Cat(file.data, w.queue) /\ file' = file
    BY <1>5, Failed DEF WriteError, Cat
  <2>2. Cat(file'.data, w'.writing) = file.data
    BY <1>1, <1>2, <2>1, CatFacts
  <2>3. Cat(Cat(file'.data, w'.writing), w'.queue) = accepted'
    BY <1>2, <2>1, <2>2
  <2> QED BY <2>3 DEF NothingLost, Cat
<1> QED BY <1>3, <1>4, <1>5 DEF WriteCompletes

LEMMA WriterLosesNothing ==
  ASSUME Base, NothingLost, Base', AfterWrite \/ FinishW \/ WriteFailed \/ PipeFailed
  PROVE  NothingLost'
<1>1. w \in Writable /\ FineW(w, calls) /\ calls \in Nat
  BY DEF Base, FineW
<1>2. UNCHANGED <<file, accepted>>
  BY DEF AfterWrite, FinishW, WriteFailed, PipeFailed
<1>3. /\ Cat(NextWrite(w).writing, NextWrite(w).queue) = Cat(w.writing, w.queue)
      /\ NextWrite(w).destroyed = w.destroyed
  BY <1>1, NextWriteFine DEF Cat
<1>4. Cat(w'.writing, w'.queue) = Cat(w.writing, w.queue) /\ (w'.destroyed \/ ~w.destroyed)
  <2>1. \/ w' = w \/ w' = NextWrite(w)
        \/ w' = [w EXCEPT !.finished = TRUE] \/ w' = [w EXCEPT !.draining = FALSE]
        \/ w' = [w EXCEPT !.open = FALSE]
        \/ w' = [w EXCEPT !.destroyed = TRUE, !.open = FALSE]
    BY DEF AfterWrite, FinishW, WriteFailed, PipeFailed
  <2>2. ASSUME w' # NextWrite(w)
        PROVE  w'.writing = w.writing /\ w'.queue = w.queue /\ (w'.destroyed \/ w'.destroyed = w.destroyed)
    BY <1>1, <2>1, <2>2 DEF Writable
  <2> QED BY <1>3, <2>2
<1> QED BY <1>2, <1>4, LineKept

LEMMA PipeLosesNothing ==
  ASSUME Base, NothingLost, Base', PipeData \/ PipeEnd
  PROVE  NothingLost'
<1>1. w \in Writable /\ FineW(w, calls) /\ calls \in Nat
      /\ w.writing \in Seq(Chunk) /\ w.queue \in Seq(Chunk)
  BY WritableFacts DEF Base, FineW
<1>2. CASE PipeData /\ (w.destroyed \/ w.ended)
  BY <1>2 DEF PipeData, NothingLost
<1>3. CASE PipeData /\ ~(w.destroyed \/ w.ended)
  <2> DEFINE c == Top.arg
             q == Queued(w, c)
             x == NextWrite(q)
  <2>1. c \in Chunk
    BY <1>3, StackTyped DEF PipeData, Turn, At
  <2>2. FineW(q, calls) /\ q.queue = Append(w.queue, c) /\ q.writing = w.writing
        /\ q.destroyed = w.destroyed
    BY <1>1, <2>1, QueuedFine
  <2>3. accepted' = Append(accepted, c) /\ UNCHANGED file
        /\ w' = [x EXCEPT !.draining = @ \/ q.buffered >= HighWater]
    BY <1>3 DEF PipeData
  <2> HIDE DEF c, q
  <2>4. FineW(x, calls) /\ x.writing \o x.queue = q.writing \o q.queue /\ x.destroyed = q.destroyed
    BY <1>1, <2>2, NextWriteFine
  <2> HIDE DEF x
  <2>5. w'.writing = x.writing /\ w'.queue = x.queue /\ w'.destroyed = x.destroyed
    BY <2>3, <2>4 DEF FineW, Writable
  <2>6. <<c>> \in Seq(Chunk) /\ Append(w.queue, c) = Cat(w.queue, <<c>>)
        /\ Append(accepted, c) = Cat(accepted, <<c>>)
    <3>1. accepted \in Seq(Chunk) /\ <<c>> \in Seq(Chunk)
      BY <2>1, SingleTyped DEF Base
    <3> QED BY <1>1, <2>1, <3>1, AppendIsConcat DEF Cat
  <2>7. Cat(w'.writing, w'.queue) = Cat(w.writing, Cat(w.queue, <<c>>))
    BY <2>2, <2>4, <2>5, <2>6 DEF Cat
  <2>8. Cat(w'.writing, w'.queue) = Cat(Cat(w.writing, w.queue), <<c>>)
    BY <1>1, <2>6, <2>7, CatFacts
  <2> QED BY <2>2, <2>3, <2>4, <2>5, <2>6, <2>8, LineGrows
<1>4. CASE PipeEnd
  <2>1. w' = w \/ w' = Ended(w).s
    BY <1>4 DEF PipeEnd
  <2>2. Cat(Ended(w).s.writing, Ended(w).s.queue) = Cat(w.writing, w.queue)
        /\ Ended(w).s.destroyed = w.destroyed
    BY <1>1, EndedFine DEF Cat
  <2>3. UNCHANGED <<file, accepted>>
    BY <1>4 DEF PipeEnd
  <2> QED BY <2>1, <2>2, <2>3, LineKept
<1> QED BY <1>2, <1>3, <1>4

LEMMA ScriptLosesNothing ==
  ASSUME Base, NothingLost, Base', Write \/ End \/ DestroyW \/ Cork \/ Uncork
  PROVE  NothingLost'
<1>1. w \in Writable /\ FineW(w, calls) /\ calls \in Nat /\ accepted \in Seq(Chunk)
      /\ w.writing \in Seq(Chunk) /\ w.queue \in Seq(Chunk) /\ w.corks \in Int
  BY WritableFacts DEF Base, FineW, Writable
<1>2. CASE Write
  <2> DEFINE q == Queued(w, 0)
             x == [q EXCEPT !.draining = @ \/ q.buffered >= HighWater]
  <2>1. 0 \in Chunk /\ <<0>> \in Seq(Chunk)
    BY ChunkFacts, SingleTyped
  <2>2. FineW(q, calls) /\ q.queue = Append(w.queue, 0) /\ q.writing = w.writing
        /\ q.destroyed = w.destroyed
    BY <1>1, <2>1, QueuedFine
  <2>3. accepted' = Append(accepted, 0) /\ UNCHANGED file /\ w' = NextWrite(x)
    BY <1>2 DEF Write
  <2> HIDE DEF q
  <2>4. FineW(x, calls) /\ x.queue = q.queue /\ x.writing = q.writing /\ x.destroyed = q.destroyed
    <3>1. (q.draining \/ q.buffered >= HighWater) \in BOOLEAN
      OBVIOUS
    <3> QED BY <2>2, <3>1 DEF FineW, Writable
  <2> HIDE DEF x
  <2>5. w'.writing \o w'.queue = x.writing \o x.queue /\ w'.destroyed = x.destroyed
    BY <1>1, <2>3, <2>4, NextWriteFine
  <2>6. Append(w.queue, 0) = Cat(w.queue, <<0>>) /\ Append(accepted, 0) = Cat(accepted, <<0>>)
    BY <1>1, <2>1, AppendIsConcat DEF Cat
  <2>7. Cat(w'.writing, w'.queue) = Cat(w.writing, Cat(w.queue, <<0>>))
    BY <2>2, <2>4, <2>5, <2>6 DEF Cat
  <2>8. Cat(w'.writing, w'.queue) = Cat(Cat(w.writing, w.queue), <<0>>)
    BY <1>1, <2>1, <2>7, CatFacts
  <2> QED BY <2>1, <2>2, <2>3, <2>4, <2>5, <2>6, <2>8, LineGrows
<1>3. CASE End
  <2>1. PICK chunk \in {<<>>, <<0>>} :
          /\ accepted' = Cat(accepted, chunk)
          /\ w' = Ended([w EXCEPT !.queue = Cat(@, chunk)]).s
    BY <1>3 DEF End, Cat
  <2> DEFINE x == [w EXCEPT !.queue = Cat(@, chunk)]
  <2>2. chunk \in Seq(Chunk)
    <3>1. <<0>> \in Seq(Chunk) /\ <<>> \in Seq(Chunk)
      BY ChunkFacts, SingleTyped
    <3> QED BY <3>1
  <2>3. Cat(w.queue, chunk) \in Seq(Chunk)
    BY <1>1, <2>2, CatFacts
  <2>4. /\ FineW(x, calls) /\ x.queue = Cat(w.queue, chunk) /\ x.writing = w.writing
        /\ x.destroyed = w.destroyed
    BY <1>1, <2>3 DEF FineW, Writable
  <2> HIDE DEF x
  <2>5. w'.writing \o w'.queue = x.writing \o x.queue /\ w'.destroyed = x.destroyed
    <3>1. Ended(x).s.writing \o Ended(x).s.queue = x.writing \o x.queue
          /\ Ended(x).s.destroyed = x.destroyed
      BY <1>1, <2>4, EndedFine
    <3> QED BY <2>1, <3>1 DEF x
  <2>6. Cat(w'.writing, w'.queue) = Cat(w.writing, Cat(w.queue, chunk))
    BY <2>4, <2>5 DEF Cat
  <2>7. Cat(w'.writing, w'.queue) = Cat(Cat(w.writing, w.queue), chunk)
    BY <1>1, <2>2, <2>6, CatFacts
  <2>8. UNCHANGED file
    BY <1>3 DEF End
  <2> QED BY <2>1, <2>2, <2>4, <2>5, <2>7, <2>8, LineGrows
<1>4. CASE DestroyW
  <2>1. w'.destroyed
    BY <1>1, <1>4 DEF DestroyW, Writable
  <2> QED BY <2>1 DEF NothingLost
<1>5. CASE Cork
  <2>1. w'.writing = w.writing /\ w'.queue = w.queue /\ w'.destroyed = w.destroyed
    BY <1>1, <1>5 DEF Cork, Writable
  <2> QED BY <1>5, <2>1, LineKept DEF Cork
<1>6. CASE Uncork
  <2> DEFINE x == [w EXCEPT !.corks = @ - 1]
  <2>0. w.corks - 1 \in 0..Calls /\ w.corks - 1 <= calls
    BY <1>1, <1>6, StreamsAssumption DEF Uncork, FineW, Writable
  <2>1. FineW(x, calls) /\ x.writing = w.writing /\ x.queue = w.queue /\ x.destroyed = w.destroyed
    BY <1>1, <2>0 DEF FineW, Writable
  <2>2. w' = NextWrite(x) \/ w' = x
    BY <1>6 DEF Uncork
  <2> HIDE DEF x
  <2>3. Cat(w'.writing, w'.queue) = Cat(w.writing, w.queue) /\ w'.destroyed = w.destroyed
    BY <1>1, <2>1, <2>2, NextWriteFine DEF Cat
  <2> QED BY <1>6, <2>3, LineKept DEF Uncork
<1> QED BY <1>2, <1>3, <1>4, <1>5, <1>6

LEMMA LosesNothing == ASSUME Base, NothingLost, [Next]_vars PROVE NothingLost'
<1>1. Base'
  BY BaseKept
<1>2. CASE UNCHANGED <<w, file, accepted>>
  BY <1>2 DEF NothingLost
<1>3. CASE Native
  BY <1>1, <1>2, <1>3, WriterLosesNothing, PipeLosesNothing
     DEF Native, AfterData, CloseR, EndOfRead, ReadFailed, EmitStart, EmitEnd, EmitSkip, EmitUser,
         PipeDrain, Unpipe, PipeError, PipeClose
<1>4. CASE DeferredRead \/ ReadCompletes \/ ScriptReturns
  BY <1>2, <1>4 DEF DeferredRead, ReadCompletes, ReadDropped, ReadData, ReadError, ReadNothing,
                    ScriptReturns
<1>5. CASE ScriptCalls
  BY <1>1, <1>2, <1>5, ScriptLosesNothing
     DEF ScriptCalls, RunScript, ScriptThrows, OnData, OnEnd, Pause, Resume, DestroyR, Pipe
<1>6. CASE WriteCompletes
  BY <1>1, <1>6, WritesLoseNothing
<1>7. CASE UNCHANGED vars
  BY <1>2, <1>7 DEF vars
<1> QED BY <1>3, <1>4, <1>5, <1>6, <1>7 DEF Next

LEMMA BaseAlways == Spec => [](Base /\ NothingLost)
<1>1. Init => NothingLost
  BY DEF Init, NothingLost
<1>2. Base /\ NothingLost /\ [Next]_vars => Base' /\ NothingLost'
  BY BaseKept, LosesNothing
<1> QED BY <1>1, <1>2, Initially, PTL DEF Spec

\* Types are kept whatever the script calls, from wherever it calls it.
THEOREM TypeCorrect == Spec => []TypeOK
BY BaseAlways, BaseTyped, PTL

\* Whatever the script does, with any listener and from any callback: every chunk
\* that entered the write queue of a stream that is not destroyed is in the file,
\* being written or queued, in order.
THEOREM NothingIsLost == Spec => []NothingLost
BY BaseAlways, PTL

-----------------------------------------------------------------------------
\* What the steps do to the functions under way. Each action lets the first n of
\* them return and enters new ones; the others keep the number below them.
Below(n, k) ==
  \E j \in DOMAIN stack :
    j > n /\ stack'[k] = stack[j] /\ Len(stack') - k = Len(stack) - j
Enter(n, S) == \A k \in DOMAIN stack' : Below(n, k) \/ stack'[k] \in S
EnterAt(n, S, f, d) ==
  \A k \in DOMAIN stack' :
    Below(n, k) \/ stack'[k] \in S \/ (stack'[k] = f /\ Len(stack') - k = d)
Advance == [Top EXCEPT !.i = @ + 1, !.users = IF Listener = "user" THEN @ - 1 ELSE @]
Turned(S) == EnterAt(1, S, Advance, Len(stack) - 1)

LEMMA Lengths ==
  ASSUME NEW S, NEW s \in Seq(S)
  PROVE  Len(s) \in Nat /\ DOMAIN s = 1..Len(s)
OBVIOUS

LEMMA Pushed ==
  ASSUME Base, NEW fs \in Seq(Legal), stack' = fs \o stack
  PROVE  \A k \in DOMAIN stack' :
           \/ Below(0, k)
           \/ k \in DOMAIN fs /\ stack'[k] = fs[k] /\ Len(stack') - k = Len(stack) + Len(fs) - k
<1> SUFFICES ASSUME NEW k \in DOMAIN stack'
             PROVE  \/ Below(0, k)
                    \/ /\ k \in DOMAIN fs /\ stack'[k] = fs[k]
                       /\ Len(stack') - k = Len(stack) + Len(fs) - k
  OBVIOUS
<1>1. stack \in Seq(Legal) /\ Len(stack) \in Nat /\ Len(fs) \in Nat /\ DOMAIN stack = 1..Len(stack)
  BY Lengths DEF Base
<1>2. /\ Len(fs \o stack) = Len(fs) + Len(stack)
      /\ \/ k \in DOMAIN fs /\ (fs \o stack)[k] = fs[k]
         \/ /\ k \in Nat /\ k > Len(fs) /\ k - Len(fs) \in DOMAIN stack
            /\ (fs \o stack)[k] = stack[k - Len(fs)]
  BY <1>1, JoinTyped
<1>3. CASE k \in DOMAIN fs /\ (fs \o stack)[k] = fs[k]
  <2>1. Len(stack') = Len(fs) + Len(stack) /\ stack'[k] = fs[k] /\ k \in Nat
    BY <1>2, <1>3, Lengths
  <2>2. Len(stack') - k = Len(stack) + Len(fs) - k
    BY <1>1, <2>1
  <2> QED BY <1>3, <2>1, <2>2
<1>4. CASE k \in Nat /\ k > Len(fs) /\ k - Len(fs) \in DOMAIN stack
           /\ (fs \o stack)[k] = stack[k - Len(fs)]
  <2>1. Len(stack') = Len(fs) + Len(stack) /\ stack'[k] = stack[k - Len(fs)]
    BY <1>2, <1>4
  <2>2. Len(stack') - k = Len(stack) - (k - Len(fs)) /\ k - Len(fs) > 0
    BY <1>1, <1>4, <2>1
  <2> QED BY <1>4, <2>1, <2>2 DEF Below
<1> QED BY <1>2, <1>3, <1>4

LEMMA Returned ==
  ASSUME Base, stack # <<>>, NEW fs \in Seq(Legal), Then(fs)
  PROVE  \A k \in DOMAIN stack' :
           \/ Below(1, k)
           \/ /\ k \in DOMAIN fs /\ stack'[k] = fs[k]
              /\ Len(stack') - k = Len(stack) - 1 + Len(fs) - k
<1> SUFFICES ASSUME NEW k \in DOMAIN stack'
             PROVE  \/ Below(1, k)
                    \/ /\ k \in DOMAIN fs /\ stack'[k] = fs[k]
                       /\ Len(stack') - k = Len(stack) - 1 + Len(fs) - k
  OBVIOUS
<1> DEFINE t == Tail(stack)
<1>1. /\ stack \in Seq(Legal) /\ Len(stack) \in Nat /\ Len(fs) \in Nat
      /\ t \in Seq(Legal) /\ Len(t) = Len(stack) - 1
      /\ \A i \in DOMAIN t : i \in Nat \ {0} /\ i + 1 \in DOMAIN stack /\ t[i] = stack[i + 1]
  BY Lengths, TailTyped DEF Base
<1>2. stack' = fs \o t
  BY DEF Then
<1> HIDE DEF t
<1>3. /\ Len(fs \o t) = Len(fs) + Len(t)
      /\ \/ k \in DOMAIN fs /\ (fs \o t)[k] = fs[k]
         \/ /\ k \in Nat /\ k > Len(fs) /\ k - Len(fs) \in DOMAIN t
            /\ (fs \o t)[k] = t[k - Len(fs)]
  BY <1>1, <1>2, JoinTyped
<1>4. CASE k \in DOMAIN fs /\ (fs \o t)[k] = fs[k]
  <2>1. Len(stack') = Len(fs) + Len(t) /\ stack'[k] = fs[k] /\ k \in Nat
    BY <1>2, <1>3, <1>4, Lengths
  <2>2. Len(stack') - k = Len(stack) - 1 + Len(fs) - k
    BY <1>1, <2>1
  <2> QED BY <1>4, <2>1, <2>2
<1>5. CASE k \in Nat /\ k > Len(fs) /\ k - Len(fs) \in DOMAIN t /\ (fs \o t)[k] = t[k - Len(fs)]
  <2> DEFINE j == k - Len(fs) + 1
  <2>1. Len(stack') = Len(fs) + Len(t) /\ stack'[k] = t[k - Len(fs)]
    BY <1>2, <1>3, <1>5
  <2>2. j \in DOMAIN stack /\ stack'[k] = stack[j]
    BY <1>1, <1>5, <2>1
  <2>3. Len(stack') - k = Len(stack) - j /\ j > 1
    BY <1>1, <1>5, <2>1
  <2> QED BY <2>2, <2>3 DEF Below
<1> QED BY <1>3, <1>4, <1>5

LEMMA NoneEntered == UNCHANGED stack => Enter(0, {})
BY DEF Enter, Below

LEMMA EnterOne ==
  ASSUME Base, NEW x \in Legal
  PROVE  /\ stack' = <<x>> \o stack => EnterAt(0, {}, x, Len(stack))
         /\ stack # <<>> /\ Then(<<x>>) => EnterAt(1, {}, x, Len(stack) - 1)
         /\ stack # <<>> /\ Then(<<>>) => Enter(1, {})
         /\ stack' = <<>> \o stack => Enter(0, {})
<1>0. <<x>> \in Seq(Legal) /\ Len(<<x>>) = 1 /\ DOMAIN <<x>> = {1} /\ <<x>>[1] = x
  BY SingleTyped
<1>1. Len(stack) \in Nat /\ <<>> \in Seq(Legal) /\ DOMAIN <<>> = {}
  BY Lengths DEF Base
<1> DEFINE fs == <<x>>
<1>2. ASSUME stack' = <<x>> \o stack PROVE EnterAt(0, {}, x, Len(stack))
  <2>1. \A k \in DOMAIN stack' :
           \/ Below(0, k)
           \/ k \in DOMAIN fs /\ stack'[k] = fs[k] /\ Len(stack') - k = Len(stack) + Len(fs) - k
    BY <1>0, <1>2, Pushed
  <2> QED BY <1>0, <1>1, <2>1 DEF EnterAt
<1>3. ASSUME stack # <<>>, Then(<<x>>) PROVE EnterAt(1, {}, x, Len(stack) - 1)
  <2>1. \A k \in DOMAIN stack' :
           \/ Below(1, k)
           \/ /\ k \in DOMAIN fs /\ stack'[k] = fs[k]
              /\ Len(stack') - k = Len(stack) - 1 + Len(fs) - k
    BY <1>0, <1>3, Returned
  <2> QED BY <1>0, <1>1, <2>1 DEF EnterAt
<1>4. ASSUME stack # <<>>, Then(<<>>) PROVE Enter(1, {})
  <2> DEFINE none == <<>>
  <2>1. none \in Seq(Legal) /\ DOMAIN none = {}
    BY <1>1
  <2>2. Then(none)
    BY <1>4
  <2> HIDE DEF none
  <2> QED BY <1>4, <2>1, <2>2, Returned DEF Enter
<1>5. ASSUME stack' = <<>> \o stack PROVE Enter(0, {})
  <2>1. stack' = stack
    BY <1>5 DEF Base
  <2> QED BY <2>1, NoneEntered
<1> QED BY <1>2, <1>3, <1>4, <1>5

LEMMA EnterTwo ==
  ASSUME Base, NEW x \in Legal, NEW y \in Legal
  PROVE  /\ stack' = <<x, y>> \o stack => EnterAt(0, {x}, y, Len(stack))
         /\ stack # <<>> /\ Then(<<x, y>>) => EnterAt(1, {x}, y, Len(stack) - 1)
<1> DEFINE fs == <<x, y>>
<1>0. fs \in Seq(Legal) /\ Len(fs) = 2 /\ DOMAIN fs = {1, 2} /\ fs[1] = x /\ fs[2] = y
  BY PairTyped
<1>1. Len(stack) \in Nat
  BY Lengths DEF Base
<1> HIDE DEF fs
<1>2. ASSUME stack' = fs \o stack PROVE EnterAt(0, {x}, y, Len(stack))
  <2>1. \A k \in DOMAIN stack' :
           \/ Below(0, k)
           \/ k \in DOMAIN fs /\ stack'[k] = fs[k] /\ Len(stack') - k = Len(stack) + Len(fs) - k
    BY <1>0, <1>2, Pushed
  <2> QED BY <1>0, <1>1, <2>1 DEF EnterAt
<1>3. ASSUME stack # <<>>, Then(fs) PROVE EnterAt(1, {x}, y, Len(stack) - 1)
  <2>1. \A k \in DOMAIN stack' :
           \/ Below(1, k)
           \/ /\ k \in DOMAIN fs /\ stack'[k] = fs[k]
              /\ Len(stack') - k = Len(stack) - 1 + Len(fs) - k
    BY <1>0, <1>3, Returned
  <2> QED BY <1>0, <1>1, <2>1 DEF EnterAt
<1> QED BY <1>2, <1>3 DEF fs

LEMMA IdleEntered ==
  ASSUME Base, Idle, NEW fs \in Seq(Legal), stack' = fs
  PROVE  stack' = fs \o stack
BY ConcatEmptySeq DEF Idle

LEMMA AdvanceFacts ==
  ASSUME Base, Turn
  PROVE  /\ Advance \in Legal /\ Advance.do = "emit" /\ Advance.ev = Top.ev
         /\ Advance.arg = Top.arg /\ Advance.n = Top.n /\ Advance.i = Top.i + 1
         /\ Advance.users = IF Listener = "user" THEN Top.users - 1 ELSE Top.users
         /\ stack # <<>> /\ Top = stack[1] /\ 1 \in DOMAIN stack /\ Top.do = "emit"
         /\ Top.ev \in Events /\ Top.i \in Nat /\ Top.n \in Nat /\ Top.users \in Int
         /\ Top.i > 0 /\ Top.i <= Top.n
<1>1. /\ Top \in Legal /\ stack # <<>> /\ Top.do = "emit" /\ Top = stack[1]
      /\ Top.ev \in Events /\ Top.i \in Nat /\ Top.n \in Nat /\ Top.users \in Int
  BY StackTyped DEF Turn, At
<1>2. 1 \in DOMAIN stack
  BY <1>1, TailTyped DEF Base
<1> DEFINE u == IF Listener = "user" THEN Top.users - 1 ELSE Top.users
<1>3. Top.i + 1 \in Nat /\ u \in Int
  BY <1>1
<1>4. Advance = [Top EXCEPT !.i = @ + 1, !.users = u]
  BY DEF Advance
<1> HIDE DEF u
<1>5. /\ Advance \in Legal /\ Advance.do = "emit" /\ Advance.ev = Top.ev
      /\ Advance.arg = Top.arg /\ Advance.n = Top.n /\ Advance.i = Top.i + 1
      /\ Advance.users = u
  BY <1>1, <1>3, <1>4 DEF Legal, Frame
<1>6. Top.i > 0 /\ Top.i <= Top.n
  BY <1>1 DEF Turn
<1> QED BY <1>1, <1>2, <1>5, <1>6 DEF u

LEMMA Turns ==
  ASSUME Base, Turn, NEW S, NEW fs \in Seq(Legal), \A k \in DOMAIN fs : fs[k] \in S, Onward(fs)
  PROVE  Turned(S)
<1>1. Advance \in Legal /\ stack # <<>>
  BY AdvanceFacts
<1> DEFINE gs == fs \o <<Advance>>
<1>2. Then(gs)
  BY DEF Onward, Advance
<1>3. <<Advance>> \in Seq(Legal) /\ Len(<<Advance>>) = 1 /\ DOMAIN <<Advance>> = {1}
      /\ <<Advance>>[1] = Advance
  BY <1>1, SingleTyped
<1>4. /\ gs \in Seq(Legal) /\ Len(gs) = Len(fs) + 1 /\ Len(fs) \in Nat /\ Len(stack) \in Nat
      /\ \A k \in DOMAIN gs :
           gs[k] \in S \/ (k \in Nat /\ k - Len(fs) = 1 /\ gs[k] = Advance)
  <2>1. \A k \in DOMAIN gs :
          \/ k \in DOMAIN fs /\ gs[k] = fs[k]
          \/ /\ k \in Nat /\ k > Len(fs) /\ k - Len(fs) \in DOMAIN <<Advance>>
             /\ gs[k] = <<Advance>>[k - Len(fs)]
    BY <1>3, JoinTyped
  <2>2. gs \in Seq(Legal) /\ Len(gs) = Len(fs) + Len(<<Advance>>)
    BY <1>3, JoinTyped
  <2>3. Len(fs) \in Nat /\ Len(stack) \in Nat
    BY Lengths DEF Base
  <2> HIDE DEF gs
  <2> QED BY <1>3, <2>1, <2>2, <2>3
<1> HIDE DEF gs
<1>5. \A k \in DOMAIN stack' :
           \/ Below(1, k)
           \/ /\ k \in DOMAIN gs /\ stack'[k] = gs[k]
              /\ Len(stack') - k = Len(stack) - 1 + Len(gs) - k
  BY <1>1, <1>2, <1>4, Returned
<1>6. ASSUME NEW k \in DOMAIN stack', k \in DOMAIN gs, stack'[k] = gs[k],
             Len(stack') - k = Len(stack) - 1 + Len(gs) - k
      PROVE  stack'[k] \in S \/ (stack'[k] = Advance /\ Len(stack') - k = Len(stack) - 1)
  BY <1>4, <1>6
<1> QED BY <1>5, <1>6 DEF Turned, EnterAt

LEMMA Thrown ==
  ASSUME Base, ScriptThrows
  PROVE  Enter(2, {Emit("rerror", 0)})
<1> DEFINE fs == IF stack[2].ev # "rerror" THEN <<Emit("rerror", 0)>> ELSE <<>>
           t == SubSeq(stack, 3, Len(stack))
<1>1. stack \in Seq(Legal) /\ Len(stack) \in Nat /\ Len(stack) > 1 /\ stack' = fs \o t
  BY Lengths DEF Base, ScriptThrows
<1>2. Emit("rerror", 0) \in Legal
  BY FrameFacts, EventFacts, ChunkFacts
<1>3. fs \in Seq(Legal) /\ \A k \in DOMAIN fs : fs[k] = Emit("rerror", 0)
  <2>1. <<Emit("rerror", 0)>> \in Seq(Legal) /\ DOMAIN <<Emit("rerror", 0)>> = {1}
        /\ <<Emit("rerror", 0)>>[1] = Emit("rerror", 0)
    BY <1>2, SingleTyped
  <2> QED BY <2>1
<1>4. /\ t \in Seq(Legal) /\ Len(t) = Len(stack) - 2
      /\ \A i \in DOMAIN t : i \in Nat \ {0} /\ i + 2 \in DOMAIN stack /\ t[i] = stack[i + 2]
  <2>1. 3 \in Int /\ Len(stack) \in Int /\ \A i \in 3..Len(stack) : stack[i] \in Legal
    BY <1>1, Lengths
  <2>0. /\ t \in Seq(Legal)
        /\ Len(t) = IF 3 <= Len(stack) THEN Len(stack) - 3 + 1 ELSE 0
        /\ \A i \in 1..Len(stack) - 3 + 1 : t[i] = stack[3 + i - 1]
    BY <2>1, SubSeqProperties
  <2>2. /\ t \in Seq(Legal) /\ Len(t) = Len(stack) - 3 + 1
        /\ \A i \in 1..Len(stack) - 3 + 1 : t[i] = stack[3 + i - 1]
    <3>1. Len(stack) \in Nat /\ Len(stack) > 1
      BY <1>1
    <3>2. \A n \in Nat : n > 1 => (IF 3 <= n THEN n - 3 + 1 ELSE 0) = n - 3 + 1
      <4> TAKE n \in Nat
      <4>1. CASE 3 <= n
        BY <4>1
      <4>2. CASE n = 2
        BY <4>2
      <4>3. n > 1 => 3 <= n \/ n = 2
        OBVIOUS
      <4> QED BY <4>1, <4>2, <4>3
    <3>3. (IF 3 <= Len(stack) THEN Len(stack) - 3 + 1 ELSE 0) = Len(stack) - 3 + 1
      BY <3>1, <3>2
    <3> QED BY <2>0, <3>3
  <2> HIDE DEF t
  <2>3. DOMAIN t = 1..Len(stack) - 2 /\ DOMAIN stack = 1..Len(stack) /\ Len(t) = Len(stack) - 2
    BY <1>1, <2>2, Lengths
  <2>4. ASSUME NEW i \in DOMAIN t
        PROVE  i \in Nat \ {0} /\ i + 2 \in DOMAIN stack /\ t[i] = stack[i + 2]
    <3>1. i \in 1..Len(stack) - 3 + 1 /\ 3 + i - 1 = i + 2 /\ i + 2 \in 1..Len(stack)
          /\ i \in Nat \ {0}
      BY <1>1, <2>3
    <3> QED BY <2>2, <2>3, <3>1
  <2> QED BY <2>2, <2>3, <2>4
<1> HIDE DEF fs, t
<1>5. Len(fs) \in Nat
  BY <1>3, Lengths
<1>6. ASSUME NEW k \in DOMAIN stack' PROVE Below(2, k) \/ stack'[k] = Emit("rerror", 0)
  <2>0. k \in DOMAIN (fs \o t) /\ fs \in Seq(Legal) /\ t \in Seq(Legal)
    BY <1>1, <1>3, <1>4
  <2>1. /\ Len(fs \o t) = Len(fs) + Len(t)
        /\ \/ k \in DOMAIN fs /\ (fs \o t)[k] = fs[k]
           \/ /\ k \in Nat /\ k > Len(fs) /\ k - Len(fs) \in DOMAIN t
              /\ (fs \o t)[k] = t[k - Len(fs)]
    BY <2>0, JoinTyped
  <2>2. CASE k \in DOMAIN fs /\ (fs \o t)[k] = fs[k]
    BY <1>1, <1>3, <2>2
  <2>3. CASE k \in Nat /\ k > Len(fs) /\ k - Len(fs) \in DOMAIN t /\ (fs \o t)[k] = t[k - Len(fs)]
    <3> DEFINE j == k - Len(fs) + 2
    <3>1. Len(stack') = Len(fs) + Len(t) /\ stack'[k] = t[k - Len(fs)]
      BY <1>1, <2>1, <2>3
    <3>2. j \in DOMAIN stack /\ stack'[k] = stack[j] /\ j > 2 /\ Len(stack') - k = Len(stack) - j
      BY <1>1, <1>4, <1>5, <2>3, <3>1
    <3> QED BY <3>2 DEF Below
  <2> QED BY <2>1, <2>2, <2>3
<1> QED BY <1>6 DEF Enter

-----------------------------------------------------------------------------
\* What a step of the flow makes of a readable s: the flags of the flow, and a
\* read asked for or the end found.
Flows(s, t, todo) ==
  /\ t \in Readable
  /\ t.size = s.size /\ t.pos = s.pos /\ t.open = s.open /\ t.destroyed = s.destroyed
  /\ \/ todo = <<>> /\ t.ended = s.ended /\ (t.io => s.io \/ ~s.ended)
     \/ /\ todo = EndTodo /\ ~s.ended /\ ~s.destroyed /\ t.ended /\ ~t.io
        /\ ~s.open \/ s.pos >= s.size

LEMMA FlowFacts ==
  ASSUME NEW s, Fine(s)
  PROVE  /\ Flows(s, s, <<>>) /\ Flows(s, Paused(s), <<>>) /\ Flows(s, Flowing(s), <<>>)
         /\ Flows(s, Started(s), <<>>) /\ Flows(s, NextRead(s).s, NextRead(s).todo)
         /\ Flows(s, [s EXCEPT !.timers = @ + 1], <<>>)
         /\ Flows(s, [Paused(s) EXCEPT !.held = TRUE], <<>>)
         /\ (s.timers > 0 => Flows(s, [s EXCEPT !.timers = @ - 1], <<>>))
<1>1. s \in Readable /\ s.timers + 1 \in Nat /\ (s.timers > 0 => s.timers - 1 \in Nat)
  BY DEF Fine, Readable
<1>2. Flows(s, s, <<>>)
  BY <1>1 DEF Flows
<1>3. Flows(s, Paused(s), <<>>)
  BY <1>1 DEF Flows, Paused, Readable
<1>4. Flows(s, Flowing(s), <<>>)
  BY <1>1 DEF Flows, Flowing, Readable
<1>5. Flows(s, [s EXCEPT !.timers = @ + 1], <<>>)
  BY <1>1 DEF Flows, Readable
<1>6. s.timers > 0 => Flows(s, [s EXCEPT !.timers = @ - 1], <<>>)
  BY <1>1 DEF Flows, Readable
<1>7. Flows(s, Started(s), <<>>)
  <2>1. Flows(s, [s EXCEPT !.flowing = TRUE, !.timers = @ + 1], <<>>)
    BY <1>1 DEF Flows, Readable
  <2> QED BY <1>2, <2>1 DEF Started
<1>8. Flows(s, [Paused(s) EXCEPT !.held = TRUE], <<>>)
  <2> DEFINE t == Paused(s)
  <2>1. Flows(s, t, <<>>)
    BY <1>3
  <2> HIDE DEF t
  <2>2. Flows(s, [t EXCEPT !.held = TRUE], <<>>)
    <3>0. t \in Readable
      BY <2>1 DEF Flows
    <3>1. /\ [t EXCEPT !.held = TRUE] \in Readable
          /\ [t EXCEPT !.held = TRUE].size = t.size /\ [t EXCEPT !.held = TRUE].pos = t.pos
          /\ [t EXCEPT !.held = TRUE].open = t.open /\ [t EXCEPT !.held = TRUE].io = t.io
          /\ [t EXCEPT !.held = TRUE].destroyed = t.destroyed
          /\ [t EXCEPT !.held = TRUE].ended = t.ended
      BY <3>0 DEF Readable
    <3>2. <<>> # EndTodo
      BY DEF EndTodo
    <3>3. t.ended = s.ended /\ (t.io => s.io \/ ~s.ended)
      BY <2>1, <3>2 DEF Flows
    <3> QED BY <2>1, <3>1, <3>3 DEF Flows
  <2> QED BY <2>2 DEF t
<1>9. Flows(s, NextRead(s).s, NextRead(s).todo)
  <2>1. CASE NextRead(s).s = s /\ NextRead(s).todo = <<>>
    BY <1>2, <2>1
  <2>2. CASE /\ ~s.destroyed /\ ~s.ended /\ ~s.reading /\ (~s.open \/ s.pos >= s.size)
             /\ NextRead(s).s = [s EXCEPT !.ended = TRUE] /\ NextRead(s).todo = EndTodo
    <3>1. Flows(s, [s EXCEPT !.ended = TRUE], EndTodo)
      BY <1>1, <2>2 DEF Flows, Fine, Readable
    <3> QED BY <2>2, <3>1
  <2>3. CASE /\ ~s.destroyed /\ ~s.ended /\ ~s.reading /\ s.open /\ ~(s.pos >= s.size)
             /\ NextRead(s).s = [s EXCEPT !.reading = TRUE, !.io = TRUE]
             /\ NextRead(s).todo = <<>>
    <3>1. Flows(s, [s EXCEPT !.reading = TRUE, !.io = TRUE], <<>>)
      BY <1>1, <2>3 DEF Flows, Readable
    <3> QED BY <2>3, <3>1
  <2> QED BY <2>1, <2>2, <2>3, NextReadCases
<1> QED BY <1>2, <1>3, <1>4, <1>5, <1>6, <1>7, <1>8, <1>9

LEMMA FlowsTogether ==
  ASSUME NEW s, NEW t, NEW u, NEW todo, Flows(s, t, <<>>), Flows(t, u, todo)
  PROVE  Flows(s, u, todo)
<1>1. <<>> # EndTodo
  BY DEF EndTodo
<1> QED BY <1>1 DEF Flows

LEMMA ResumedFlows ==
  ASSUME NEW s, Fine(s)
  PROVE  Flows(s, Resumed(s).s, Resumed(s).todo)
<1>1. Fine(Flowing(s)) /\ Flows(s, Flowing(s), <<>>)
  BY FlowFine, FlowFacts
<1>2. Flows(Flowing(s), NextRead(Flowing(s)).s, NextRead(Flowing(s)).todo)
  BY <1>1, FlowFacts
<1>3. Flows(s, NextRead(Flowing(s)).s, NextRead(Flowing(s)).todo)
  BY <1>1, <1>2, FlowsTogether
<1>4. \/ Resumed(s) = NextRead(Flowing(s))
      \/ Resumed(s).s = Flowing(s) /\ Resumed(s).todo = <<>>
  BY DEF Resumed
<1> QED BY <1>1, <1>3, <1>4

-----------------------------------------------------------------------------
\* What each action enters.
EndFrames == {Emit("end", 0), Do("endOfRead")}
FinishFrames == {Emit("finish", 0), Do("finishW")}
Flowed(n) ==
  \/ Flows(r, r', <<>>) /\ Enter(n, {})
  \/ Flows(r, r', EndTodo) /\ Enter(n, EndFrames)

LEMMA EnterWider ==
  ASSUME NEW n, NEW x, NEW y, NEW d
  PROVE  /\ EnterAt(n, {x}, y, d) => Enter(n, {x, y})
         /\ EnterAt(n, {}, y, d) => Enter(n, {y})
BY DEF Enter, EnterAt

LEMMA Known ==
  /\ \A e \in {"data", "end", "rerror", "rclose", "drain", "finish", "werror", "wclose"} :
       Emit(e, 0) \in Legal /\ Emit(e, 0).do = "emit" /\ Emit(e, 0).ev = e
       /\ Emit(e, 0).arg = 0 /\ Emit(e, 0).i = 0
  /\ \A what \in {"afterData", "endOfRead", "closeR", "readFailed", "afterWrite", "finishW",
                  "writeFailed", "unpipe", "pipeFailed"} :
       Do(what) \in Legal /\ Do(what).do = what /\ Do(what).arg = 0
BY FrameFacts, EventFacts, ChunkFacts DEF Doings

LEMMA FlowedBy ==
  ASSUME Base, NEW todo, Flows(r, r', todo)
  PROVE  /\ stack' = todo \o stack => Flowed(0)
         /\ stack # <<>> /\ Then(todo) => Flowed(1)
         /\ Turn /\ Onward(todo) =>
              \/ Flows(r, r', <<>>) /\ Turned({})
              \/ Flows(r, r', EndTodo) /\ Turned(EndFrames)
<1>1. todo = <<>> \/ todo = EndTodo
  BY DEF Flows
<1>2. Emit("end", 0) \in Legal /\ Do("endOfRead") \in Legal
  BY Known
<1>4. CASE todo = <<>>
  <2>1. <<>> \in Seq(Legal) /\ DOMAIN <<>> = {}
    OBVIOUS
  <2>2. Turn /\ Onward(<<>>) => Turned({})
    <3> DEFINE fs == <<>>
    <3>1. fs \in Seq(Legal) /\ \A k \in DOMAIN fs : fs[k] \in {}
      BY <2>1
    <3> SUFFICES ASSUME Turn, Onward(fs) PROVE Turned({})
      OBVIOUS
    <3> HIDE DEF fs
    <3> QED BY <3>1, Turns
  <2> QED BY <1>2, <1>4, <2>2, EnterOne DEF Flowed
<1>5. CASE todo = EndTodo
  <2>1. stack' = todo \o stack => Enter(0, EndFrames)
    BY <1>2, <1>5, EnterTwo, EnterWider DEF EndTodo, EndFrames
  <2>2. stack # <<>> /\ Then(todo) => Enter(1, EndFrames)
    BY <1>2, <1>5, EnterTwo, EnterWider DEF EndTodo, EndFrames
  <2>3. Turn /\ Onward(todo) => Turned(EndFrames)
    <3>1. todo \in Seq(Legal) /\ \A k \in DOMAIN todo : todo[k] \in EndFrames
      BY <1>2, <1>5, PairTyped DEF EndTodo, EndFrames
    <3> QED BY <3>1, Turns
  <2> QED BY <1>5, <2>1, <2>2, <2>3 DEF Flowed
<1> QED BY <1>1, <1>4, <1>5

LEMMA ReadsMove ==
  ASSUME Base
  PROVE  /\ DeferredRead => Flowed(0)
         /\ ReadDropped => Enter(0, {})
         /\ ReadData => /\ stack' \in Seq(Legal) /\ Len(stack') = 2 /\ DOMAIN stack' = {1, 2}
                        /\ stack'[1] = Emit("data", r.pos + 1) /\ stack'[2] = Do("afterData")
                        /\ r.pos + 1 \in Chunk
         /\ ReadError => Enter(0, {Emit("rerror", 0), Do("readFailed")})
         /\ ReadNothing => Enter(0, {Emit("end", 0), Do("closeR")})
<1>1. Fine(r) /\ r.pos \in Nat /\ r.size \in Nat /\ r.size \in Sizes
  BY ChunkFacts, StreamsAssumption DEF Base, Fine, Readable
<1>3. ASSUME DeferredRead PROVE Flowed(0)
  <2> DEFINE s == [r EXCEPT !.timers = @ - 1]
  <2>1. Flows(r, s, <<>>) /\ Fine(s)
    <3>1. r.timers > 0 /\ Flows(r, s, <<>>)
      BY <1>1, <1>3, FlowFacts DEF DeferredRead
    <3>2. s.io = r.io /\ s.reading = r.reading
      BY <1>1 DEF Fine, Readable
    <3> HIDE DEF s
    <3> QED BY <1>1, <3>1, <3>2 DEF Flows, Fine
  <2>2. \/ r' = s /\ stack' = <<>>
        \/ r' = NextRead(s).s /\ stack' = NextRead(s).todo
    BY <1>3 DEF DeferredRead
  <2> HIDE DEF s
  <2>3. Flows(r, NextRead(s).s, NextRead(s).todo)
    BY <2>1, FlowFacts, FlowsTogether
  <2>4. NextRead(s).todo \in Seq(Legal) /\ <<>> \in Seq(Legal) /\ Idle
    BY <1>3, <2>1, NextReadFine, Todos DEF DeferredRead
  <2>5. \/ Flows(r, r', <<>>) /\ stack' = <<>> \o stack
        \/ Flows(r, r', NextRead(s).todo) /\ stack' = NextRead(s).todo \o stack
    BY <2>1, <2>2, <2>3, <2>4, IdleEntered
  <2> QED BY <2>5, FlowedBy
<1>4. ReadDropped => Enter(0, {})
  BY NoneEntered DEF ReadDropped
<1>5. ASSUME ReadData
      PROVE  /\ stack' \in Seq(Legal) /\ Len(stack') = 2 /\ DOMAIN stack' = {1, 2}
             /\ stack'[1] = Emit("data", r.pos + 1) /\ stack'[2] = Do("afterData")
             /\ r.pos + 1 \in Chunk
  <2>1. r.pos + 1 \in Chunk /\ Emit("data", r.pos + 1) \in Legal /\ Do("afterData") \in Legal
    BY <1>1, <1>5, ChunkFacts, FrameFacts, EventFacts, Known DEF Fine, ReadData
  <2> QED BY <1>5, <2>1, PairTyped DEF ReadData
<1>6. ASSUME NEW x \in Legal, NEW y \in Legal, Idle, stack' = <<x, y>>
      PROVE  Enter(0, {x, y})
  <2>1. <<x, y>> \in Seq(Legal)
    OBVIOUS
  <2>2. stack' = <<x, y>> \o stack
    BY <1>6, <2>1, IdleEntered
  <2> QED BY <2>2, EnterTwo, EnterWider
<1> QED BY <1>3, <1>4, <1>5, <1>6, Known DEF ReadError, ReadNothing

LEMMA ReadFramesMove ==
  ASSUME Base
  PROVE  /\ AfterData =>
              \/ /\ r.pos >= r.size /\ r' = [r EXCEPT !.ended = TRUE]
                 /\ Enter(1, {Emit("end", 0), Do("closeR")})
              \/ r.pos < r.size /\ Flowed(1)
         /\ CloseR => Enter(1, {Emit("rclose", 0)})
         /\ EndOfRead => Enter(1, {})
         /\ ReadFailed => Enter(1, {})
<1>1. Fine(r)
  BY DEF Base
<1>3. ASSUME NEW x \in Legal, NEW y \in Legal, stack # <<>>, Then(<<x, y>>)
      PROVE  Enter(1, {x, y})
  BY <1>3, EnterTwo, EnterWider
<1>4. ASSUME NEW x \in Legal, stack # <<>>, Then(<<x>>) \/ Then(<<>>)
      PROVE  Enter(1, {x})
  <2>1. EnterAt(1, {}, x, Len(stack) - 1) \/ Enter(1, {})
    BY <1>4, EnterOne
  <2> QED BY <2>1, EnterWider DEF Enter
<1>5. ASSUME AfterData
      PROVE  \/ /\ r.pos >= r.size /\ r' = [r EXCEPT !.ended = TRUE]
                /\ Enter(1, {Emit("end", 0), Do("closeR")})
             \/ r.pos < r.size /\ Flowed(1)
  <2>1. stack # <<>>
    BY <1>5 DEF AfterData, At
  <2>2. \/ /\ r.pos >= r.size /\ r' = [r EXCEPT !.ended = TRUE]
           /\ Then(<<Emit("end", 0), Do("closeR")>>)
        \/ r.pos < r.size /\ r' = r /\ Then(<<>>)
        \/ r.pos < r.size /\ r' = [r EXCEPT !.timers = @ + 1] /\ Then(<<>>)
        \/ r.pos < r.size /\ r' = NextRead(r).s /\ Then(NextRead(r).todo)
    BY <1>5 DEF AfterData
  <2>3. /\ Flows(r, r, <<>>) /\ Flows(r, [r EXCEPT !.timers = @ + 1], <<>>)
        /\ Flows(r, NextRead(r).s, NextRead(r).todo)
    BY <1>1, FlowFacts
  <2>4. Emit("end", 0) \in Legal /\ Do("closeR") \in Legal
    BY Known
  <2>5. CASE r.pos >= r.size /\ r' = [r EXCEPT !.ended = TRUE]
             /\ Then(<<Emit("end", 0), Do("closeR")>>)
    BY <1>3, <2>1, <2>4, <2>5
  <2>6. CASE r.pos < r.size /\ r' = r /\ Then(<<>>)
    BY <2>1, <2>3, <2>6, FlowedBy
  <2>7. CASE r.pos < r.size /\ r' = [r EXCEPT !.timers = @ + 1] /\ Then(<<>>)
    BY <2>1, <2>3, <2>7, FlowedBy
  <2>8. CASE r.pos < r.size /\ r' = NextRead(r).s /\ Then(NextRead(r).todo)
    BY <2>1, <2>3, <2>8, FlowedBy
  <2> QED BY <2>2, <2>5, <2>6, <2>7, <2>8
<1>6. ASSUME CloseR PROVE Enter(1, {Emit("rclose", 0)})
  BY <1>4, <1>6, Known DEF CloseR, At
<1>7. (EndOfRead => Enter(1, {})) /\ (ReadFailed => Enter(1, {}))
  BY EnterOne, Known DEF EndOfRead, ReadFailed, At
<1> QED BY <1>5, <1>6, <1>7

LEMMA JoinIn ==
  ASSUME NEW A, NEW s \in Seq(Legal), NEW t \in Seq(Legal),
         \A k \in DOMAIN s : s[k] \in A, \A k \in DOMAIN t : t[k] \in A
  PROVE  s \o t \in Seq(Legal) /\ \A k \in DOMAIN (s \o t) : (s \o t)[k] \in A
BY JoinTyped

LEMMA EnterAll ==
  ASSUME Base, NEW A, NEW fs \in Seq(Legal), \A k \in DOMAIN fs : fs[k] \in A,
         stack' = fs \o stack
  PROVE  Enter(0, A)
BY Pushed DEF Enter

LEMMA CallbackTyped ==
  Callback \in Seq(Legal) /\ \A k \in DOMAIN Callback : Callback[k] \in {Script}
<1>1. /\ <<Script>> \in Seq(Legal) /\ DOMAIN <<Script>> = {1} /\ <<Script>>[1] = Script
      /\ <<>> \in Seq(Legal) /\ DOMAIN <<>> = {}
  BY FrameFacts, SingleTyped
<1> QED BY <1>1 DEF Callback

LEMMA WritesMove ==
  ASSUME Base
  PROVE  /\ WriteDropped => Enter(0, {})
         /\ WriteDone => EnterAt(0, {Script}, Do("afterWrite"), 0)
         /\ WriteError => Enter(0, {Emit("werror", 0), Script, Do("writeFailed")})
<1>1. stack \in Seq(Legal) /\ Script \in Legal /\ Do("afterWrite") \in Legal
      /\ Emit("werror", 0) \in Legal /\ Do("writeFailed") \in Legal
  BY Known, FrameFacts DEF Base
<1>2. WriteDropped => Enter(0, {})
  BY NoneEntered DEF WriteDropped
<1>3. ASSUME WriteDone PROVE EnterAt(0, {Script}, Do("afterWrite"), 0)
  <2> DEFINE last == <<Do("afterWrite")>>
             fs == Callback \o last
  <2>1. /\ Callback \in Seq(Legal) /\ \A k \in DOMAIN Callback : Callback[k] \in {Script}
        /\ last \in Seq(Legal) /\ Len(last) = 1 /\ DOMAIN last = {1}
        /\ last[1] = Do("afterWrite")
    BY <1>1, CallbackTyped, SingleTyped
  <2>2. /\ fs \in Seq(Legal) /\ Len(fs) = Len(Callback) + Len(last)
        /\ \A k \in DOMAIN fs :
             \/ k \in DOMAIN Callback /\ fs[k] = Callback[k]
             \/ /\ k \in Nat /\ k > Len(Callback) /\ k - Len(Callback) \in DOMAIN last
                /\ fs[k] = last[k - Len(Callback)]
    BY <2>1, JoinTyped
  <2>3. stack' = fs /\ Len(stack) = 0 /\ Idle
    BY <1>3 DEF WriteDone, Idle
  <2> HIDE DEF fs, last
  <2>4. stack' = fs \o stack
    BY <2>2, <2>3, IdleEntered
  <2>5. \A k \in DOMAIN stack' :
           \/ Below(0, k)
           \/ k \in DOMAIN fs /\ stack'[k] = fs[k] /\ Len(stack') - k = Len(stack) + Len(fs) - k
    BY <2>2, <2>4, Pushed
  <2>6. Len(Callback) \in Nat
    BY <2>1, Lengths
  <2>7. ASSUME NEW k \in DOMAIN fs
        PROVE  fs[k] \in {Script} \/ (fs[k] = Do("afterWrite") /\ Len(fs) - k = 0)
    BY <2>1, <2>2, <2>6
  <2>8. \A k \in DOMAIN fs : Len(stack) + Len(fs) - k = Len(fs) - k
    BY <2>2, <2>3, Lengths
  <2> QED BY <2>5, <2>7, <2>8 DEF EnterAt
<1>4. ASSUME WriteError
      PROVE  Enter(0, {Emit("werror", 0), Script, Do("writeFailed")})
  <2> DEFINE first == <<Emit("werror", 0)>>
             last == <<Do("writeFailed")>>
             A == {Emit("werror", 0), Script, Do("writeFailed")}
             fs == first \o Callback \o last
  <2>1. /\ first \in Seq(Legal) /\ \A k \in DOMAIN first : first[k] \in A
        /\ last \in Seq(Legal) /\ \A k \in DOMAIN last : last[k] \in A
        /\ Callback \in Seq(Legal) /\ \A k \in DOMAIN Callback : Callback[k] \in A
    BY <1>1, CallbackTyped, SingleTyped
  <2> HIDE DEF first, last, A
  <2>2. first \o Callback \in Seq(Legal) /\ \A k \in DOMAIN (first \o Callback) : (first \o Callback)[k] \in A
    BY <2>1, JoinIn
  <2>3. fs \in Seq(Legal) /\ \A k \in DOMAIN fs : fs[k] \in A
    BY <2>1, <2>2, JoinIn
  <2>4. stack' = fs /\ Idle
    BY <1>4 DEF WriteError, first, last
  <2> HIDE DEF fs
  <2>5. Enter(0, A)
    BY <2>3, <2>4, IdleEntered, EnterAll
  <2> QED BY <2>5 DEF A
<1> QED BY <1>2, <1>3, <1>4

LEMMA WriteFramesMove ==
  ASSUME Base
  PROVE  /\ AfterWrite =>
              \/ /\ w.ended /\ w.queue = <<>> /\ ~w.finished /\ w' = [w EXCEPT !.finished = TRUE]
                 /\ Enter(1, FinishFrames)
              \/ (w' = NextWrite(w) \/ w' = [w EXCEPT !.draining = FALSE]) /\ Enter(1, {})
              \/ /\ w' = [w EXCEPT !.draining = FALSE]
                 /\ EnterAt(1, {}, Emit("drain", 0), Len(stack) - 1)
         /\ FinishW => Enter(1, {Emit("wclose", 0)})
         /\ WriteFailed => Enter(1, {Emit("wclose", 0)})
<1>1. ASSUME NEW x \in Legal, stack # <<>>, Then(<<x>>) \/ Then(<<>>)
      PROVE  Enter(1, {x})
  <2>1. EnterAt(1, {}, x, Len(stack) - 1) \/ Enter(1, {})
    BY <1>1, EnterOne
  <2> QED BY <2>1, EnterWider DEF Enter
<1>2. ASSUME AfterWrite
      PROVE  \/ /\ w.ended /\ w.queue = <<>> /\ ~w.finished /\ w' = [w EXCEPT !.finished = TRUE]
                /\ Enter(1, FinishFrames)
             \/ (w' = NextWrite(w) \/ w' = [w EXCEPT !.draining = FALSE]) /\ Enter(1, {})
             \/ /\ w' = [w EXCEPT !.draining = FALSE]
                /\ EnterAt(1, {}, Emit("drain", 0), Len(stack) - 1)
  <2>1. stack # <<>>
    BY <1>2 DEF AfterWrite, At
  <2>2. \/ /\ w.ended /\ w.queue = <<>> /\ ~w.finished /\ w' = [w EXCEPT !.finished = TRUE]
           /\ Then(<<Emit("finish", 0), Do("finishW")>>)
        \/ w' = NextWrite(w) /\ Then(<<>>)
        \/ w' = [w EXCEPT !.draining = FALSE] /\ (Then(<<>>) \/ Then(<<Emit("drain", 0)>>))
    BY <1>2 DEF AfterWrite
  <2>3. Emit("finish", 0) \in Legal /\ Do("finishW") \in Legal /\ Emit("drain", 0) \in Legal
    BY Known
  <2>4. Then(<<Emit("finish", 0), Do("finishW")>>) => Enter(1, FinishFrames)
    BY <2>1, <2>3, EnterTwo, EnterWider DEF FinishFrames
  <2>5. /\ Then(<<>>) => Enter(1, {})
        /\ Then(<<Emit("drain", 0)>>) => EnterAt(1, {}, Emit("drain", 0), Len(stack) - 1)
    BY <2>1, <2>3, EnterOne
  <2> QED BY <2>2, <2>4, <2>5
<1>3. FinishW => Enter(1, {Emit("wclose", 0)})
  BY <1>1, Known DEF FinishW, At
<1>4. WriteFailed => Enter(1, {Emit("wclose", 0)})
  BY <1>1, Known DEF WriteFailed, At
<1> QED BY <1>2, <1>3, <1>4

Begun == [Top EXCEPT !.i = 1, !.n = Len(on[Top.ev]), !.users = Users(Top.ev)]

LEMMA TurnsAlone ==
  ASSUME Base, Turn, Onward(<<>>)
  PROVE  Turned({})
<1> DEFINE fs == <<>>
<1>1. fs \in Seq(Legal) /\ \A k \in DOMAIN fs : fs[k] \in {}
  OBVIOUS
<1>2. Onward(fs)
  OBVIOUS
<1> HIDE DEF fs
<1> QED BY <1>1, <1>2, Turns

LEMMA UsersFinite ==
  ASSUME Base, NEW e \in Events
  PROVE  Users(e) \in Nat /\ Len(on[e]) \in Nat /\ IsFiniteSet({k \in DOMAIN on[e] : on[e][k] = "user"})
<1>1. on[e] \in Seq({"user", "pipe"})
  BY DEF Base
<1>2. Len(on[e]) \in Nat /\ DOMAIN on[e] = 1..Len(on[e])
  BY <1>1
<1>3. IsFiniteSet(1..Len(on[e]))
  BY <1>2, FS_Interval
<1>4. IsFiniteSet({k \in DOMAIN on[e] : on[e][k] = "user"})
  BY <1>2, <1>3, FS_Subset
<1> QED BY <1>2, <1>4, FS_CardinalityType DEF Users

LEMMA EmissionsMove ==
  ASSUME Base
  PROVE  /\ EmitStart => /\ EnterAt(1, {}, Begun, Len(stack) - 1)
                         /\ Begun \in Legal /\ Begun.do = "emit" /\ Begun.ev = Top.ev
                         /\ Begun.arg = Top.arg /\ Begun.i = 1 /\ Begun.n = Len(on[Top.ev])
                         /\ Begun.users = Users(Top.ev) /\ Top.ev \in Events
         /\ EmitEnd => Enter(1, {})
         /\ EmitSkip => Turned({})
         /\ EmitUser => Turned({Script})
<1>1. ASSUME EmitStart
      PROVE  /\ EnterAt(1, {}, Begun, Len(stack) - 1)
             /\ Begun \in Legal /\ Begun.do = "emit" /\ Begun.ev = Top.ev
             /\ Begun.arg = Top.arg /\ Begun.i = 1 /\ Begun.n = Len(on[Top.ev])
             /\ Begun.users = Users(Top.ev) /\ Top.ev \in Events
  <2>1. stack # <<>> /\ Top.do = "emit" /\ Then(<<Begun>>)
    BY <1>1 DEF EmitStart, At, Begun
  <2>2. Top \in Legal /\ Top.ev \in Events
    BY <2>1, StackTyped
  <2>3. PICK one \in Nat, n \in Nat, u \in Int :
          one = 1 /\ n = Len(on[Top.ev]) /\ u = Users(Top.ev)
    <3>1. Len(on[Top.ev]) \in Nat /\ Users(Top.ev) \in Nat
      BY <2>2, UsersFinite
    <3> DEFINE m == Len(on[Top.ev])
               v == Users(Top.ev)
    <3>2. m \in Nat /\ v \in Int /\ 1 \in Nat
      BY <3>1
    <3> HIDE DEF m, v
    <3>3. \E one \in Nat, n \in Nat, u \in Int : one = 1 /\ n = m /\ u = v
      BY <3>2
    <3> QED BY <3>3 DEF m, v
  <2>4. Begun = [Top EXCEPT !.i = one, !.n = n, !.users = u]
    BY <2>3 DEF Begun
  <2>5. /\ Begun \in Legal /\ Begun.do = "emit" /\ Begun.ev = Top.ev
        /\ Begun.arg = Top.arg /\ Begun.i = one /\ Begun.n = n /\ Begun.users = u
    <3>1. Top \in Frame /\ [Top EXCEPT !.i = one, !.n = n, !.users = u] \in Frame
      BY <2>2 DEF Legal, Frame
    <3> QED BY <2>1, <2>2, <2>4, <3>1 DEF Legal, Frame
  <2> QED BY <2>1, <2>2, <2>3, <2>5, EnterOne
<1>2. EmitEnd => Enter(1, {})
  BY EnterOne, Known DEF EmitEnd, At
<1>3. EmitSkip => Turned({})
  BY TurnsAlone DEF EmitSkip
<1>4. ASSUME EmitUser PROVE Turned({Script})
  <2> DEFINE fs == <<Script>>
  <2>1. fs \in Seq(Legal) /\ \A k \in DOMAIN fs : fs[k] \in {Script}
    BY FrameFacts, SingleTyped
  <2>2. Turn /\ Onward(fs)
    BY <1>4 DEF EmitUser
  <2> HIDE DEF fs
  <2> QED BY <2>1, <2>2, Turns
<1> QED BY <1>1, <1>2, <1>3, <1>4

LEMMA EndedTodo ==
  ASSUME NEW n \in Nat, NEW s, FineW(s, n)
  PROVE  \/ Ended(s).todo = <<>> /\ Ended(s).s.finished = s.finished
         \/ Ended(s).todo = FinishTodo /\ Ended(s).s.finished
BY EndedFine

LEMMA PipeMoves ==
  ASSUME Base
  PROVE  /\ PipeData => Turned({})
         /\ PipeDrain => \/ Flows(r, r', <<>>) /\ Turned({})
                         \/ Flows(r, r', EndTodo) /\ Turned(EndFrames)
         /\ PipeEnd => \/ /\ w' = w \/ w' = Ended(w).s
                          /\ w'.finished = w.finished /\ Turned({Do("unpipe")})
                       \/ /\ w' = Ended(w).s /\ w'.finished
                          /\ Turned(FinishFrames \cup {Do("unpipe")})
         /\ Unpipe => Enter(1, {})
         /\ PipeError => Turned({Emit("werror", 0), Do("pipeFailed")})
         /\ PipeFailed => Enter(1, {})
         /\ PipeClose => Turned({})
<1>1. Fine(r) /\ FineW(w, calls) /\ calls \in Nat
  BY DEF Base
<1>2. PipeData => Turned({})
  BY TurnsAlone DEF PipeData
<1>3. ASSUME PipeDrain
      PROVE  \/ Flows(r, r', <<>>) /\ Turned({})
             \/ Flows(r, r', EndTodo) /\ Turned(EndFrames)
  <2>1. \/ r' = Resumed(r).s /\ Onward(Resumed(r).todo)
        \/ r' = r /\ Onward(<<>>)
    BY <1>3 DEF PipeDrain
  <2>2. Flows(r, Resumed(r).s, Resumed(r).todo) /\ Flows(r, r, <<>>)
    BY <1>1, ResumedFlows, FlowFacts
  <2>3. Turn
    BY <1>3 DEF PipeDrain
  <2>4. CASE r' = Resumed(r).s /\ Onward(Resumed(r).todo)
    BY <2>2, <2>3, <2>4, FlowedBy
  <2>5. CASE r' = r /\ Onward(<<>>)
    BY <2>2, <2>3, <2>5, TurnsAlone
  <2> QED BY <2>1, <2>4, <2>5
<1>4. ASSUME PipeEnd
      PROVE  \/ /\ w' = w \/ w' = Ended(w).s
                /\ w'.finished = w.finished /\ Turned({Do("unpipe")})
             \/ /\ w' = Ended(w).s /\ w'.finished
                /\ Turned(FinishFrames \cup {Do("unpipe")})
  <2> DEFINE u == Do("unpipe")
             a == Emit("finish", 0)
             b == Do("finishW")
  <2>0. u \in Legal /\ a \in Legal /\ b \in Legal
    BY Known
  <2>1. \/ w' = Ended(w).s /\ Onward(Ended(w).todo \o <<u>>)
        \/ w' = w /\ Onward(<<>> \o <<u>>)
    BY <1>4 DEF PipeEnd
  <2>2. \/ Ended(w).todo = <<>> /\ Ended(w).s.finished = w.finished
        \/ Ended(w).todo = <<a, b>> /\ Ended(w).s.finished
    BY <1>1, EndedTodo DEF FinishTodo
  <2>3. Turn
    BY <1>4 DEF PipeEnd
  <2> HIDE DEF u, a, b
  <2>4. /\ <<u>> \in Seq(Legal) /\ \A k \in DOMAIN <<u>> : <<u>>[k] \in {u}
        /\ <<a, b>> \in Seq(Legal) /\ \A k \in DOMAIN <<a, b>> : <<a, b>>[k] \in {a, b}
    BY <2>0, SingleTyped, PairTyped
  <2>5. <<>> \o <<u>> = <<u>>
    BY <2>4, ConcatEmptySeq
  <2>6. Onward(<<u>>) => Turned({u})
    BY <2>3, <2>4, Turns
  <2>7. Onward(<<a, b>> \o <<u>>) => Turned({a, b} \cup {u})
    <3> DEFINE p == <<a, b>>
               q == <<u>>
               A == {a, b} \cup {u}
               fs == p \o q
    <3>1. /\ p \in Seq(Legal) /\ \A k \in DOMAIN p : p[k] \in A
          /\ q \in Seq(Legal) /\ \A k \in DOMAIN q : q[k] \in A
      BY <2>4
    <3> HIDE DEF p, q, A
    <3>2. fs \in Seq(Legal) /\ \A k \in DOMAIN fs : fs[k] \in A
      BY <3>1, JoinIn
    <3> HIDE DEF fs
    <3>3. Onward(fs) => Turned(A)
      BY <2>3, <3>2, Turns
    <3> QED BY <3>3 DEF fs, p, q, A
  <2>8. \/ (w' = w \/ w' = Ended(w).s) /\ w'.finished = w.finished /\ Onward(<<u>>)
        \/ w' = Ended(w).s /\ w'.finished /\ Onward(<<a, b>> \o <<u>>)
    BY <2>1, <2>2, <2>5
  <2> QED BY <2>6, <2>7, <2>8 DEF u, a, b, FinishFrames
<1>5. (Unpipe => Enter(1, {})) /\ (PipeFailed => Enter(1, {}))
  BY EnterOne, Known DEF Unpipe, PipeFailed, At
<1>6. ASSUME PipeError PROVE Turned({Emit("werror", 0), Do("pipeFailed")})
  <2> DEFINE fs == <<Emit("werror", 0), Do("pipeFailed")>>
  <2>1. fs \in Seq(Legal) /\ \A k \in DOMAIN fs : fs[k] \in {Emit("werror", 0), Do("pipeFailed")}
    BY Known, PairTyped
  <2>2. Turn /\ Onward(fs)
    BY <1>6 DEF PipeError
  <2> HIDE DEF fs
  <2> QED BY <2>1, <2>2, Turns
<1>7. PipeClose => Turned({})
  BY TurnsAlone DEF PipeClose
<1> QED BY <1>2, <1>3, <1>4, <1>5, <1>6, <1>7

LEMMA ScriptMoves ==
  ASSUME Base
  PROVE  /\ RunScript => Enter(0, {Script})
         /\ ScriptReturns => Enter(1, {})
         /\ ScriptThrows => Enter(2, {Emit("rerror", 0)})
         /\ (OnData \/ OnEnd \/ Pause \/ Pipe \/ Write \/ Cork \/ Uncork) => Enter(0, {})
         /\ Resume => Flowed(0)
         /\ DestroyR => Enter(0, {Emit("rclose", 0)})
         /\ End => \/ w'.finished /\ Enter(0, FinishFrames)
                   \/ w'.finished = w.finished /\ Enter(0, {})
         /\ DestroyW => Enter(0, {Emit("wclose", 0)})
<1>1. Fine(r) /\ FineW(w, calls) /\ calls \in Nat /\ w.queue \in Seq(Chunk) /\ w \in Writable
  BY WritableFacts DEF Base, FineW, Writable
<1>2. ASSUME RunScript PROVE Enter(0, {Script})
  <2>1. Script \in Legal /\ <<Script>> \in Seq(Legal)
    BY FrameFacts, SingleTyped
  <2>2. stack' = <<Script>> \o stack
    BY <1>2, <2>1, IdleEntered DEF RunScript
  <2> QED BY <2>1, <2>2, EnterOne, EnterWider
<1>3. ScriptReturns => Enter(1, {})
  BY EnterOne, Known DEF ScriptReturns, At
<1>4. (OnData \/ OnEnd \/ Pause \/ Pipe \/ Write \/ Cork \/ Uncork) => Enter(0, {})
  BY NoneEntered DEF OnData, OnEnd, Pause, Pipe, Write, Cork, Uncork
<1>5. Resume => Flowed(0)
  BY <1>1, ResumedFlows, FlowedBy DEF Resume
<1>6. DestroyR => Enter(0, {Emit("rclose", 0)})
  BY EnterOne, EnterWider, Known DEF DestroyR
<1>7. DestroyW => Enter(0, {Emit("wclose", 0)})
  BY EnterOne, EnterWider, Known DEF DestroyW
<1>8. ASSUME End
      PROVE  \/ w'.finished /\ Enter(0, FinishFrames)
             \/ w'.finished = w.finished /\ Enter(0, {})
  <2>1. PICK chunk \in {<<>>, <<0>>} :
          /\ w' = Ended([w EXCEPT !.queue = @ \o chunk]).s
          /\ stack' = Ended([w EXCEPT !.queue = @ \o chunk]).todo \o stack
    BY <1>8 DEF End
  <2> DEFINE x == [w EXCEPT !.queue = @ \o chunk]
  <2>2. chunk \in Seq(Chunk)
    <3>1. <<0>> \in Seq(Chunk) /\ <<>> \in Seq(Chunk)
      BY ChunkFacts, SingleTyped
    <3> QED BY <3>1
  <2>3. w.queue \o chunk \in Seq(Chunk)
    BY <1>1, <2>2, JoinTyped
  <2>4. FineW(x, calls) /\ x.finished = w.finished
    BY <1>1, <2>3 DEF FineW, Writable
  <2> HIDE DEF x
  <2>5. w' = Ended(x).s /\ stack' = Ended(x).todo \o stack
    BY <2>1 DEF x
  <2>6. \/ Ended(x).todo = <<>> /\ w'.finished = w.finished
        \/ Ended(x).todo = <<Emit("finish", 0), Do("finishW")>> /\ w'.finished
    BY <1>1, <2>4, <2>5, EndedTodo DEF FinishTodo
  <2>7. CASE Ended(x).todo = <<>> /\ w'.finished = w.finished
    BY <2>5, <2>7, EnterOne, Known
  <2>8. CASE Ended(x).todo = <<Emit("finish", 0), Do("finishW")>> /\ w'.finished
    <3>1. Emit("finish", 0) \in Legal /\ Do("finishW") \in Legal
      BY Known
    <3>2. stack' = <<Emit("finish", 0), Do("finishW")>> \o stack
      BY <2>5, <2>8
    <3> QED BY <2>8, <3>1, <3>2, EnterTwo, EnterWider DEF FinishFrames
  <2> QED BY <2>6, <2>7, <2>8
<1> QED BY <1>2, <1>3, <1>4, <1>5, <1>6, <1>7, <1>8, Thrown

-----------------------------------------------------------------------------
\* How r steps: it only ever ends, and only ReadData moves it.
LEMMA ReaderSteps ==
  ASSUME Base, [Next]_vars
  PROVE  /\ r'.size = r.size /\ (r'.pos = r.pos \/ ReadData)
         /\ (r.ended => r'.ended) /\ (r.destroyed => r'.destroyed)
         /\ (r'.destroyed = r.destroyed \/ ScriptThrows \/ DestroyR)
<1>1. r \in Readable /\ Fine(r)
  BY DEF Base, Fine
<1> DEFINE Goal == /\ r'.size = r.size /\ (r'.pos = r.pos \/ ReadData)
                   /\ (r.ended => r'.ended) /\ (r.destroyed => r'.destroyed)
                   /\ (r'.destroyed = r.destroyed \/ ScriptThrows \/ DestroyR)
<1>2. ASSUME NEW todo, Flows(r, r', todo) PROVE Goal
  BY <1>2 DEF Flows
<1>3. CASE UNCHANGED r
  BY <1>3
<1>4. CASE DeferredRead \/ Resume
  BY <1>2, <1>4, ReadsMove, ScriptMoves DEF Flowed
<1>5. CASE AfterData
  <2>1. CASE r' = [r EXCEPT !.ended = TRUE]
    BY <1>1, <2>1 DEF Readable
  <2> QED BY <1>2, <1>5, <2>1, ReadFramesMove DEF Flowed
<1>6. CASE PipeDrain
  BY <1>2, <1>6, PipeMoves
<1>7. CASE PipeData \/ OnData \/ OnEnd \/ Pause \/ Pipe
  <2>1. \/ r' = r \/ r' = Paused(r) \/ r' = Started(r) \/ r' = [Paused(r) EXCEPT !.held = TRUE]
    BY <1>7 DEF PipeData, OnData, OnEnd, Pause, Pipe
  <2> QED BY <1>1, <1>2, <2>1, FlowFacts
<1>8. CASE ReadDropped \/ ReadError \/ ReadNothing \/ CloseR \/ EndOfRead \/ ReadFailed
  BY <1>1, <1>8 DEF ReadDropped, ReadError, ReadNothing, CloseR, EndOfRead, ReadFailed, Readable
<1>9. CASE ReadData
  BY <1>1, <1>9 DEF ReadData, Readable
<1>10. CASE ScriptThrows \/ DestroyR
  BY <1>1, <1>10 DEF ScriptThrows, DestroyR, Readable
<1>11. CASE WriteCompletes
  BY <1>3, <1>11 DEF WriteCompletes, WriteDropped, WriteDone, WriteError
<1>12. CASE \/ AfterWrite \/ FinishW \/ WriteFailed \/ EmitStart \/ EmitEnd \/ EmitSkip \/ EmitUser
            \/ PipeEnd \/ Unpipe \/ PipeError \/ PipeFailed \/ PipeClose
  BY <1>3, <1>12 DEF AfterWrite, FinishW, WriteFailed, EmitStart, EmitEnd, EmitSkip, EmitUser,
                     PipeEnd, Unpipe, PipeError, PipeFailed, PipeClose
<1>13. CASE ScriptReturns \/ RunScript \/ Write \/ End \/ DestroyW \/ Cork \/ Uncork
  BY <1>3, <1>13 DEF ScriptReturns, RunScript, Write, End, DestroyW, Cork, Uncork
<1>14. CASE UNCHANGED vars
  BY <1>3, <1>14 DEF vars
<1> QED BY <1>4, <1>5, <1>6, <1>7, <1>8, <1>9, <1>10, <1>11, <1>12, <1>13, <1>14
        DEF Next, Native, ReadCompletes, ScriptCalls

\* The file of a readable is open until its end or its destruction.
Closing(f) == f.do \in {"closeR", "endOfRead"}
OpenInv ==
  /\ ~r.ended /\ ~r.destroyed => r.open
  /\ \A k \in DOMAIN stack : Closing(stack[k]) => r.ended

LEMMA OpenBy ==
  ASSUME Base, OpenInv, r.ended => r'.ended, ~r'.ended /\ ~r'.destroyed => r'.open,
         \A k \in DOMAIN stack' :
           \/ \E j \in DOMAIN stack : stack'[k].do = stack[j].do
           \/ ~Closing(stack'[k]) \/ r'.ended
  PROVE  OpenInv'
BY DEF OpenInv, Closing

LEMMA OpenFlows ==
  ASSUME Base, OpenInv,
         \/ \E n : Flowed(n)
         \/ Turn /\ Flows(r, r', <<>>) /\ Turned({})
         \/ Turn /\ Flows(r, r', EndTodo) /\ Turned(EndFrames)
  PROVE  OpenInv'
<1>1. <<>> # EndTodo
  BY DEF EndTodo
<1>2. CASE Flows(r, r', <<>>) /\ ((\E n : Enter(n, {})) \/ (Turn /\ Turned({})))
  <2>1. (r.ended => r'.ended) /\ (~r'.ended /\ ~r'.destroyed => r'.open)
    BY <1>1, <1>2 DEF Flows, OpenInv
  <2>2. \A k \in DOMAIN stack' : \E j \in DOMAIN stack : stack'[k].do = stack[j].do
    BY <1>2, AdvanceFacts DEF Enter, Turned, EnterAt, Below
  <2> QED BY <2>1, <2>2, OpenBy
<1>3. CASE Flows(r, r', EndTodo)
  <2>1. r'.ended
    BY <1>1, <1>3 DEF Flows
  <2> QED BY <2>1, OpenBy
<1> QED BY <1>2, <1>3 DEF Flowed

LEMMA OpenKept == ASSUME Base, OpenInv, [Next]_vars PROVE OpenInv'
<1>1. r \in Readable /\ Fine(r) /\ (r.ended => r'.ended)
  BY ReaderSteps DEF Base, Fine
<1>2. CASE DeferredRead \/ Resume \/ PipeDrain
  BY <1>2, OpenFlows, ReadsMove, ScriptMoves, PipeMoves DEF PipeDrain
<1>3. CASE AfterData
  <2>1. CASE r' = [r EXCEPT !.ended = TRUE]
    <3>1. r'.ended
      BY <1>1, <2>1 DEF Readable
    <3> QED BY <3>1, OpenBy
  <2> QED BY <1>3, <2>1, OpenFlows, ReadFramesMove
<1>4. CASE ReadNothing \/ ReadFailed \/ ScriptThrows \/ DestroyR
  <2>1. r'.ended
    BY <1>1, <1>4 DEF ReadNothing, ReadFailed, ScriptThrows, DestroyR, Readable
  <2> QED BY <2>1, OpenBy
<1>5. CASE CloseR \/ EndOfRead
  <2>1. Closing(stack[1]) /\ 1 \in DOMAIN stack
    BY <1>5, TailTyped DEF Base, CloseR, EndOfRead, At, Top, Closing
  <2>2. r'.ended
    BY <1>1, <2>1 DEF OpenInv
  <2> QED BY <2>2, OpenBy
<1>6. CASE ReadDropped \/ ReadError \/ ReadData
  <2>1. r'.ended = r.ended /\ r'.destroyed = r.destroyed /\ r'.open = r.open
    BY <1>1, <1>6 DEF ReadDropped, ReadError, ReadData, Readable
  <2>2. \A k \in DOMAIN stack' :
           (\E j \in DOMAIN stack : stack'[k].do = stack[j].do) \/ ~Closing(stack'[k])
    <3>1. CASE ReadDropped \/ ReadError
      BY <3>1, ReadsMove, Known DEF Enter, Below, Closing
    <3>2. CASE ReadData
      BY <3>2, ReadsMove, Known, FrameFacts, EventFacts DEF Closing
    <3> QED BY <1>6, <3>1, <3>2
  <2> QED BY <1>1, <2>1, <2>2, OpenBy DEF OpenInv
<1>7. CASE PipeData \/ OnData \/ OnEnd \/ Pause \/ Pipe
  <2>1. \/ r' = r \/ r' = Paused(r) \/ r' = Started(r) \/ r' = [Paused(r) EXCEPT !.held = TRUE]
    BY <1>7 DEF PipeData, OnData, OnEnd, Pause, Pipe
  <2>2. Flows(r, r', <<>>)
    BY <1>1, <2>1, FlowFacts
  <2>3. Enter(0, {}) \/ (Turn /\ Turned({}))
    BY <1>7, ScriptMoves, PipeMoves DEF PipeData
  <2> QED BY <2>2, <2>3, OpenFlows DEF Flowed
<1>8. ASSUME UNCHANGED r,
             \A k \in DOMAIN stack' :
               (\E j \in DOMAIN stack : stack'[k].do = stack[j].do) \/ ~Closing(stack'[k])
      PROVE  OpenInv'
  BY <1>8, OpenBy DEF OpenInv
<1>9. CASE WriteCompletes
  <2>1. UNCHANGED r
    BY <1>9 DEF WriteCompletes, WriteDropped, WriteDone, WriteError
  <2>2. Enter(0, {Emit("werror", 0), Script, Do("writeFailed"), Do("afterWrite")})
    BY <1>9, WritesMove DEF WriteCompletes, Enter, EnterAt
  <2> QED BY <1>8, <2>1, <2>2, Known, FrameFacts DEF Enter, Below, Closing
<1>10. CASE AfterWrite \/ FinishW \/ WriteFailed
  BY <1>8, <1>10, WriteFramesMove, Known
     DEF AfterWrite, FinishW, WriteFailed, Enter, EnterAt, Below, Closing, FinishFrames
<1>11. CASE EmitStart \/ EmitEnd \/ EmitSkip \/ EmitUser
  <2>1. UNCHANGED r
    BY <1>11 DEF EmitStart, EmitEnd, EmitSkip, EmitUser
  <2>2. \A k \in DOMAIN stack' :
          (\E j \in DOMAIN stack : stack'[k].do = stack[j].do) \/ ~Closing(stack'[k])
    <3>1. CASE EmitStart
      BY <3>1, EmissionsMove DEF EnterAt, Below, Closing
    <3>2. CASE EmitEnd
      BY <3>2, EmissionsMove DEF Enter, Below
    <3>3. CASE EmitSkip \/ EmitUser
      BY <3>3, EmissionsMove, AdvanceFacts, FrameFacts
         DEF EmitSkip, EmitUser, Turned, EnterAt, Below, Closing
    <3> QED BY <1>11, <3>1, <3>2, <3>3
  <2> QED BY <1>8, <2>1, <2>2
<1>12. CASE PipeEnd \/ PipeError \/ PipeClose
  <2>1. UNCHANGED r /\ Turn
    BY <1>12 DEF PipeEnd, PipeError, PipeClose
  <2>2. Turned(FinishFrames \cup {Do("unpipe"), Emit("werror", 0), Do("pipeFailed")})
    BY <1>12, PipeMoves DEF Turned, EnterAt
  <2> QED BY <1>8, <2>1, <2>2, AdvanceFacts, Known DEF Turned, EnterAt, Below, Closing, FinishFrames
<1>13. CASE Unpipe \/ PipeFailed \/ ScriptReturns
  BY <1>8, <1>13, PipeMoves, ScriptMoves DEF Unpipe, PipeFailed, ScriptReturns, Enter, Below
<1>14. CASE RunScript \/ Write \/ End \/ DestroyW \/ Cork \/ Uncork
  <2>1. UNCHANGED r
    BY <1>14 DEF RunScript, Write, End, DestroyW, Cork, Uncork
  <2>2. Enter(0, FinishFrames \cup {Script, Emit("wclose", 0)})
    BY <1>14, ScriptMoves DEF Enter
  <2> QED BY <1>8, <2>1, <2>2, Known, FrameFacts DEF Enter, Below, Closing, FinishFrames
<1>15. CASE UNCHANGED vars
  BY <1>15 DEF vars, OpenInv, Closing
<1> QED BY <1>2, <1>3, <1>4, <1>5, <1>6, <1>7, <1>9, <1>10, <1>11, <1>12, <1>13, <1>14, <1>15
        DEF Next, Native, ReadCompletes, ScriptCalls

-----------------------------------------------------------------------------
\* Every function under way after a step was there before it, or is one of those
\* that the step enters.
Same(k) == \E j \in DOMAIN stack : stack'[k] = stack[j] /\ Len(stack') - k = Len(stack) - j
Atop(k) == Len(stack') - k = Len(stack) - 1
Entered(k) ==
  LET f == stack'[k] IN
  \/ f = Script
  \/ Turn /\ f = Advance /\ Atop(k)
  \/ EmitStart /\ f = Begun /\ Atop(k)
  \/ ReadData /\ f = Emit("data", r.pos + 1) /\ Len(stack') - k = 1 /\ r.pos + 1 \in Chunk
  \/ ReadData /\ f = Do("afterData") /\ Len(stack') - k = 0
  \/ /\ DeferredRead \/ AfterData \/ Resume \/ PipeDrain
     /\ Flows(r, r', EndTodo) /\ f \in EndFrames
  \/ (AfterData \/ ReadNothing) /\ r'.ended /\ f \in {Emit("end", 0), Do("closeR")}
  \/ ReadError /\ f \in {Emit("rerror", 0), Do("readFailed")}
  \/ (CloseR \/ DestroyR) /\ f = Emit("rclose", 0)
  \/ WriteDone /\ f = Do("afterWrite") /\ Len(stack') - k = 0
  \/ WriteError /\ f \in {Emit("werror", 0), Do("writeFailed")}
  \/ AfterWrite /\ f = Emit("drain", 0) /\ Atop(k)
  \/ (AfterWrite \/ PipeEnd \/ End) /\ w'.finished /\ f \in FinishFrames
  \/ (FinishW \/ WriteFailed \/ DestroyW) /\ f = Emit("wclose", 0)
  \/ PipeEnd /\ f = Do("unpipe")
  \/ PipeError /\ f \in {Emit("werror", 0), Do("pipeFailed")}
  \/ ScriptThrows /\ f = Emit("rerror", 0)

LEMMA Entrances ==
  ASSUME Base, [Next]_vars
  PROVE  \A k \in DOMAIN stack' : Same(k) \/ Entered(k)
<1> SUFFICES ASSUME NEW k \in DOMAIN stack' PROVE Same(k) \/ Entered(k)
  OBVIOUS
<1>1. \A n : Below(n, k) => Same(k)
  BY DEF Below, Same
<1>2. \A n, S : Enter(n, S) => Same(k) \/ stack'[k] \in S
  BY <1>1 DEF Enter
<1>3. \A n, S, f, d : EnterAt(n, S, f, d) =>
         Same(k) \/ stack'[k] \in S \/ (stack'[k] = f /\ Len(stack') - k = d)
  BY <1>1 DEF EnterAt
<1>4. \A S : Turned(S) => Same(k) \/ stack'[k] \in S \/ (stack'[k] = Advance /\ Atop(k))
  BY <1>3 DEF Turned, Atop
<1>5. r \in Readable /\ w \in Writable
  BY DEF Base, Fine, FineW
<1>6. \A n : Flowed(n) => Same(k) \/ (Flows(r, r', EndTodo) /\ stack'[k] \in EndFrames)
  BY <1>2 DEF Flowed
<1> HIDE DEF Same
<1>7. CASE DeferredRead \/ Resume
  BY <1>6, <1>7, ReadsMove, ScriptMoves DEF Entered
<1>8. CASE ReadDropped \/ ReadError \/ ReadNothing
  <2>1. ReadNothing => r'.ended
    BY <1>5 DEF ReadNothing, Readable
  <2> QED BY <1>2, <1>8, <2>1, ReadsMove DEF Entered
<1>9. CASE ReadData
  <2>1. k = 1 \/ k = 2
    BY <1>9, ReadsMove
  <2>2. CASE k = 1
    BY <1>9, <2>2, ReadsMove DEF Entered
  <2>3. CASE k = 2
    BY <1>9, <2>3, ReadsMove DEF Entered
  <2> QED BY <2>1, <2>2, <2>3
<1>10. CASE AfterData
  <2>1. r' = [r EXCEPT !.ended = TRUE] => r'.ended
    BY <1>5 DEF Readable
  <2> QED BY <1>2, <1>6, <1>10, <2>1, ReadFramesMove DEF Entered
<1>11. CASE CloseR \/ EndOfRead \/ ReadFailed
  BY <1>2, <1>11, ReadFramesMove DEF Entered
<1>12. CASE WriteDropped \/ WriteError
  BY <1>2, <1>12, WritesMove DEF Entered
<1>13. CASE WriteDone
  BY <1>3, <1>13, WritesMove DEF Entered
<1>14. CASE AfterWrite
  <2>1. w' = [w EXCEPT !.finished = TRUE] => w'.finished
    BY <1>5 DEF Writable
  <2>2. Len(stack') - k = Len(stack) - 1 <=> Atop(k)
    BY DEF Atop
  <2> QED BY <1>2, <1>3, <1>14, <2>1, <2>2, WriteFramesMove DEF Entered
<1>15. CASE FinishW \/ WriteFailed
  BY <1>2, <1>15, WriteFramesMove DEF Entered
<1>16. CASE EmitStart
  BY <1>3, <1>16, EmissionsMove DEF Entered, Atop
<1>17. CASE EmitEnd
  BY <1>2, <1>17, EmissionsMove
<1>18. CASE EmitSkip \/ EmitUser
  <2>1. Turn
    BY <1>18 DEF EmitSkip, EmitUser
  <2> QED BY <1>4, <1>18, <2>1, EmissionsMove DEF Entered
<1>19. CASE PipeData \/ PipeDrain \/ PipeEnd \/ PipeError \/ PipeClose
  <2>1. Turn
    BY <1>19 DEF PipeData, PipeDrain, PipeEnd, PipeError, PipeClose
  <2>2. CASE PipeDrain
    BY <1>4, <2>1, <2>2, PipeMoves DEF Entered
  <2>3. CASE PipeEnd
    BY <1>4, <2>1, <2>3, PipeMoves DEF Entered
  <2>4. CASE PipeError
    BY <1>4, <2>1, <2>4, PipeMoves DEF Entered
  <2>5. CASE PipeData \/ PipeClose
    BY <1>4, <2>1, <2>5, PipeMoves DEF Entered
  <2> QED BY <1>19, <2>2, <2>3, <2>4, <2>5
<1>20. CASE Unpipe \/ PipeFailed \/ ScriptReturns
  BY <1>2, <1>20, PipeMoves, ScriptMoves
<1>21. CASE RunScript \/ ScriptThrows \/ DestroyR \/ DestroyW
  BY <1>2, <1>21, ScriptMoves DEF Entered
<1>22. CASE OnData \/ OnEnd \/ Pause \/ Pipe \/ Write \/ Cork \/ Uncork
  BY <1>2, <1>22, ScriptMoves
<1>23. CASE End
  BY <1>2, <1>23, ScriptMoves DEF Entered
<1>24. CASE UNCHANGED vars
  BY <1>24 DEF vars, Same
<1> QED BY <1>7, <1>8, <1>9, <1>10, <1>11, <1>12, <1>13, <1>14, <1>15, <1>16, <1>17, <1>18,
           <1>19, <1>20, <1>21, <1>22, <1>23, <1>24
        DEF Next, Native, ReadCompletes, WriteCompletes, ScriptCalls

-----------------------------------------------------------------------------
\* The vectors of listeners, under the contract that the script listens to data
\* and end before it pipes: its own listener comes first, then the pipe's handler.
Piped(e) == pipe = "piping" /\ e \in ReadEvents \cup {"drain"}
Leads(v) == Len(v) > 0 /\ v[1] = "user"
OnInv ==
  \A e \in Events :
    \/ ~Piped(e) /\ Len(on[e]) = 0
    \/ Piped(e) /\ Len(on[e]) = 1 /\ on[e][1] = "pipe"
    \/ ~Piped(e) /\ e \in {"data", "end"} /\ Len(on[e]) = 1 /\ on[e][1] = "user"
    \/ /\ Piped(e) /\ e \in {"data", "end"}
       /\ Len(on[e]) = 2 /\ on[e][1] = "user" /\ on[e][2] = "pipe"

LEMMA Vectors ==
  ASSUME Base, NEW e \in Events
  PROVE  /\ on[e] \in Seq({"user", "pipe"}) /\ Len(on[e]) \in Nat /\ DOMAIN on[e] = 1..Len(on[e])
         /\ \A x \in {"user", "pipe"} :
              /\ Append(on[e], x) \in Seq({"user", "pipe"})
              /\ Len(Append(on[e], x)) = Len(on[e]) + 1
              /\ Append(on[e], x)[Len(on[e]) + 1] = x
              /\ \A k \in 1..Len(on[e]) : Append(on[e], x)[k] = on[e][k]
BY DEF Base

\* cleanup_pipe takes the handler out and leaves the script's listener in front.
LEMMA UnpipedFacts ==
  ASSUME Base, OnInv, NEW e \in Events
  PROVE  \/ ~Leads(on[e]) /\ Len(Unpiped[e]) = 0
         \/ /\ Leads(on[e]) /\ e \in {"data", "end"}
            /\ Len(Unpiped[e]) = 1 /\ Unpiped[e][1] = "user"
<1> DEFINE s == on[e]
           c == CHOOSE k \in DOMAIN s : s[k] = "pipe"
<1>1. Unpiped[e] = IF Contains(s, "pipe") THEN RemoveAt(s, c) ELSE s
  BY DEF Unpiped
<1>2. /\ s \in Seq({"user", "pipe"}) /\ Len(s) \in Nat /\ DOMAIN s = 1..Len(s)
      /\ \/ Len(s) = 0
         \/ Len(s) = 1 /\ s[1] = "pipe"
         \/ e \in {"data", "end"} /\ Len(s) = 1 /\ s[1] = "user"
         \/ e \in {"data", "end"} /\ Len(s) = 2 /\ s[1] = "user" /\ s[2] = "pipe"
  BY Vectors DEF OnInv
<1>3. Leads(on[e]) <=> Len(s) > 0 /\ s[1] = "user"
  BY DEF Leads
<1>4. Contains(s, "pipe") <=> \E k \in DOMAIN s : s[k] = "pipe"
  BY <1>2 DEF Contains
<1>5. (\E k \in DOMAIN s : s[k] = "pipe") => c \in DOMAIN s /\ s[c] = "pipe"
  OBVIOUS
<1> HIDE DEF s, c
<1>6. CASE Len(s) = 0 \/ (e \in {"data", "end"} /\ Len(s) = 1 /\ s[1] = "user")
  <2>1. ~Contains(s, "pipe")
    BY <1>2, <1>4, <1>6
  <2> QED BY <1>1, <1>2, <1>3, <1>6, <2>1
<1>7. CASE Len(s) = 1 /\ s[1] = "pipe"
  <2>1. c = 1 /\ Contains(s, "pipe")
    BY <1>2, <1>4, <1>5, <1>7
  <2>2. RemoveAt(s, 1) = SubSeq(s, 1, 0) \o SubSeq(s, 2, 1)
    BY <1>7 DEF RemoveAt
  <2>3. Len(SubSeq(s, 1, 0)) = 0 /\ Len(SubSeq(s, 2, 1)) = 0
        /\ SubSeq(s, 1, 0) \in Seq({"user", "pipe"}) /\ SubSeq(s, 2, 1) \in Seq({"user", "pipe"})
    BY <1>2, <1>7
  <2>4. Len(RemoveAt(s, 1)) = 0
    BY <2>2, <2>3, JoinTyped
  <2> QED BY <1>1, <1>3, <1>7, <2>1, <2>4
<1>8. CASE e \in {"data", "end"} /\ Len(s) = 2 /\ s[1] = "user" /\ s[2] = "pipe"
  <2>1. c = 2 /\ Contains(s, "pipe")
    BY <1>2, <1>4, <1>5, <1>8
  <2> DEFINE a == SubSeq(s, 1, 1)
             b == SubSeq(s, 3, 2)
  <2>2. RemoveAt(s, 2) = a \o b
    BY <1>8 DEF RemoveAt
  <2>3. /\ a \in Seq({"user", "pipe"}) /\ Len(a) = 1 /\ a[1] = "user" /\ DOMAIN a = 1..1
        /\ b \in Seq({"user", "pipe"}) /\ Len(b) = 0
    BY <1>2, <1>8
  <2> HIDE DEF a, b
  <2>4. b = <<>>
    BY <2>3
  <2>5. RemoveAt(s, 2) = a
    BY <2>2, <2>3, <2>4, ConcatEmptySeq
  <2> QED BY <1>1, <1>3, <1>8, <2>1, <2>3, <2>5
<1> QED BY <1>2, <1>6, <1>7, <1>8

LEMMA OnStarts == Init => OnInv
BY DEF Init, OnInv, Piped

\* What a step does to the vectors.
LEMMA VectorSteps ==
  ASSUME [Next]_vars
  PROVE  \/ UNCHANGED <<on, pipe>>
         \/ /\ Cleanup
            /\ (PipeData /\ (w.destroyed \/ w.ended)) \/ Unpipe \/ PipeFailed \/ PipeClose
         \/ OnData \/ OnEnd \/ Pipe
<1>1. CASE PipeData
  BY <1>1 DEF PipeData
<1>2. CASE Unpipe \/ PipeFailed \/ PipeClose
  BY <1>2 DEF Unpipe, PipeFailed, PipeClose
<1>3. CASE \/ AfterData \/ CloseR \/ EndOfRead \/ ReadFailed \/ AfterWrite \/ FinishW \/ WriteFailed
           \/ EmitStart \/ EmitEnd \/ EmitSkip \/ EmitUser \/ PipeDrain \/ PipeEnd \/ PipeError
  BY <1>3 DEF AfterData, CloseR, EndOfRead, ReadFailed, AfterWrite, FinishW, WriteFailed,
              EmitStart, EmitEnd, EmitSkip, EmitUser, PipeDrain, PipeEnd, PipeError
<1>4. CASE DeferredRead \/ ReadCompletes \/ WriteCompletes \/ ScriptReturns
  BY <1>4 DEF DeferredRead, ReadCompletes, ReadDropped, ReadData, ReadError, ReadNothing,
              WriteCompletes, WriteDropped, WriteDone, WriteError, ScriptReturns
<1>5. CASE \/ RunScript \/ ScriptThrows \/ Pause \/ Resume \/ DestroyR \/ Write \/ End
           \/ DestroyW \/ Cork \/ Uncork
  BY <1>5 DEF RunScript, ScriptThrows, Pause, Resume, DestroyR, Write, End, DestroyW, Cork, Uncork
<1>6. CASE UNCHANGED vars
  BY <1>6 DEF vars
<1> QED BY <1>1, <1>2, <1>3, <1>4, <1>5, <1>6 DEF Next, Native, ScriptCalls

LEMMA OnKept ==
  ASSUME Careless = {}, Base, OnInv, [Next]_vars
  PROVE  OnInv'
<1>1. "data" \in Events /\ "end" \in Events
  BY EventFacts
<1>2. CASE UNCHANGED <<on, pipe>>
  BY <1>2 DEF OnInv, Piped
<1>3. CASE Cleanup
  <2>1. on' = Unpiped /\ pipe' = "done"
    BY <1>3 DEF Cleanup
  <2> QED BY <2>1, UnpipedFacts DEF OnInv, Piped
<1>4. CASE OnData \/ OnEnd
  <2>1. PICK x \in {"data", "end"} :
          on' = [on EXCEPT ![x] = Append(@, "user")] /\ ~Contains(on[x], "user")
    BY <1>4 DEF OnData, OnEnd
  <2>2. pipe # "piping" /\ pipe' = pipe
    BY <1>4 DEF OnData, OnEnd, MayListen
  <2>3. Len(on[x]) = 0
    <3>1. ~Leads(on[x])
      BY <1>1, <2>1, Vectors DEF Leads, Contains
    <3> QED BY <1>1, <2>2, <3>1 DEF OnInv, Piped, Leads
  <2>4. \A e \in Events : on'[e] = IF e = x THEN Append(on[e], "user") ELSE on[e]
    BY <2>1 DEF Base
  <2>5. Len(on'[x]) = 1 /\ on'[x][1] = "user"
    <3>1. x \in Events /\ on'[x] = Append(on[x], "user")
      BY <1>1, <2>4
    <3>2. Len(on'[x]) = Len(on[x]) + 1 /\ on'[x][Len(on[x]) + 1] = "user"
      BY <3>1, Vectors
    <3>3. Len(on[x]) + 1 = 1
      BY <2>3
    <3> QED BY <3>2, <3>3
  <2> QED BY <2>1, <2>2, <2>4, <2>5 DEF OnInv, Piped
<1>5. CASE Pipe
  <2>1. pipe = "none" /\ pipe' = "piping"
    BY <1>5 DEF Pipe
  <2>2. \A e \in Events : on'[e] = IF e \in ReadEvents \cup {"drain"}
                                   THEN Append(on[e], "pipe") ELSE on[e]
    BY <1>5 DEF Pipe
  <2>3. SUFFICES ASSUME NEW e \in Events
                 PROVE  \/ ~Piped(e)' /\ Len(on'[e]) = 0
                        \/ Piped(e)' /\ Len(on'[e]) = 1 /\ on'[e][1] = "pipe"
                        \/ /\ Piped(e)' /\ e \in {"data", "end"}
                           /\ Len(on'[e]) = 2 /\ on'[e][1] = "user" /\ on'[e][2] = "pipe"
    BY DEF OnInv
  <2>4. \/ Len(on[e]) = 0
        \/ e \in {"data", "end"} /\ Len(on[e]) = 1 /\ on[e][1] = "user"
    BY <2>1 DEF OnInv, Piped
  <2>5. CASE e \in ReadEvents \cup {"drain"}
    <3>1. Piped(e)' /\ on'[e] = Append(on[e], "pipe")
      BY <2>1, <2>2, <2>5 DEF Piped
    <3>2. /\ Len(on'[e]) = Len(on[e]) + 1 /\ on'[e][Len(on[e]) + 1] = "pipe"
          /\ \A k \in 1..Len(on[e]) : on'[e][k] = on[e][k]
      BY <3>1, Vectors
    <3> QED BY <2>4, <3>1, <3>2
  <2>6. CASE e \notin ReadEvents \cup {"drain"}
    <3>1. ~Piped(e)' /\ on'[e] = on[e]
      BY <2>2, <2>6 DEF Piped
    <3>2. e \notin {"data", "end"}
      BY <2>6 DEF ReadEvents
    <3> QED BY <2>4, <3>1, <3>2
  <2> QED BY <2>5, <2>6
<1> QED BY <1>2, <1>3, <1>4, <1>5, VectorSteps

\* The script's listeners stay where they are.
LEMMA UsersStay ==
  ASSUME Careless = {}, Base, OnInv, [Next]_vars, NEW e \in Events
  PROVE  \/ Leads(on'[e]) = Leads(on[e])
         \/ OnData /\ e = "data"
         \/ OnEnd /\ e = "end"
<1>1. CASE UNCHANGED <<on, pipe>>
  BY <1>1 DEF Leads
<1>2. CASE Cleanup
  BY <1>2, UnpipedFacts DEF Cleanup, Leads
<1>3. CASE OnData \/ OnEnd
  <2>1. OnData => e = "data" \/ on'[e] = on[e]
    BY DEF OnData, Base
  <2>2. OnEnd => e = "end" \/ on'[e] = on[e]
    BY DEF OnEnd, Base
  <2> QED BY <1>3, <2>1, <2>2 DEF Leads
<1>4. CASE Pipe
  <2>1. on'[e] = Append(on[e], "pipe") \/ on'[e] = on[e]
    BY <1>4 DEF Pipe
  <2>2. CASE on'[e] = on[e]
    BY <2>2 DEF Leads
  <2>3. CASE on'[e] = Append(on[e], "pipe")
    <3>1. /\ Len(on'[e]) = Len(on[e]) + 1 /\ on'[e][Len(on[e]) + 1] = "pipe" /\ Len(on[e]) \in Nat
          /\ \A k \in 1..Len(on[e]) : on'[e][k] = on[e][k]
      BY <2>3, Vectors
    <3>2. CASE Len(on[e]) = 0
      <4>1. on'[e][1] = "pipe"
        BY <3>1, <3>2
      <4> QED BY <3>2, <4>1 DEF Leads
    <3>3. CASE Len(on[e]) > 0
      <4>1. on'[e][1] = on[e][1] /\ Len(on'[e]) > 0
        BY <3>1, <3>3
      <4> QED BY <3>3, <4>1 DEF Leads
    <3> QED BY <3>1, <3>2, <3>3
  <2> QED BY <2>1, <2>2, <2>3
<1> QED BY <1>1, <1>2, <1>3, <1>4, VectorSteps

-----------------------------------------------------------------------------
\* Where the functions lie. What follows a completion, and the emission of drain,
\* has nothing below it; the data of a read is emitted right above what follows
\* it; no stream ends while a completed write is being dealt with.
IsEmit(f, e) == f.do = "emit" /\ f.ev = e
Rooted(f) == f.do \in {"afterData", "afterWrite"} \/ IsEmit(f, "drain")
PlaceInv ==
  /\ \A k \in DOMAIN stack :
       /\ Rooted(stack[k]) => Len(stack) - k = 0
       /\ IsEmit(stack[k], "data") => Len(stack) - k = 1
  /\ \A j, k \in DOMAIN stack : IsEmit(stack[j], "end") => stack[k].do # "afterWrite"

\* The function on top, and no other, may step.
LEMMA TopFacts ==
  ASSUME Base, stack # <<>>
  PROVE  1 \in DOMAIN stack /\ Top = stack[1] /\ Len(stack) \in Nat /\ Len(stack) > 0
         /\ DOMAIN stack = 1..Len(stack)
BY TailTyped, Lengths DEF Base, Top

LEMMA Rooting ==
  ASSUME Base, PlaceInv, [Next]_vars, NEW k \in DOMAIN stack'
  PROVE  /\ Rooted(stack'[k]) => Len(stack') - k = 0
         /\ IsEmit(stack'[k], "data") => Len(stack') - k = 1
<1>1. Same(k) \/ Entered(k)
  BY Entrances
<1>2. CASE Same(k)
  BY <1>2 DEF Same, PlaceInv
<1>3. CASE (Turn /\ stack'[k] = Advance /\ Atop(k)) \/ (EmitStart /\ stack'[k] = Begun /\ Atop(k))
  <2>1. stack # <<>> /\ Top.do = "emit"
    BY <1>3 DEF Turn, EmitStart, At
  <2>2. stack'[k].do = stack[1].do /\ stack'[k].ev = stack[1].ev /\ 1 \in DOMAIN stack
    BY <1>3, <2>1, TopFacts, AdvanceFacts, EmissionsMove
  <2> QED BY <1>3, <2>2 DEF PlaceInv, Atop, Rooted, IsEmit
<1>4. CASE AfterWrite /\ stack'[k] = Emit("drain", 0) /\ Atop(k)
  <2>1. Rooted(stack[1]) /\ 1 \in DOMAIN stack
    BY <1>4, TopFacts DEF AfterWrite, At, Rooted
  <2> QED BY <1>4, <2>1, Known DEF PlaceInv, Atop, Rooted, IsEmit
<1>5. CASE ReadData /\ stack'[k] = Emit("data", r.pos + 1) /\ Len(stack') - k = 1
           /\ r.pos + 1 \in Chunk
  BY <1>5, FrameFacts, EventFacts DEF Rooted, IsEmit
<1>6. CASE (ReadData /\ stack'[k] = Do("afterData") /\ Len(stack') - k = 0)
           \/ (WriteDone /\ stack'[k] = Do("afterWrite") /\ Len(stack') - k = 0)
  BY <1>6, Known DEF Rooted, IsEmit
<1>7. CASE \/ stack'[k] = Script \/ stack'[k] \in EndFrames \/ stack'[k] \in FinishFrames
           \/ stack'[k] \in {Emit("end", 0), Do("closeR"), Emit("rerror", 0), Do("readFailed"),
                             Emit("rclose", 0), Emit("werror", 0), Do("writeFailed"),
                             Emit("wclose", 0), Do("unpipe"), Do("pipeFailed")}
  BY <1>7, Known, FrameFacts DEF EndFrames, FinishFrames, Rooted, IsEmit
<1> QED BY <1>1, <1>2, <1>3, <1>4, <1>5, <1>6, <1>7 DEF Entered

LEMMA Apart ==
  ASSUME Careless = {}, Base, OpenInv, PlaceInv, [Next]_vars,
         NEW j \in DOMAIN stack', NEW k \in DOMAIN stack', IsEmit(stack'[j], "end")
  PROVE  stack'[k].do # "afterWrite"
<1>1. CASE WriteDone
  <2>1. EnterAt(0, {Script}, Do("afterWrite"), 0) /\ DOMAIN stack = {}
    BY <1>1, WritesMove DEF WriteDone, Idle
  <2>2. stack'[j] \in {Script, Do("afterWrite")}
    BY <2>1 DEF EnterAt, Below
  <2> QED BY <2>2, Known, FrameFacts DEF IsEmit
<1>2. CASE ~WriteDone
  <2> SUFFICES ASSUME stack'[k].do = "afterWrite" PROVE FALSE
    OBVIOUS
  <2>1. Same(k)
    <3>1. CASE (Turn /\ stack'[k] = Advance) \/ (EmitStart /\ stack'[k] = Begun)
      BY <3>1, AdvanceFacts, EmissionsMove
    <3>2. CASE \/ stack'[k] = Script \/ stack'[k] \in EndFrames \/ stack'[k] \in FinishFrames
               \/ stack'[k] \in {Emit("end", 0), Do("closeR"), Emit("rerror", 0), Do("readFailed"),
                             Emit("rclose", 0), Emit("werror", 0), Do("writeFailed"),
                             Emit("wclose", 0), Do("unpipe"), Do("pipeFailed"), Do("afterData"),
                             Emit("drain", 0)}
      BY <3>2, Known, FrameFacts DEF EndFrames, FinishFrames
    <3>3. CASE stack'[k] = Emit("data", r.pos + 1) /\ r.pos + 1 \in Chunk
      BY <3>3, FrameFacts, EventFacts
    <3> QED BY <1>2, <3>1, <3>2, <3>3, Entrances DEF Entered
  <2>2. PICK i \in DOMAIN stack : stack[i].do = "afterWrite"
    BY <2>1 DEF Same
  <2>3. stack # <<>>
    BY <2>2
  <2>4. Len(stack) = 1 => stack[1].do = "afterWrite"
    BY <2>2, <2>3, TopFacts
  <2>5. CASE Same(j)
    BY <2>2, <2>5 DEF Same, PlaceInv
  <2>6. CASE (Turn /\ stack'[j] = Advance) \/ (EmitStart /\ stack'[j] = Begun)
    <3>1. Top.do = "emit" /\ Top = stack[1] /\ 1 \in DOMAIN stack
      BY <2>3, <2>6, TopFacts DEF Turn, EmitStart, At
    <3>2. IsEmit(stack[1], "end")
      BY <2>6, <3>1, AdvanceFacts, EmissionsMove DEF IsEmit
    <3> QED BY <2>2, <3>1, <3>2 DEF PlaceInv
  <2>7. CASE DeferredRead \/ ReadNothing
    BY <2>3, <2>7 DEF DeferredRead, ReadNothing, Idle
  <2>8. CASE AfterData \/ PipeDrain
    <3>1. Top.do = "afterData" \/ (Top.do = "emit" /\ Top.ev = "drain")
      BY <2>8 DEF AfterData, PipeDrain, Turn, At
    <3>2. Rooted(stack[1]) /\ 1 \in DOMAIN stack /\ stack[1].do # "afterWrite"
      BY <2>3, <3>1, TopFacts DEF Rooted, IsEmit
    <3>3. Len(stack) = 1
      BY <2>3, <3>2, TopFacts DEF PlaceInv
    <3> QED BY <2>4, <3>2, <3>3
  <2>9. CASE Resume /\ Flows(r, r', EndTodo)
    <3>1. ~r.ended /\ ~r.destroyed /\ (~r.open \/ r.pos >= r.size)
      <4>1. <<>> # EndTodo
        BY DEF EndTodo
      <4> QED BY <2>9, <4>1 DEF Flows
    <3>2. r.pos >= r.size /\ r.pos \in Nat /\ r.size \in Nat
      BY <3>1, ChunkFacts, StreamsAssumption DEF OpenInv, Base, Fine, Readable
    <3>3. MayFlush
      BY <2>9, <3>2 DEF Resume
    <3> QED BY <2>2, <3>3 DEF MayFlush
  <2>10. CASE \/ stack'[j] = Script \/ stack'[j] \in FinishFrames
              \/ stack'[j] \in {Emit("rerror", 0), Do("readFailed"), Emit("rclose", 0),
                            Emit("werror", 0), Do("writeFailed"), Emit("wclose", 0),
                            Do("unpipe"), Do("pipeFailed"), Do("afterData"), Do("afterWrite"),
                            Emit("drain", 0)}
    BY <2>10, Known, FrameFacts DEF FinishFrames, IsEmit
  <2>11. CASE stack'[j] = Emit("data", r.pos + 1) /\ r.pos + 1 \in Chunk
    BY <2>11, FrameFacts, EventFacts DEF IsEmit
  <2> QED BY <2>5, <2>6, <2>7, <2>8, <2>9, <2>10, <2>11, Entrances DEF Entered
<1> QED BY <1>1, <1>2

LEMMA PlacesKept ==
  ASSUME Careless = {}, Base, OpenInv, PlaceInv, [Next]_vars
  PROVE  PlaceInv'
BY Rooting, Apart DEF PlaceInv

-----------------------------------------------------------------------------
\* Who still has to hear. The script's listener, at most one, is the first.
HearInv ==
  \A k \in DOMAIN stack :
    stack[k].do = "emit" /\ stack[k].i > 0 =>
      /\ stack[k].users = (IF stack[k].i = 1 /\ Leads(on[stack[k].ev]) THEN 1 ELSE 0)
      /\ stack[k].users = 1 => stack[k].n >= 1

LEMMA UsersCounted ==
  ASSUME Base, OnInv, NEW e \in Events
  PROVE  /\ Users(e) = IF Leads(on[e]) THEN 1 ELSE 0
         /\ Leads(on[e]) => Len(on[e]) >= 1
<1>1. /\ on[e] \in Seq({"user", "pipe"}) /\ Len(on[e]) \in Nat /\ DOMAIN on[e] = 1..Len(on[e])
  BY Vectors
<1>2. CASE Leads(on[e])
  <2>1. {k \in DOMAIN on[e] : on[e][k] = "user"} = {1}
    <3>1. \/ Len(on[e]) = 1 /\ on[e][1] = "user"
          \/ Len(on[e]) = 2 /\ on[e][1] = "user" /\ on[e][2] = "pipe"
      BY <1>2 DEF OnInv, Leads
    <3>2. CASE Len(on[e]) = 1 /\ on[e][1] = "user"
      BY <1>1, <3>2
    <3>3. CASE Len(on[e]) = 2 /\ on[e][1] = "user" /\ on[e][2] = "pipe"
      <4>1. DOMAIN on[e] = {1, 2}
        BY <1>1, <3>3
      <4> QED BY <3>3, <4>1
    <3> QED BY <3>1, <3>2, <3>3
  <2>2. Cardinality({1}) = 1
    BY FS_Singleton
  <2>3. Users(e) = 1
    BY <2>1, <2>2 DEF Users
  <2>4. Len(on[e]) >= 1
    BY <1>1, <1>2 DEF Leads
  <2> QED BY <1>2, <2>3, <2>4
<1>3. CASE ~Leads(on[e])
  <2>1. {k \in DOMAIN on[e] : on[e][k] = "user"} = {}
    <3>1. Len(on[e]) = 0 \/ (Len(on[e]) = 1 /\ on[e][1] = "pipe")
      BY <1>3 DEF OnInv, Leads
    <3> QED BY <1>1, <3>1
  <2> QED BY <1>3, <2>1, FS_EmptySet DEF Users
<1> QED BY <1>2, <1>3

LEMMA HearsKept ==
  ASSUME Careless = {}, Base, OnInv, HearInv, [Next]_vars
  PROVE  HearInv'
<1> SUFFICES ASSUME NEW k \in DOMAIN stack', stack'[k].do = "emit", stack'[k].i > 0
             PROVE  /\ stack'[k].users = (IF stack'[k].i = 1 /\ Leads(on'[stack'[k].ev]) THEN 1 ELSE 0)
                    /\ stack'[k].users = 1 => stack'[k].n >= 1
  BY DEF HearInv
<1>1. Same(k) \/ Entered(k)
  BY Entrances
<1>2. CASE Same(k)
  <2>1. PICK j \in DOMAIN stack : stack'[k] = stack[j]
    BY <1>2 DEF Same
  <2>2. stack[j].ev \in Events
    BY <2>1 DEF Base, Legal
  <2>3. Leads(on'[stack[j].ev]) = Leads(on[stack[j].ev])
    <3>1. (OnData => ~IsEmit(stack[j], "data")) /\ (OnEnd => ~IsEmit(stack[j], "end"))
      BY <2>1 DEF OnData, OnEnd, Inside, IsEmit
    <3> QED BY <2>1, <2>2, <3>1, UsersStay DEF IsEmit
  <2> QED BY <2>1, <2>3 DEF HearInv
<1>3. CASE Turn /\ stack'[k] = Advance
  <2>1. /\ Advance.i = Top.i + 1 /\ Top.i > 0 /\ Top.i \in Nat /\ Top.do = "emit"
        /\ Advance.users = IF Listener = "user" THEN Top.users - 1 ELSE Top.users
        /\ Top = stack[1] /\ 1 \in DOMAIN stack /\ Top.ev \in Events /\ Top.users \in Int
    BY <1>3, AdvanceFacts
  <2>2. Top.users = IF Top.i = 1 /\ Leads(on[Top.ev]) THEN 1 ELSE 0
    BY <2>1 DEF HearInv
  <2>3. Listener = "user" <=> Top.i = 1 /\ Leads(on[Top.ev])
    <3>1. Listener = IF Top.i <= Len(on[Top.ev]) THEN on[Top.ev][Top.i] ELSE "null"
      BY DEF Listener
    <3>2. /\ Len(on[Top.ev]) \in Nat
          /\ \A i \in 1..Len(on[Top.ev]) : on[Top.ev][i] = "user" <=> i = 1 /\ Leads(on[Top.ev])
      BY <2>1, Vectors DEF OnInv, Leads
    <3> QED BY <2>1, <3>1, <3>2 DEF Leads
  <2>4. Advance.users = 0 /\ Advance.i # 1
    BY <2>1, <2>2, <2>3
  <2> QED BY <1>3, <2>4
<1>4. CASE EmitStart /\ stack'[k] = Begun
  <2>1. /\ Begun.ev = Top.ev /\ Begun.i = 1 /\ Begun.n = Len(on[Top.ev])
        /\ Begun.users = Users(Top.ev) /\ Top.ev \in Events
    BY <1>4, EmissionsMove
  <2>2. Leads(on'[Top.ev]) = Leads(on[Top.ev])
    BY <1>4 DEF EmitStart, Leads
  <2> QED BY <1>4, <2>1, <2>2, UsersCounted
<1>5. CASE ReadData /\ stack'[k] = Emit("data", r.pos + 1) /\ r.pos + 1 \in Chunk
  BY <1>5, FrameFacts, EventFacts
<1>6. CASE \/ stack'[k] = Script \/ stack'[k] \in FinishFrames \/ stack'[k] \in EndFrames
           \/ stack'[k] \in {Emit("end", 0), Do("closeR"), Emit("rerror", 0), Do("readFailed"),
                             Emit("rclose", 0), Emit("werror", 0), Do("writeFailed"),
                             Emit("wclose", 0), Do("unpipe"), Do("pipeFailed"), Do("afterData"),
                             Do("afterWrite"), Emit("drain", 0)}
  BY <1>6, Known, FrameFacts DEF EndFrames, FinishFrames
<1> QED BY <1>1, <1>2, <1>3, <1>4, <1>5, <1>6 DEF Entered

LEMMA HearingIsTrue == Base /\ HearInv => EveryListenerHears
<1> SUFFICES ASSUME Base, HearInv, NEW k \in DOMAIN stack, stack[k].do = "emit",
                    stack[k].i > stack[k].n
             PROVE  stack[k].users = 0
  BY DEF EveryListenerHears
<1>1. stack[k].i \in Nat /\ stack[k].n \in Nat
  BY DEF Base, Legal, Frame
<1> QED BY <1>1 DEF HearInv

-----------------------------------------------------------------------------
\* The pipe implements BytePipe, for scripts that keep to the contracts that
\* Careless names.

\* Nothing went wrong yet, and finish has not been said.
Good == ~broken /\ ~w.finished

\* Functions that only a failure, a destruction or finish enters.
Faulty(f) ==
  \/ f.do \in {"readFailed", "writeFailed", "pipeFailed", "finishW"}
  \/ f.do = "emit" /\ f.ev \in {"rerror", "werror", "finish", "wclose"}
FaultInv ==
  Good => /\ ~r.destroyed /\ ~w.destroyed
          /\ \A k \in DOMAIN stack : ~Faulty(stack[k])

\* The writable ends, finishes and closes its file in this order, and what is
\* still to be written is written before.
FinishInv ==
  /\ w.finished => w.ended
  /\ w.finished /\ (~w.destroyed \/ ~broken) => w.queue = <<>> /\ w.writing = <<>>
  /\ ~w.destroyed /\ ~w.open => w.finished
  /\ \A k \in DOMAIN stack :
       /\ stack[k].do = "afterWrite" /\ w.ended /\ ~w.destroyed => w.writing = <<>>
       /\ stack[k].do = "finishW" => w.finished
  /\ w.ended /\ ~broken => pipe # "none"

\* What has been read, and what the emissions under way say of it.
GoodInv ==
  Good =>
    /\ r.ended => ~r.io /\ r.pos = r.size
    /\ w.ended => r.ended
    /\ pipe = "done" => r.ended
    /\ pipe = "none" => r.pos = 0
    /\ \A k \in DOMAIN stack :
         /\ \/ stack[k].do = "unpipe" \/ IsEmit(stack[k], "end") \/ IsEmit(stack[k], "rclose")
            => r.ended
         /\ IsEmit(stack[k], "data") =>
              /\ stack[k].arg = r.pos /\ r.pos > 0 /\ ~r.ended /\ pipe = "piping"
              /\ stack[k].i > 0 => stack[k].n = Len(on["data"])

\* The units that wait for the file, in the order in which they will get there,
\* and the last unit that the pipe's handler has been given.
Line == Cat(w.writing, w.queue)
Holds(s, c) == \E i \in DOMAIN s : s[i] = c
Ordered(s) == \A i, j \in DOMAIN s : i < j /\ s[i] # 0 /\ s[j] # 0 => s[i] < s[j]
Pending(f) == IsEmit(f, "data") /\ f.i <= Len(on["data"])
Waits == \E k \in DOMAIN stack : Pending(stack[k])
Sent == IF Waits THEN r.pos - 1 ELSE r.pos

UnitInv ==
  /\ \A k \in DOMAIN stack : stack[k].arg <= r.size
  /\ \A c \in Chunk : Holds(Line, c) => c <= r.size

CopyInv ==
  Good => /\ Len(file.units) <= Sent
          /\ Ordered(Line)
          /\ \A c \in 1..r.size : Holds(Line, c) <=> Len(file.units) < c /\ c <= Sent

-----------------------------------------------------------------------------
\* How w steps.
Flags(v) == <<v.ended, v.finished, v.destroyed, v.open>>

LEMMA LineTyped ==
  ASSUME Base
  PROVE  /\ w \in Writable /\ FineW(w, calls) /\ calls \in Nat
         /\ w.writing \in Seq(Chunk) /\ w.queue \in Seq(Chunk) /\ Line \in Seq(Chunk)
<1>1. w \in Writable /\ w.writing \in Seq(Chunk) /\ w.queue \in Seq(Chunk)
  BY WritableFacts DEF Base, FineW
<1>2. Line \in Seq(Chunk)
  BY <1>1, CatFacts DEF Line
<1>3. FineW(w, calls) /\ calls \in Nat
  BY DEF Base
<1> QED BY <1>1, <1>2, <1>3

LEMMA PipeDataWrites ==
  ASSUME Base, PipeData, ~w.destroyed, ~w.ended
  PROVE  Flags(w)' = Flags(w) /\ Line' = Cat(Line, <<Top.arg>>)
<1> DEFINE c == Top.arg
           q == Queued(w, c)
           x == NextWrite(q)
<1>0. w \in Writable /\ FineW(w, calls) /\ calls \in Nat
      /\ w.writing \in Seq(Chunk) /\ w.queue \in Seq(Chunk)
  BY LineTyped
<1>1. c \in Chunk
  BY StackTyped DEF PipeData, Turn, At
<1>2. /\ FineW(q, calls) /\ q.queue = Append(w.queue, c) /\ q.writing = w.writing
      /\ Flags(q) = Flags(w)
  BY <1>0, <1>1, QueuedFine DEF Flags
<1>3. w' = [x EXCEPT !.draining = @ \/ q.buffered >= HighWater]
  BY DEF PipeData
<1> HIDE DEF c, q
<1>4. FineW(x, calls) /\ x.writing \o x.queue = q.writing \o q.queue /\ Flags(x) = Flags(q)
  BY <1>0, <1>2, NextWriteFine DEF Flags
<1> HIDE DEF x
<1>5. w'.writing = x.writing /\ w'.queue = x.queue /\ Flags(w') = Flags(x)
  BY <1>3, <1>4 DEF FineW, Writable, Flags
<1>6. <<c>> \in Seq(Chunk) /\ Append(w.queue, c) = Cat(w.queue, <<c>>)
  BY <1>0, <1>1, SingleTyped, AppendIsConcat DEF Cat
<1>7. Cat(w'.writing, w'.queue) = Cat(w.writing, Cat(w.queue, <<c>>))
  BY <1>2, <1>4, <1>5, <1>6 DEF Cat
<1>8. Cat(w'.writing, w'.queue) = Cat(Cat(w.writing, w.queue), <<c>>)
  BY <1>0, <1>6, <1>7, CatFacts
<1>9. Flags(w)' = Flags(w)
  BY <1>2, <1>4, <1>5 DEF Flags
<1> QED BY <1>8, <1>9 DEF Line, c

LEMMA ScriptWrites ==
  ASSUME Base, Write
  PROVE  Flags(w)' = Flags(w) /\ Line' = Cat(Line, <<0>>)
<1> DEFINE q == Queued(w, 0)
           x == [q EXCEPT !.draining = @ \/ q.buffered >= HighWater]
<1>0. w \in Writable /\ FineW(w, calls) /\ calls \in Nat
      /\ w.writing \in Seq(Chunk) /\ w.queue \in Seq(Chunk)
  BY LineTyped
<1>1. 0 \in Chunk /\ <<0>> \in Seq(Chunk)
  BY ChunkFacts, SingleTyped
<1>2. /\ FineW(q, calls) /\ q.queue = Append(w.queue, 0) /\ q.writing = w.writing
      /\ Flags(q) = Flags(w)
  BY <1>0, <1>1, QueuedFine DEF Flags
<1>3. w' = NextWrite(x)
  BY DEF Write
<1> HIDE DEF q
<1>4. FineW(x, calls) /\ x.queue = q.queue /\ x.writing = q.writing /\ Flags(x) = Flags(q)
  <2>1. (q.draining \/ q.buffered >= HighWater) \in BOOLEAN
    OBVIOUS
  <2> QED BY <1>2, <2>1 DEF FineW, Writable, Flags
<1> HIDE DEF x
<1>5. w'.writing \o w'.queue = x.writing \o x.queue /\ Flags(w') = Flags(x)
  BY <1>0, <1>3, <1>4, NextWriteFine DEF Flags
<1>6. Append(w.queue, 0) = Cat(w.queue, <<0>>)
  BY <1>0, <1>1, AppendIsConcat DEF Cat
<1>7. Cat(w'.writing, w'.queue) = Cat(w.writing, Cat(w.queue, <<0>>))
  BY <1>2, <1>4, <1>5, <1>6 DEF Cat
<1>8. Cat(w'.writing, w'.queue) = Cat(Cat(w.writing, w.queue), <<0>>)
  BY <1>0, <1>1, <1>7, CatFacts
<1>9. Flags(w)' = Flags(w)
  BY <1>2, <1>4, <1>5 DEF Flags
<1> QED BY <1>8, <1>9 DEF Line

LEMMA WriterEnds ==
  ASSUME Base, PipeEnd \/ End
  PROVE  /\ w'.ended /\ w'.destroyed = w.destroyed /\ w'.open = w.open
         /\ \/ w'.finished = w.finished
            \/ w'.finished /\ w'.queue = <<>> /\ w'.writing = <<>>
         /\ PipeEnd => Line' = Line /\ (w.ended => w' = w)
         /\ End => ~w.ended /\ \E chunk \in {<<>>, <<0>>} : Line' = Cat(Line, chunk)
<1>0. w \in Writable /\ FineW(w, calls) /\ calls \in Nat
      /\ w.writing \in Seq(Chunk) /\ w.queue \in Seq(Chunk)
  BY LineTyped
<1>1. CASE PipeEnd
  <2>1. CASE w.ended
    <3>1. w' = w
      BY <1>1, <2>1 DEF PipeEnd
    <3> QED BY <1>1, <2>1, <3>1 DEF Line, End, PipeEnd, Turn, At, Call
  <2>2. CASE ~w.ended
    <3>1. w' = Ended(w).s
      BY <1>1, <2>2 DEF PipeEnd
    <3>2. ~End
      BY <1>1 DEF End, PipeEnd, Turn, At, Call
    <3> QED BY <1>0, <1>1, <2>2, <3>1, <3>2, EndedFine DEF Line, Cat
  <2> QED BY <2>1, <2>2
<1>2. CASE End
  <2>1. PICK chunk \in {<<>>, <<0>>} : w' = Ended([w EXCEPT !.queue = @ \o chunk]).s
    BY <1>2 DEF End
  <2> DEFINE x == [w EXCEPT !.queue = @ \o chunk]
  <2>2. chunk \in Seq(Chunk)
    <3>1. <<0>> \in Seq(Chunk) /\ <<>> \in Seq(Chunk)
      BY ChunkFacts, SingleTyped
    <3> QED BY <3>1
  <2>3. w.queue \o chunk \in Seq(Chunk)
    BY <1>0, <2>2, JoinTyped
  <2>4. /\ FineW(x, calls) /\ x.finished = w.finished /\ x.destroyed = w.destroyed /\ x.open = w.open
        /\ x.writing = w.writing /\ x.queue = Cat(w.queue, chunk)
    BY <1>0, <2>3 DEF FineW, Writable, Cat
  <2>5. w' = Ended(x).s
    BY <2>1
  <2> HIDE DEF x
  <2>6. ~PipeEnd /\ ~w.ended
    BY <1>2 DEF End, PipeEnd, Turn, At, Call
  <2>7. Line' = Cat(w.writing, Cat(w.queue, chunk))
    <3>1. Cat(Ended(x).s.writing, Ended(x).s.queue) = Cat(x.writing, x.queue)
      BY <1>0, <2>4, EndedFine DEF Cat
    <3>2. Line' = Cat(Ended(x).s.writing, Ended(x).s.queue)
      BY <2>5 DEF Line
    <3> QED BY <2>4, <3>1, <3>2
  <2>8. Line' = Cat(Line, chunk)
    BY <1>0, <2>2, <2>7, CatFacts DEF Line
  <2> QED BY <1>0, <2>4, <2>5, <2>6, <2>8, EndedFine
<1> QED BY <1>1, <1>2

LEMMA LineMoves ==
  ASSUME Base, AfterWrite \/ Cork \/ Uncork
  PROVE  /\ w'.ended = w.ended /\ w'.destroyed = w.destroyed /\ w'.open = w.open
         /\ Line' = Line
         /\ (w.queue = <<>> \/ Cork) => w'.queue = w.queue /\ w'.writing = w.writing
         /\ \/ w'.finished = w.finished
            \/ AfterWrite /\ w.ended /\ w.queue = <<>> /\ ~w.finished /\ w'.finished
<1>0. w \in Writable /\ FineW(w, calls) /\ calls \in Nat /\ w.corks \in Int
      /\ w.writing \in Seq(Chunk) /\ w.queue \in Seq(Chunk)
  BY LineTyped DEF Writable
<1>1. CASE AfterWrite
  <2>0. ~Cork
    BY <1>1 DEF AfterWrite, At, Cork, Call
  <2>1. CASE w' = NextWrite(w)
    BY <1>0, <2>0, <2>1, NextWriteFine DEF Line, Cat
  <2>2. CASE w' = [w EXCEPT !.draining = FALSE]
    BY <1>0, <2>0, <2>2 DEF Writable, Line
  <2>3. CASE w.ended /\ w.queue = <<>> /\ ~w.finished /\ w' = [w EXCEPT !.finished = TRUE]
    BY <1>0, <1>1, <2>0, <2>3 DEF Writable, Line
  <2> QED BY <1>1, <2>1, <2>2, <2>3 DEF AfterWrite
<1>2. CASE Cork
  BY <1>0, <1>2 DEF Cork, Writable, Line
<1>3. CASE Uncork
  <2> DEFINE x == [w EXCEPT !.corks = @ - 1]
  <2>0. w.corks - 1 \in 0..Calls /\ w.corks - 1 <= calls
    BY <1>0, <1>3, StreamsAssumption DEF Uncork, FineW, Writable
  <2>1. /\ FineW(x, calls) /\ x.writing = w.writing /\ x.queue = w.queue
        /\ Flags(x) = Flags(w)
    BY <1>0, <2>0 DEF FineW, Writable, Flags
  <2>2. w' = NextWrite(x) \/ w' = x
    BY <1>3 DEF Uncork
  <2> HIDE DEF x
  <2>3. Cat(w'.writing, w'.queue) = Cat(w.writing, w.queue) /\ Flags(w') = Flags(w)
        /\ (w.queue = <<>> => w' = x)
    BY <1>0, <2>1, <2>2, NextWriteFine DEF Cat, Flags
  <2>4. CASE ~Cork
    BY <2>1, <2>3, <2>4 DEF Line, Flags
  <2> QED BY <1>2, <2>4
<1> QED BY <1>1, <1>2, <1>3

LEMMA WriterCloses ==
  ASSUME Base, FinishW \/ WriteFailed \/ PipeFailed \/ DestroyW \/ WriteCompletes
  PROVE  /\ (w.ended => w'.ended) /\ (w'.ended = w.ended \/ DestroyW)
         /\ w'.finished = w.finished
         /\ (w.destroyed => w'.destroyed)
         /\ (w'.destroyed = w.destroyed \/ WriteFailed \/ PipeFailed \/ DestroyW)
         /\ (w'.open = w.open \/ FinishW \/ w'.destroyed)
         /\ (w'.queue = w.queue \/ (DestroyW /\ w'.queue = <<>>))
         /\ (w'.writing = w.writing \/ (WriteCompletes /\ w'.writing = <<>>))
         /\ WriteCompletes => w'.writing = <<>> /\ w'.queue = w.queue
         /\ (FinishW \/ WriteFailed \/ PipeFailed) => Line' = Line
<1>0. w \in Writable
  BY LineTyped
<1>1. CASE WriteCompletes
  <2>1. ~FinishW /\ ~WriteFailed /\ ~PipeFailed /\ ~DestroyW
    BY <1>1 DEF WriteCompletes, WriteDropped, WriteDone, WriteError, Idle, FinishW, WriteFailed,
                PipeFailed, DestroyW, Call, At
  <2>2. w' = [w EXCEPT !.writing = <<>>]
    BY <1>1 DEF WriteCompletes, WriteDropped, WriteDone, WriteError
  <2> QED BY <1>0, <1>1, <2>1, <2>2 DEF Writable
<1>2. CASE DestroyW
  <2>1. ~FinishW /\ ~WriteFailed /\ ~PipeFailed /\ ~WriteCompletes
    BY <1>2 DEF WriteCompletes, WriteDropped, WriteDone, WriteError, Idle, FinishW, WriteFailed,
                PipeFailed, DestroyW, Call, At
  <2>2. /\ w'.ended /\ w'.destroyed /\ w'.finished = w.finished /\ w'.queue = <<>>
        /\ w'.writing = w.writing
    <3>1. w' = [w EXCEPT !.destroyed = TRUE, !.ended = TRUE, !.open = FALSE,
                         !.queue = <<>>, !.buffered = 0]
      BY <1>2 DEF DestroyW
    <3> QED BY <1>0, <3>1 DEF Writable
  <2> QED BY <1>2, <2>1, <2>2
<1>3. CASE FinishW \/ WriteFailed \/ PipeFailed
  <2>1. ~DestroyW /\ ~WriteCompletes
    BY <1>3 DEF WriteCompletes, WriteDropped, WriteDone, WriteError, Idle, FinishW, WriteFailed,
                PipeFailed, DestroyW, Call, At
  <2>2. \/ w' = w
        \/ FinishW /\ w' = [w EXCEPT !.open = FALSE]
        \/ (WriteFailed \/ PipeFailed) /\ w' = [w EXCEPT !.destroyed = TRUE, !.open = FALSE]
    BY <1>3 DEF FinishW, WriteFailed, PipeFailed
  <2> QED BY <1>0, <2>1, <2>2 DEF Writable, Line
<1> QED BY <1>1, <1>2, <1>3

LEMMA WriterSteps ==
  ASSUME Base, [Next]_vars
  PROVE  /\ (w.ended => w'.ended) /\ (w.finished => w'.finished) /\ (w.destroyed => w'.destroyed)
         /\ (w'.ended = w.ended \/ PipeEnd \/ End \/ DestroyW)
         /\ \/ w'.finished = w.finished
            \/ (PipeEnd \/ End) /\ w'.queue = <<>> /\ w'.writing = <<>> /\ w'.ended
            \/ /\ AfterWrite /\ w.ended /\ w.queue = <<>>
               /\ w'.queue = <<>> /\ w'.writing = w.writing
         /\ (w'.destroyed = w.destroyed \/ WriteFailed \/ PipeFailed \/ DestroyW)
         /\ (w'.open = w.open \/ FinishW \/ w'.destroyed)
         /\ w.ended => \/ w'.writing = w.writing /\ w'.queue = w.queue
                       \/ (AfterWrite \/ Uncork) /\ w.queue # <<>>
                       \/ w'.writing = <<>> /\ w'.queue = w.queue
                       \/ w'.writing = w.writing /\ w'.queue = <<>>
         /\ \/ Line' = Line
            \/ PipeData /\ ~w.ended /\ ~w.destroyed /\ Line' = Cat(Line, <<Top.arg>>)
            \/ Write /\ Line' = Cat(Line, <<0>>)
            \/ End \/ DestroyW \/ WriteCompletes
<1> DEFINE Goal ==
      /\ (w.ended => w'.ended) /\ (w.finished => w'.finished) /\ (w.destroyed => w'.destroyed)
      /\ (w'.ended = w.ended \/ PipeEnd \/ End \/ DestroyW)
      /\ \/ w'.finished = w.finished
         \/ (PipeEnd \/ End) /\ w'.queue = <<>> /\ w'.writing = <<>> /\ w'.ended
         \/ /\ AfterWrite /\ w.ended /\ w.queue = <<>>
            /\ w'.queue = <<>> /\ w'.writing = w.writing
      /\ (w'.destroyed = w.destroyed \/ WriteFailed \/ PipeFailed \/ DestroyW)
      /\ (w'.open = w.open \/ FinishW \/ w'.destroyed)
      /\ w.ended => \/ w'.writing = w.writing /\ w'.queue = w.queue
                    \/ (AfterWrite \/ Uncork) /\ w.queue # <<>>
                    \/ w'.writing = <<>> /\ w'.queue = w.queue
                    \/ w'.writing = w.writing /\ w'.queue = <<>>
      /\ \/ Line' = Line
         \/ PipeData /\ ~w.ended /\ ~w.destroyed /\ Line' = Cat(Line, <<Top.arg>>)
         \/ Write /\ Line' = Cat(Line, <<0>>)
         \/ End \/ DestroyW \/ WriteCompletes
<1>1. CASE UNCHANGED w
  BY <1>1 DEF Line
<1>2. CASE PipeData
  <2>1. CASE w.destroyed \/ w.ended
    BY <1>1, <1>2, <2>1 DEF PipeData
  <2>2. CASE ~(w.destroyed \/ w.ended)
    BY <1>2, <2>2, PipeDataWrites DEF Flags
  <2> QED BY <2>1, <2>2
<1>3. CASE Write
  <2>1. ~w.ended
    BY <1>3 DEF Write
  <2> QED BY <1>3, <2>1, ScriptWrites DEF Flags
<1>4. CASE PipeEnd \/ End
  <2>1. CASE PipeEnd /\ w.ended
    BY <1>1, <2>1, WriterEnds
  <2>2. CASE ~w.ended
    BY <1>4, <2>2, WriterEnds
  <2> QED BY <1>4, <2>1, <2>2, WriterEnds
<1>5. CASE AfterWrite \/ Cork \/ Uncork
  BY <1>5, LineMoves
<1>6. CASE FinishW \/ WriteFailed \/ PipeFailed \/ DestroyW \/ WriteCompletes
  BY <1>6, WriterCloses
<1>7. CASE DeferredRead \/ ReadCompletes
  BY <1>1, <1>7 DEF DeferredRead, ReadCompletes, ReadDropped, ReadData, ReadError, ReadNothing
<1>8. CASE AfterData \/ CloseR \/ EndOfRead \/ ReadFailed \/ EmitStart \/ EmitEnd \/ EmitSkip
           \/ EmitUser \/ PipeDrain \/ Unpipe \/ PipeError \/ PipeClose
  BY <1>1, <1>8 DEF AfterData, CloseR, EndOfRead, ReadFailed, EmitStart, EmitEnd, EmitSkip,
                    EmitUser, PipeDrain, Unpipe, PipeError, PipeClose
<1>9. CASE ScriptReturns \/ RunScript \/ ScriptThrows \/ OnData \/ OnEnd \/ Pause \/ Resume
           \/ DestroyR \/ Pipe
  BY <1>1, <1>9 DEF ScriptReturns, RunScript, ScriptThrows, OnData, OnEnd, Pause, Resume,
                    DestroyR, Pipe
<1>10. CASE UNCHANGED vars
  BY <1>1, <1>10 DEF vars
<1> QED BY <1>2, <1>3, <1>4, <1>5, <1>6, <1>7, <1>8, <1>9, <1>10 DEF Next, Native, ScriptCalls

\* What breaks the pipe, and what touches the file.
LEMMA BreakSteps ==
  ASSUME Base, [Next]_vars
  PROVE  /\ broken => broken'
         /\ \/ broken' = broken
            \/ ReadData /\ pipe = "none"
            \/ End \/ WriteError
            \/ (ReadError \/ ReadNothing \/ ScriptThrows \/ DestroyR \/ DestroyW) /\ ~w.finished
         /\ ((ReadData /\ pipe = "none") \/ End \/ WriteError) => broken'
         /\ (ReadError \/ ReadNothing \/ ScriptThrows \/ DestroyR \/ DestroyW) /\ ~w.finished
              => broken'
         /\ file' = file \/ WriteDropped \/ WriteDone
<1>1. broken \in BOOLEAN
  BY DEF Base
<1>2. /\ ReadData => broken' = (broken \/ pipe = "none")
      /\ End \/ WriteError => broken' = TRUE
      /\ ReadError \/ ReadNothing \/ ScriptThrows \/ DestroyR \/ DestroyW
           => broken' = (broken \/ ~w.finished)
  BY DEF ReadData, End, WriteError, ReadError, ReadNothing, ScriptThrows, DestroyR, DestroyW
<1>3. CASE DeferredRead \/ ReadCompletes \/ WriteCompletes
  <2>1. file' = file \/ WriteDropped \/ WriteDone
    BY <1>3 DEF DeferredRead, ReadCompletes, ReadDropped, ReadData, ReadError, ReadNothing,
                WriteCompletes, WriteError
  <2>2. UNCHANGED broken \/ ReadData \/ ReadError \/ ReadNothing \/ WriteError
    BY <1>3 DEF DeferredRead, ReadCompletes, ReadDropped, WriteCompletes, WriteDropped, WriteDone
  <2> QED BY <1>1, <1>2, <2>1, <2>2
<1>4. CASE Native
  <2>1. UNCHANGED <<broken, file>>
    BY <1>4 DEF Native, AfterData, CloseR, EndOfRead, ReadFailed, EmitStart, EmitEnd, EmitSkip,
                EmitUser, PipeDrain, Unpipe, PipeError, PipeClose, AfterWrite, FinishW, WriteFailed,
                PipeData, PipeEnd, PipeFailed
  <2> QED BY <1>1, <1>2, <2>1
<1>5. CASE ScriptReturns \/ ScriptCalls
  <2>1. file' = file
    BY <1>5 DEF ScriptReturns, RunScript, ScriptCalls, ScriptThrows, OnData, OnEnd, Pause, Resume,
                DestroyR, Pipe, Write, End, DestroyW, Cork, Uncork
  <2>2. UNCHANGED broken \/ End \/ ScriptThrows \/ DestroyR \/ DestroyW
    BY <1>5 DEF ScriptReturns, RunScript, ScriptCalls, OnData, OnEnd, Pause, Resume,
                Pipe, Write, Cork, Uncork
  <2> QED BY <1>1, <1>2, <2>1, <2>2
<1>6. CASE UNCHANGED vars
  <2>1. UNCHANGED <<broken, file>>
    BY <1>6 DEF vars
  <2> QED BY <1>1, <1>2, <2>1
<1> QED BY <1>3, <1>4, <1>5, <1>6 DEF Next

-----------------------------------------------------------------------------
\* Before anything goes wrong no stream is destroyed, nor is anything entered
\* that says so.
LEMMA StillGood ==
  ASSUME Base, FaultInv, [Next]_vars, Good'
  PROVE  /\ Good /\ ~r.destroyed /\ ~w.destroyed
         /\ \A k \in DOMAIN stack : ~Faulty(stack[k])
         /\ ~ReadError /\ ~ReadNothing /\ ~ScriptThrows /\ ~DestroyR /\ ~DestroyW
         /\ ~End /\ ~WriteError /\ ~(ReadData /\ pipe = "none")
         /\ ~ReadFailed /\ ~WriteFailed /\ ~PipeFailed /\ ~FinishW
         /\ ~(Turn /\ Top.ev = "rerror")
<1>1. Good
  BY WriterSteps, BreakSteps DEF Good
<1>2. ~r.destroyed /\ ~w.destroyed /\ \A k \in DOMAIN stack : ~Faulty(stack[k])
  BY <1>1 DEF FaultInv
<1>3. /\ ~ReadError /\ ~ReadNothing /\ ~ScriptThrows /\ ~DestroyR /\ ~DestroyW
      /\ ~End /\ ~WriteError /\ ~(ReadData /\ pipe = "none")
  BY <1>1, BreakSteps DEF Good
<1>4. stack # <<>> => ~Faulty(Top)
  BY <1>2, TopFacts
<1>5. /\ ~ReadFailed /\ ~WriteFailed /\ ~PipeFailed /\ ~FinishW
      /\ ~(Turn /\ Top.ev = "rerror")
  BY <1>4 DEF ReadFailed, WriteFailed, PipeFailed, FinishW, Turn, At, Faulty
<1> QED BY <1>1, <1>2, <1>3, <1>5

\* What a good step enters.
GoodEntered(k) ==
  LET f == stack'[k] IN
  \/ f = Script
  \/ Turn /\ f = Advance /\ Atop(k)
  \/ EmitStart /\ f = Begun /\ Atop(k)
  \/ ReadData /\ f = Emit("data", r.pos + 1) /\ Len(stack') - k = 1 /\ r.pos + 1 \in Chunk
  \/ ReadData /\ f = Do("afterData")
  \/ r'.ended /\ f \in {Emit("end", 0), Do("endOfRead"), Do("closeR")}
  \/ CloseR /\ f = Emit("rclose", 0)
  \/ WriteDone /\ f = Do("afterWrite")
  \/ AfterWrite /\ f = Emit("drain", 0) /\ Atop(k)
  \/ PipeEnd /\ f = Do("unpipe")

LEMMA GoodEntrances ==
  ASSUME Base, FaultInv, [Next]_vars, Good'
  PROVE  \A k \in DOMAIN stack' : Same(k) \/ GoodEntered(k)
<1> SUFFICES ASSUME NEW k \in DOMAIN stack', Entered(k) PROVE GoodEntered(k)
  BY Entrances
<1>1. /\ ~ReadError /\ ~ReadNothing /\ ~ScriptThrows /\ ~DestroyR /\ ~DestroyW
      /\ ~WriteError /\ ~WriteFailed /\ ~FinishW /\ ~PipeError /\ ~w'.finished
  <2>1. ~w'.finished
    BY DEF Good
  <2>2. ~PipeError
    BY StillGood DEF PipeError
  <2> QED BY <2>1, <2>2, StillGood
<1>2. Flows(r, r', EndTodo) => r'.ended
  BY DEF Flows, EndTodo
<1> QED BY <1>1, <1>2 DEF Entered, GoodEntered, EndFrames

LEMMA FaultsKept == ASSUME Base, FaultInv, [Next]_vars PROVE FaultInv'
<1> SUFFICES ASSUME Good'
             PROVE  /\ ~r'.destroyed /\ ~w'.destroyed
                    /\ \A k \in DOMAIN stack' : ~Faulty(stack'[k])
  BY DEF FaultInv
<1>1. ~r'.destroyed /\ ~w'.destroyed
  BY StillGood, ReaderSteps, WriterSteps
<1>2. ASSUME NEW k \in DOMAIN stack' PROVE ~Faulty(stack'[k])
  <2>1. Same(k) \/ GoodEntered(k)
    BY GoodEntrances
  <2>2. CASE Same(k)
    BY <2>2, StillGood DEF Same
  <2>3. CASE (Turn /\ stack'[k] = Advance) \/ (EmitStart /\ stack'[k] = Begun)
    <3>1. stack # <<>> /\ Top.do = "emit"
      BY <2>3 DEF Turn, EmitStart, At
    <3>2. stack'[k].do = stack[1].do /\ stack'[k].ev = stack[1].ev /\ 1 \in DOMAIN stack
      BY <2>3, <3>1, TopFacts, AdvanceFacts, EmissionsMove
    <3> QED BY <3>2, StillGood DEF Faulty
  <2>4. CASE ReadData /\ stack'[k] = Emit("data", r.pos + 1) /\ r.pos + 1 \in Chunk
    BY <2>4, FrameFacts, EventFacts DEF Faulty
  <2>5. CASE \/ stack'[k] = Script
             \/ stack'[k] \in {Emit("end", 0), Do("endOfRead"), Do("closeR"), Do("afterData"),
                               Emit("rclose", 0), Do("afterWrite"), Emit("drain", 0),
                               Do("unpipe")}
    BY <2>5, Known, FrameFacts DEF Faulty
  <2> QED BY <2>1, <2>2, <2>3, <2>4, <2>5 DEF GoodEntered
<1> QED BY <1>1, <1>2

\* finish is said, and the file closed, when all is written.
LEMMA FinishKept ==
  ASSUME Careless = {}, Base, OnInv, PlaceInv, FaultInv, FinishInv, [Next]_vars
  PROVE  FinishInv'
<1> DEFINE Settled == w.queue = <<>> /\ w.writing = <<>>
<1>1. broken => broken'
  BY BreakSteps
<1>2. w'.finished => w'.ended
  BY WriterSteps DEF FinishInv
<1>3. ASSUME w'.finished, ~w'.destroyed \/ ~broken' PROVE w'.queue = <<>> /\ w'.writing = <<>>
  <2>1. CASE w.finished
    <3>1. w.ended /\ w.queue = <<>> /\ w.writing = <<>>
      BY <1>1, <1>3, <2>1, WriterSteps DEF FinishInv
    <3> QED BY <3>1, WriterSteps
  <2>2. CASE ~w.finished
    <3>1. CASE AfterWrite /\ w.ended /\ w'.queue = <<>> /\ w'.writing = w.writing
      <4>1. ~w.destroyed
        <5>1. ~broken => Good
          BY <2>2 DEF Good
        <5> QED BY <1>1, <1>3, <5>1, WriterSteps DEF FaultInv
      <4>2. stack # <<>> /\ Top.do = "afterWrite"
        BY <3>1 DEF AfterWrite, At
      <4>3. w.writing = <<>>
        BY <3>1, <4>1, <4>2, TopFacts DEF FinishInv
      <4> QED BY <3>1, <4>3
    <3> QED BY <1>3, <2>2, <3>1, WriterSteps
  <2> QED BY <2>1, <2>2
<1>4. ~w'.destroyed /\ ~w'.open => w'.finished
  <2>1. FinishW => w.finished
    <3>1. FinishW => stack # <<>> /\ Top.do = "finishW"
      BY DEF FinishW, At
    <3> QED BY <3>1, TopFacts DEF FinishInv
  <2> QED BY <2>1, WriterSteps DEF FinishInv
<1>5. ASSUME NEW k \in DOMAIN stack', stack'[k].do = "afterWrite", w'.ended, ~w'.destroyed
      PROVE  w'.writing = <<>>
  <2>1. CASE WriteDone
    BY <2>1, WriterCloses DEF WriteCompletes
  <2>2. CASE ~WriteDone
    <3>1. Same(k)
      <4>1. CASE (Turn /\ stack'[k] = Advance) \/ (EmitStart /\ stack'[k] = Begun)
        BY <1>5, <4>1, AdvanceFacts, EmissionsMove
      <4>2. CASE \/ stack'[k] = Script \/ stack'[k] \in EndFrames \/ stack'[k] \in FinishFrames
                 \/ stack'[k] \in {Emit("end", 0), Do("closeR"), Emit("rerror", 0), Do("readFailed"),
                               Emit("rclose", 0), Emit("werror", 0), Do("writeFailed"),
                               Emit("wclose", 0), Do("unpipe"), Do("pipeFailed"), Do("afterData"),
                               Emit("drain", 0)}
        BY <1>5, <4>2, Known, FrameFacts DEF EndFrames, FinishFrames
      <4>3. CASE stack'[k] = Emit("data", r.pos + 1) /\ r.pos + 1 \in Chunk
        BY <1>5, <4>3, FrameFacts, EventFacts
      <4> QED BY <2>2, <4>1, <4>2, <4>3, Entrances DEF Entered
    <3>2. PICK j \in DOMAIN stack : stack[j].do = "afterWrite" /\ Len(stack') - k = Len(stack) - j
      BY <1>5, <3>1 DEF Same
    <3>3. CASE w.ended
      <4>1. w.writing = <<>>
        BY <1>5, <3>2, <3>3, WriterSteps DEF FinishInv
      <4>2. ~Uncork
        BY <3>2 DEF Uncork, MayFlush
      <4>3. ~AfterWrite
        <5> SUFFICES ASSUME AfterWrite PROVE FALSE
          OBVIOUS
        <5>1. stack # <<>> /\ stack[1].do = "afterWrite" /\ 1 \in DOMAIN stack
          BY TopFacts DEF AfterWrite, At
        <5>2. stack \in Seq(Legal) /\ Len(stack) = 1
          <6>1. stack \in Seq(Legal) /\ Len(stack) \in Nat
            BY Lengths DEF Base
          <6>2. Len(stack) - 1 = 0
            BY <5>1 DEF PlaceInv, Rooted
          <6> QED BY <6>1, <6>2
        <5>3. stack' \in Seq(Legal)
          <6>1. Base'
            BY WriteFramesKeepBase
          <6> QED BY <6>1 DEF Base
        <5>4. \A i \in DOMAIN stack' : Below(1, i) \/ stack'[i].do = "emit" \/ stack'[i].do = "finishW"
          BY WriteFramesMove, Known DEF Enter, EnterAt, FinishFrames
        <5>5. Below(1, k)
          BY <1>5, <5>4
        <5> QED BY <5>2, <5>5, Lengths DEF Below
      <4> QED BY <3>3, <4>1, <4>2, <4>3, WriterSteps
    <3>4. CASE ~w.ended
      <4>1. ~End
        BY <3>2 DEF End, MayFlush
      <4>2. ~DestroyW
        BY <1>5, WriterSteps DEF DestroyW, Writable, Base, FineW
      <4>3. ~PipeEnd
        <5> SUFFICES ASSUME PipeEnd PROVE FALSE
          OBVIOUS
        <5>1. stack # <<>> /\ Top.do = "emit" /\ Top.ev = "end"
          BY DEF PipeEnd, Turn, At
        <5>2. IsEmit(stack[1], "end") /\ 1 \in DOMAIN stack
          BY <5>1, TopFacts DEF IsEmit
        <5> QED BY <3>2, <5>2 DEF PlaceInv
      <4> QED BY <1>5, <3>4, <4>1, <4>2, <4>3, WriterSteps
    <3> QED BY <3>3, <3>4
  <2> QED BY <2>1, <2>2
<1>6. ASSUME NEW k \in DOMAIN stack', stack'[k].do = "finishW" PROVE w'.finished
  <2>1. CASE Same(k)
    BY <1>6, <2>1, WriterSteps DEF Same, FinishInv
  <2>2. CASE (Turn /\ stack'[k] = Advance) \/ (EmitStart /\ stack'[k] = Begun)
    BY <1>6, <2>2, AdvanceFacts, EmissionsMove
  <2>3. CASE \/ stack'[k] = Script \/ stack'[k] \in EndFrames
             \/ stack'[k] \in {Emit("end", 0), Do("closeR"), Emit("rerror", 0), Do("readFailed"),
                               Emit("rclose", 0), Emit("werror", 0), Do("writeFailed"),
                               Emit("wclose", 0), Do("unpipe"), Do("pipeFailed"), Do("afterData"),
                               Do("afterWrite"), Emit("drain", 0)}
    BY <1>6, <2>3, Known, FrameFacts DEF EndFrames
  <2>4. CASE stack'[k] = Emit("data", r.pos + 1) /\ r.pos + 1 \in Chunk
    BY <1>6, <2>4, FrameFacts, EventFacts
  <2> QED BY <2>1, <2>2, <2>3, <2>4, Entrances DEF Entered
<1>7. w'.ended /\ ~broken' => pipe' # "none"
  <2>1. pipe # "none" => pipe' # "none"
    BY VectorSteps DEF Cleanup, OnData, OnEnd, Pipe
  <2>2. CASE w.ended
    BY <1>1, <2>1, <2>2 DEF FinishInv
  <2>3. CASE ~w.ended
    <3>1. End => broken'
      BY BreakSteps
    <3>2. DestroyW => broken'
      BY <2>3, BreakSteps DEF FinishInv
    <3>3. PipeEnd => pipe # "none"
      <4> SUFFICES ASSUME PipeEnd PROVE pipe # "none"
        OBVIOUS
      <4>1. Turn /\ Listener = "pipe" /\ Top.ev = "end" /\ "end" \in Events
        BY EventFacts DEF PipeEnd
      <4>2. Top.i \in Nat /\ Top.i > 0 /\ Top.i <= Len(on["end"]) /\ on["end"][Top.i] = "pipe"
        BY <4>1, AdvanceFacts DEF Listener
      <4> QED BY <4>1, <4>2 DEF OnInv, Piped
    <3> QED BY <2>1, <2>3, <3>1, <3>2, <3>3, WriterSteps
  <2> QED BY <2>2, <2>3
<1> QED BY <1>2, <1>3, <1>4, <1>5, <1>6, <1>7 DEF FinishInv

-----------------------------------------------------------------------------
\* Where the reading stands.
LEMMA ReaderEnds ==
  ASSUME Base, OpenInv, [Next]_vars
  PROVE  \/ r'.ended = r.ended /\ (r'.io => r.io \/ ~r.ended)
         \/ /\ DeferredRead \/ AfterData \/ Resume \/ PipeDrain
            /\ r'.ended /\ ~r'.io /\ r'.pos = r'.size
         \/ ReadNothing \/ ReadFailed \/ ScriptThrows \/ DestroyR
<1> DEFINE Goal == \/ r'.ended = r.ended /\ (r'.io => r.io \/ ~r.ended)
                   \/ /\ DeferredRead \/ AfterData \/ Resume \/ PipeDrain
                      /\ r'.ended /\ ~r'.io /\ r'.pos = r'.size
                   \/ ReadNothing \/ ReadFailed \/ ScriptThrows \/ DestroyR
<1>1. r \in Readable /\ Fine(r) /\ r.pos \in Nat /\ r.size \in Nat
  BY ChunkFacts, StreamsAssumption DEF Base, Fine, Readable
<1>2. ASSUME Flows(r, r', <<>>) PROVE Goal
  BY <1>2 DEF Flows, EndTodo
<1>3. ASSUME Flows(r, r', EndTodo), DeferredRead \/ AfterData \/ Resume \/ PipeDrain PROVE Goal
  <2>1. /\ ~r.ended /\ ~r.destroyed /\ r'.ended /\ ~r'.io /\ (~r.open \/ r.pos >= r.size)
        /\ r'.pos = r.pos /\ r'.size = r.size
    BY <1>3 DEF Flows, EndTodo
  <2>2. r.pos = r.size
    BY <1>1, <2>1 DEF OpenInv, Fine
  <2> QED BY <1>3, <2>1, <2>2
<1>4. CASE UNCHANGED r
  BY <1>4
<1>5. CASE DeferredRead \/ Resume
  BY <1>2, <1>3, <1>5, ReadsMove, ScriptMoves DEF Flowed
<1>6. CASE AfterData
  <2>1. CASE r' = [r EXCEPT !.ended = TRUE] /\ r.pos >= r.size
    <3>1. r'.ended /\ r'.io = r.io /\ r'.pos = r.pos /\ r'.size = r.size
      BY <1>1, <2>1 DEF Readable
    <3>2. r.pos = r.size /\ ~r.io
      BY <1>1, <2>1 DEF Fine
    <3> QED BY <1>6, <3>1, <3>2
  <2> QED BY <1>2, <1>3, <1>6, <2>1, ReadFramesMove DEF Flowed
<1>7. CASE PipeDrain
  BY <1>2, <1>3, <1>7, PipeMoves
<1>8. CASE PipeData \/ OnData \/ OnEnd \/ Pause \/ Pipe
  <2>1. \/ r' = r \/ r' = Paused(r) \/ r' = Started(r) \/ r' = [Paused(r) EXCEPT !.held = TRUE]
    BY <1>8 DEF PipeData, OnData, OnEnd, Pause, Pipe
  <2> QED BY <1>1, <1>2, <2>1, FlowFacts
<1>9. CASE ReadDropped \/ ReadError \/ CloseR \/ EndOfRead
  <2>1. r'.ended = r.ended /\ (r'.io => r.io)
    BY <1>1, <1>9 DEF ReadDropped, ReadError, CloseR, EndOfRead, Readable
  <2> QED BY <2>1
<1>10. CASE ReadData
  <2>1. r'.ended = r.ended /\ (r'.io => r.io)
    BY <1>1, <1>10 DEF ReadData, Readable
  <2> QED BY <2>1
<1>11. CASE WriteCompletes
  BY <1>4, <1>11 DEF WriteCompletes, WriteDropped, WriteDone, WriteError
<1>12. CASE \/ AfterWrite \/ FinishW \/ WriteFailed \/ EmitStart \/ EmitEnd \/ EmitSkip \/ EmitUser
            \/ PipeEnd \/ Unpipe \/ PipeError \/ PipeFailed \/ PipeClose
  BY <1>4, <1>12 DEF AfterWrite, FinishW, WriteFailed, EmitStart, EmitEnd, EmitSkip, EmitUser,
                     PipeEnd, Unpipe, PipeError, PipeFailed, PipeClose
<1>13. CASE ScriptReturns \/ RunScript \/ Write \/ End \/ DestroyW \/ Cork \/ Uncork
  BY <1>4, <1>13 DEF ScriptReturns, RunScript, Write, End, DestroyW, Cork, Uncork
<1>14. CASE UNCHANGED vars
  BY <1>4, <1>14 DEF vars
<1> QED BY <1>5, <1>6, <1>7, <1>8, <1>9, <1>10, <1>11, <1>12, <1>13, <1>14
        DEF Next, Native, ReadCompletes, ScriptCalls

\* While data is emitted the readable stays where it is, and piped.
LEMMA DataStays ==
  ASSUME Careless = {}, Base, OpenInv, PlaceInv, FaultInv, GoodInv, [Next]_vars, Good',
         NEW j \in DOMAIN stack, IsEmit(stack[j], "data")
  PROVE  /\ r'.pos = r.pos /\ ~r.ended /\ ~r'.ended /\ pipe = "piping" /\ pipe' = "piping"
         /\ on'["data"] = on["data"]
<1>1. /\ Good /\ ~r.destroyed /\ ~w.destroyed /\ ~ReadNothing /\ ~ReadFailed /\ ~ScriptThrows
      /\ ~DestroyR /\ ~PipeFailed
  BY StillGood
<1>2. /\ r.pos > 0 /\ ~r.ended /\ pipe = "piping" /\ ~w.ended
      /\ \A k \in DOMAIN stack :
           ~(\/ stack[k].do = "unpipe" \/ IsEmit(stack[k], "end") \/ IsEmit(stack[k], "rclose"))
  BY <1>1 DEF GoodInv
<1>3. stack # <<>> /\ Top = stack[1] /\ 1 \in DOMAIN stack /\ stack \in Seq(Legal)
      /\ Len(stack) \in Nat /\ DOMAIN stack = 1..Len(stack) /\ Len(stack) - j = 1
  <2>1. stack # <<>> /\ stack \in Seq(Legal)
    BY DEF Base
  <2> QED BY <2>1, TopFacts DEF PlaceInv
<1>4. ~Rooted(Top)
  <2>1. Rooted(stack[1]) => Len(stack) - 1 = 0
    BY <1>3 DEF PlaceInv
  <2> QED BY <1>3, <2>1
<1>5. ~ReadData /\ ~DeferredRead
  BY <1>3 DEF ReadData, DeferredRead, Idle
<1>6. ~AfterData /\ ~PipeDrain
  BY <1>4 DEF AfterData, PipeDrain, Turn, At, Rooted, IsEmit
<1>7. Inside("data")
  BY DEF Inside, IsEmit
<1>8. ~Resume /\ ~OnData
  BY <1>7 DEF Resume, OnData
<1>9. ~r'.ended /\ r'.pos = r.pos
  BY <1>1, <1>2, <1>5, <1>6, <1>8, ReaderEnds, ReaderSteps
<1>10. ~Unpipe /\ ~PipeClose /\ ~Pipe
  BY <1>2, <1>3 DEF Unpipe, PipeClose, Pipe, At, Turn, IsEmit
<1>11. UNCHANGED <<on, pipe>> \/ OnEnd
  BY <1>1, <1>2, <1>8, <1>10, VectorSteps
<1>12. OnEnd => pipe' = pipe /\ on'["data"] = on["data"]
  BY EventFacts DEF OnEnd, Base
<1> QED BY <1>2, <1>9, <1>11, <1>12

LEMMA GoodKept ==
  ASSUME Careless = {}, Base, OpenInv, PlaceInv, FaultInv, GoodInv, [Next]_vars
  PROVE  GoodInv'
<1> SUFFICES ASSUME Good'
             PROVE  /\ r'.ended => ~r'.io /\ r'.pos = r'.size
                    /\ w'.ended => r'.ended
                    /\ pipe' = "done" => r'.ended
                    /\ pipe' = "none" => r'.pos = 0
                    /\ \A k \in DOMAIN stack' :
                         /\ \/ stack'[k].do = "unpipe" \/ IsEmit(stack'[k], "end")
                            \/ IsEmit(stack'[k], "rclose")
                            => r'.ended
                         /\ IsEmit(stack'[k], "data") =>
                              /\ stack'[k].arg = r'.pos /\ r'.pos > 0 /\ ~r'.ended
                              /\ pipe' = "piping"
                              /\ stack'[k].i > 0 => stack'[k].n = Len(on'["data"])
  BY DEF GoodInv, IsEmit
<1>1. /\ Good /\ ~r.destroyed /\ ~w.destroyed /\ ~ReadNothing /\ ~ReadFailed /\ ~ScriptThrows
      /\ ~DestroyR /\ ~PipeFailed /\ ~End /\ ~DestroyW /\ ~(ReadData /\ pipe = "none")
  BY StillGood
<1>2. /\ r.ended => ~r.io /\ r.pos = r.size
      /\ w.ended => r.ended
      /\ pipe = "done" => r.ended
      /\ pipe = "none" => r.pos = 0
      /\ \A k \in DOMAIN stack :
           \/ stack[k].do = "unpipe" \/ IsEmit(stack[k], "end") \/ IsEmit(stack[k], "rclose")
           => r.ended
  BY <1>1 DEF GoodInv
<1>3. r.ended => r'.ended
  BY ReaderSteps
<1>4. ASSUME stack # <<>>, Top.do = "unpipe" \/ IsEmit(Top, "end") \/ IsEmit(Top, "rclose")
      PROVE  r'.ended
  BY <1>2, <1>3, <1>4, TopFacts
<1>5. ReadData => ~r.ended /\ ~r'.ended /\ r'.pos = r.pos + 1 /\ r.pos \in Nat
  <2>1. r \in Readable /\ r.pos \in Nat
    BY ChunkFacts DEF Base, Fine, Readable
  <2>2. ReadData => r'.ended = r.ended /\ r'.pos = r.pos + 1 /\ r.io
    BY <2>1 DEF ReadData, Readable
  <2> QED BY <1>2, <2>1, <2>2
<1>6. r'.ended => ~r'.io /\ r'.pos = r'.size
  BY <1>1, <1>2, <1>5, ReaderEnds, ReaderSteps
<1>7. w'.ended => r'.ended
  <2>1. PipeEnd => r'.ended
    BY <1>4 DEF PipeEnd, Turn, At, IsEmit
  <2> QED BY <1>1, <1>2, <1>3, <2>1, WriterSteps
<1>8. pipe' = "done" => r'.ended
  <2>1. Unpipe \/ PipeClose => r'.ended
    BY <1>4 DEF Unpipe, PipeClose, Turn, At, IsEmit
  <2>2. (OnData \/ OnEnd => pipe' = pipe) /\ (Pipe => pipe' = "piping")
    BY DEF OnData, OnEnd, Pipe
  <2> QED BY <1>1, <1>2, <1>3, <2>1, <2>2, VectorSteps
<1>9. pipe' = "none" => r'.pos = 0
  <2>1. pipe' = "none" => pipe = "none"
    BY VectorSteps DEF Cleanup, OnData, OnEnd, Pipe
  <2> QED BY <1>1, <1>2, <2>1, ReaderSteps
<1>10. ASSUME NEW k \in DOMAIN stack'
       PROVE  /\ \/ stack'[k].do = "unpipe" \/ IsEmit(stack'[k], "end")
                 \/ IsEmit(stack'[k], "rclose")
                 => r'.ended
              /\ IsEmit(stack'[k], "data") =>
                   /\ stack'[k].arg = r'.pos /\ r'.pos > 0 /\ ~r'.ended
                   /\ pipe' = "piping"
                   /\ stack'[k].i > 0 => stack'[k].n = Len(on'["data"])
  <2>1. Same(k) \/ GoodEntered(k)
    BY GoodEntrances
  <2>2. CASE Same(k)
    <3>1. PICK j \in DOMAIN stack : stack'[k] = stack[j]
      BY <2>2 DEF Same
    <3>2. CASE IsEmit(stack[j], "data")
      <4>1. /\ r'.pos = r.pos /\ ~r'.ended /\ pipe' = "piping" /\ on'["data"] = on["data"]
        BY <3>2, DataStays
      <4>2. /\ stack[j].arg = r.pos /\ r.pos > 0
            /\ stack[j].i > 0 => stack[j].n = Len(on["data"])
        BY <1>1, <3>2 DEF GoodInv
      <4> QED BY <3>1, <3>2, <4>1, <4>2 DEF IsEmit
    <3>3. CASE ~IsEmit(stack[j], "data")
      BY <1>2, <1>3, <3>1, <3>3
    <3> QED BY <3>2, <3>3
  <2>3. CASE (Turn /\ stack'[k] = Advance) \/ (EmitStart /\ stack'[k] = Begun)
    <3>1. stack # <<>> /\ Top.do = "emit"
      BY <2>3 DEF Turn, EmitStart, At
    <3>2. /\ stack'[k].do = Top.do /\ stack'[k].ev = Top.ev /\ stack'[k].arg = Top.arg
          /\ 1 \in DOMAIN stack /\ Top = stack[1]
      BY <2>3, <3>1, TopFacts, AdvanceFacts, EmissionsMove
    <3>3. CASE IsEmit(Top, "data")
      <4>1. /\ r'.pos = r.pos /\ ~r'.ended /\ pipe' = "piping" /\ on'["data"] = on["data"]
        BY <3>2, <3>3, DataStays
      <4>2. /\ Top.arg = r.pos /\ r.pos > 0
            /\ Top.i > 0 => Top.n = Len(on["data"])
        BY <1>1, <3>2, <3>3 DEF GoodInv
      <4>3. stack'[k].n = Len(on["data"])
        BY <2>3, <3>2, <3>3, <4>2, AdvanceFacts, EmissionsMove DEF IsEmit
      <4> QED BY <3>2, <3>3, <4>1, <4>2, <4>3 DEF IsEmit
    <3>4. CASE ~IsEmit(Top, "data")
      BY <1>4, <3>1, <3>2, <3>4 DEF IsEmit
    <3> QED BY <3>3, <3>4
  <2>4. CASE ReadData /\ stack'[k] = Emit("data", r.pos + 1) /\ r.pos + 1 \in Chunk
    <3>1. /\ IsEmit(stack'[k], "data") /\ stack'[k].arg = r.pos + 1 /\ stack'[k].i = 0
      BY <2>4, FrameFacts, EventFacts DEF IsEmit
    <3>2. pipe = "piping" /\ pipe' = pipe
      BY <1>1, <1>2, <1>5, <2>4 DEF Base, ReadData
    <3> QED BY <1>5, <2>4, <3>1, <3>2 DEF IsEmit
  <2>5. CASE r'.ended /\ stack'[k] \in {Emit("end", 0), Do("endOfRead"), Do("closeR")}
    BY <2>5, Known DEF IsEmit
  <2>6. CASE CloseR /\ stack'[k] = Emit("rclose", 0)
    <3>1. stack # <<>> /\ Closing(Top)
      BY <2>6 DEF CloseR, At, Closing
    <3>2. r.ended
      BY <3>1, TopFacts DEF OpenInv
    <3> QED BY <1>3, <2>6, <3>2, Known DEF IsEmit
  <2>7. CASE PipeEnd /\ stack'[k] = Do("unpipe")
    <3>1. r'.ended
      BY <1>4, <2>7 DEF PipeEnd, Turn, At, IsEmit
    <3> QED BY <2>7, <3>1, Known DEF IsEmit
  <2>8. CASE stack'[k] = Script \/ stack'[k] \in {Do("afterData"), Do("afterWrite"), Emit("drain", 0)}
    BY <2>8, Known, FrameFacts DEF IsEmit
  <2> QED BY <2>1, <2>2, <2>3, <2>4, <2>5, <2>6, <2>7, <2>8 DEF GoodEntered
<1> QED BY <1>6, <1>7, <1>8, <1>9, <1>10

-----------------------------------------------------------------------------
\* The chunks of the line.
LEMMA Indices ==
  ASSUME NEW a \in Seq(Chunk), NEW b \in Seq(Chunk)
  PROVE  /\ Len(a) \in Nat /\ Len(b) \in Nat /\ DOMAIN a = 1..Len(a) /\ DOMAIN b = 1..Len(b)
         /\ Len(a \o b) = Len(a) + Len(b) /\ DOMAIN (a \o b) = 1..(Len(a) + Len(b))
         /\ \A i \in 1..Len(a) : (a \o b)[i] = a[i]
         /\ \A j \in 1..Len(b) : (a \o b)[Len(a) + j] = b[j]
OBVIOUS

LEMMA Members ==
  ASSUME NEW a \in Seq(Chunk), NEW b \in Seq(Chunk), NEW c
  PROVE  /\ Holds(Cat(a, b), c) <=> Holds(a, c) \/ Holds(b, c)
         /\ ~Holds(<<>>, c)
         /\ \A x \in Chunk : Holds(<<x>>, c) <=> x = c
<1>0. /\ Len(a) \in Nat /\ Len(b) \in Nat /\ DOMAIN a = 1..Len(a) /\ DOMAIN b = 1..Len(b)
      /\ Len(a \o b) = Len(a) + Len(b) /\ DOMAIN (a \o b) = 1..(Len(a) + Len(b))
      /\ \A i \in 1..Len(a) : (a \o b)[i] = a[i]
      /\ \A j \in 1..Len(b) : (a \o b)[Len(a) + j] = b[j]
  BY Indices
<1>1. Holds(Cat(a, b), c) => Holds(a, c) \/ Holds(b, c)
  <2> SUFFICES ASSUME NEW i \in DOMAIN (a \o b), (a \o b)[i] = c PROVE Holds(a, c) \/ Holds(b, c)
    BY DEF Holds, Cat
  <2>1. CASE i \in 1..Len(a)
    BY <1>0, <2>1 DEF Holds
  <2>2. CASE i \notin 1..Len(a)
    <3>1. i - Len(a) \in 1..Len(b) /\ i = Len(a) + (i - Len(a))
      BY <1>0, <2>2
    <3>2. b[i - Len(a)] = c
      BY <1>0, <3>1
    <3> QED BY <1>0, <3>1, <3>2 DEF Holds
  <2> QED BY <2>1, <2>2
<1>2. Holds(a, c) => Holds(Cat(a, b), c)
  <2> SUFFICES ASSUME NEW i \in DOMAIN a, a[i] = c PROVE Holds(Cat(a, b), c)
    BY DEF Holds
  <2>1. i \in DOMAIN (a \o b) /\ (a \o b)[i] = c
    BY <1>0
  <2> QED BY <2>1 DEF Holds, Cat
<1>3. Holds(b, c) => Holds(Cat(a, b), c)
  <2> SUFFICES ASSUME NEW i \in DOMAIN b, b[i] = c PROVE Holds(Cat(a, b), c)
    BY DEF Holds
  <2>1. Len(a) + i \in DOMAIN (a \o b) /\ (a \o b)[Len(a) + i] = c
    BY <1>0
  <2> QED BY <2>1 DEF Holds, Cat
<1>4. ~Holds(<<>>, c)
  BY DEF Holds
<1>5. \A x \in Chunk : Holds(<<x>>, c) <=> x = c
  <2> TAKE x \in Chunk
  <2>1. DOMAIN <<x>> = {1} /\ <<x>>[1] = x
    BY SingleTyped
  <2> QED BY <2>1 DEF Holds
<1> QED BY <1>1, <1>2, <1>3, <1>4, <1>5

LEMMA Trailing ==
  ASSUME NEW q \in Seq(Chunk), NEW c \in Chunk, NEW d
  PROVE  Holds(Cat(q, <<c>>), d) <=> Holds(q, d) \/ d = c
<1> DEFINE m == <<c>>
<1>1. m \in Seq(Chunk) /\ (Holds(m, d) <=> c = d)
  BY SingleTyped, Members
<1> HIDE DEF m
<1>2. Holds(Cat(q, m), d) <=> Holds(q, d) \/ Holds(m, d)
  BY <1>1, Members
<1> QED BY <1>1, <1>2 DEF m

\* One more at the end, or the first one gone: what is left is in order.
LEMMA OrderGrows ==
  ASSUME NEW a \in Seq(Chunk), Ordered(a), NEW c \in Chunk,
         c = 0 \/ \A x \in Chunk : Holds(a, x) => x < c
  PROVE  Ordered(Cat(a, <<c>>))
<1> DEFINE s == a \o <<c>>
<1>0. Len(a) \in Nat /\ DOMAIN a = 1..Len(a)
      /\ Len(s) = Len(a) + 1 /\ DOMAIN s = 1..(Len(a) + 1)
      /\ s[Len(a) + 1] = c
      /\ \A i \in 1..Len(a) : s[i] = a[i] /\ a[i] \in Chunk
  BY ChunkFacts
<1>1. \A i \in 1..Len(a) : Holds(a, a[i])
  BY <1>0 DEF Holds
<1> HIDE DEF s
<1>2. ASSUME NEW i \in DOMAIN s, NEW j \in DOMAIN s, i < j, s[i] # 0, s[j] # 0
      PROVE  s[i] < s[j]
  <2>1. i \in 1..Len(a)
    BY <1>0, <1>2
  <2>2. CASE j \in 1..Len(a)
    BY <1>0, <1>2, <2>1, <2>2 DEF Ordered
  <2>3. CASE j = Len(a) + 1
    BY <1>0, <1>1, <1>2, <2>1, <2>3
  <2> QED BY <1>0, <2>2, <2>3
<1> QED BY <1>2 DEF Ordered, Cat, s

LEMMA OrderShrinks ==
  ASSUME NEW c \in Chunk, NEW q \in Seq(Chunk), Ordered(Cat(<<c>>, q))
  PROVE  /\ Ordered(q)
         /\ c # 0 => \A x \in Chunk : x # 0 /\ Holds(q, x) => c < x
<1> DEFINE s == <<c>> \o q
<1>0. Len(q) \in Nat /\ DOMAIN q = 1..Len(q)
      /\ DOMAIN s = 1..(Len(q) + 1) /\ s[1] = c
      /\ \A i \in 1..Len(q) : s[i + 1] = q[i]
  <2>1. <<c>> \in Seq(Chunk) /\ Len(<<c>>) = 1 /\ <<c>>[1] = c
    BY SingleTyped
  <2> DEFINE t == <<c>>
  <2>2. t \in Seq(Chunk) /\ Len(t) = 1 /\ t[1] = c
    BY <2>1
  <2> HIDE DEF t
  <2>3. /\ Len(q) \in Nat /\ Len(t) \in Nat /\ DOMAIN q = 1..Len(q) /\ DOMAIN t = 1..Len(t)
        /\ Len(t \o q) = Len(t) + Len(q) /\ DOMAIN (t \o q) = 1..(Len(t) + Len(q))
        /\ \A i \in 1..Len(t) : (t \o q)[i] = t[i]
        /\ \A i \in 1..Len(q) : (t \o q)[Len(t) + i] = q[i]
    BY <2>2, Indices
  <2>4. /\ DOMAIN (t \o q) = 1..(Len(q) + 1) /\ (t \o q)[1] = c
        /\ \A i \in 1..Len(q) : (t \o q)[i + 1] = q[i]
    BY <2>2, <2>3
  <2> QED BY <2>3, <2>4 DEF t
<1>1. \A i, j \in DOMAIN s : i < j /\ s[i] # 0 /\ s[j] # 0 => s[i] < s[j]
  BY DEF Ordered, Cat
<1> HIDE DEF s
<1>2. Ordered(q)
  <2> SUFFICES ASSUME NEW i \in DOMAIN q, NEW j \in DOMAIN q, i < j, q[i] # 0, q[j] # 0
               PROVE  q[i] < q[j]
    BY DEF Ordered
  <2>1. i + 1 \in DOMAIN s /\ j + 1 \in DOMAIN s /\ i + 1 < j + 1
        /\ s[i + 1] = q[i] /\ s[j + 1] = q[j]
    BY <1>0
  <2> QED BY <1>1, <2>1
<1>3. ASSUME c # 0, NEW x \in Chunk, x # 0, Holds(q, x) PROVE c < x
  <2>1. PICK i \in DOMAIN q : q[i] = x
    BY <1>3 DEF Holds
  <2>2. 1 \in DOMAIN s /\ i + 1 \in DOMAIN s /\ 1 < i + 1 /\ s[i + 1] = x
    BY <1>0, <2>1
  <2> QED BY <1>0, <1>1, <1>3, <2>2
<1> QED BY <1>2, <1>3

LEMMA SmallTyped == 0 \in Chunk /\ <<0>> \in Seq(Chunk) /\ <<>> \in Seq(Chunk)
BY ChunkFacts, SingleTyped

\* What a unit may be: no step makes one up.
LEMMA UnitsKept == ASSUME Base, UnitInv, [Next]_vars PROVE UnitInv'
<1>1. /\ r'.size = r.size /\ r.size \in Nat /\ r.pos \in Nat /\ Fine(r) /\ r \in Readable
  BY ReaderSteps, ChunkFacts, StreamsAssumption DEF Base, Fine, Readable
<1>2. ASSUME NEW k \in DOMAIN stack' PROVE stack'[k].arg <= r.size
  <2>1. CASE Same(k)
    BY <2>1 DEF Same, UnitInv
  <2>2. CASE (Turn /\ stack'[k] = Advance) \/ (EmitStart /\ stack'[k] = Begun)
    <3>1. stack # <<>>
      BY <2>2 DEF Turn, EmitStart, At
    <3>2. stack'[k].arg = stack[1].arg /\ 1 \in DOMAIN stack
      BY <2>2, <3>1, TopFacts, AdvanceFacts, EmissionsMove
    <3> QED BY <3>2 DEF UnitInv
  <2>3. CASE ReadData /\ stack'[k] = Emit("data", r.pos + 1) /\ r.pos + 1 \in Chunk
    <3>1. stack'[k].arg = r.pos + 1 /\ r.io
      BY <2>3, FrameFacts, EventFacts DEF ReadData
    <3> QED BY <1>1, <3>1 DEF Fine
  <2>4. CASE \/ stack'[k] = Script \/ stack'[k] \in EndFrames \/ stack'[k] \in FinishFrames
             \/ stack'[k] \in {Emit("end", 0), Do("closeR"), Emit("rerror", 0), Do("readFailed"),
                               Emit("rclose", 0), Emit("werror", 0), Do("writeFailed"),
                               Emit("wclose", 0), Do("unpipe"), Do("pipeFailed"), Do("afterData"),
                               Do("afterWrite"), Emit("drain", 0)}
    <3>1. stack'[k].arg = 0
      BY <2>4, Known, FrameFacts DEF EndFrames, FinishFrames
    <3> QED BY <1>1, <3>1
  <2> QED BY <2>1, <2>2, <2>3, <2>4, Entrances DEF Entered
<1>3. ASSUME NEW c \in Chunk, Holds(Line', c) PROVE c <= r.size
  <2>0. /\ w.writing \in Seq(Chunk) /\ w.queue \in Seq(Chunk) /\ Line \in Seq(Chunk)
        /\ w \in Writable
    BY LineTyped
  <2>1. CASE Holds(Line, c)
    BY <2>1 DEF UnitInv
  <2>2. CASE c = 0
    BY <1>1, <2>2
  <2>3. CASE PipeData /\ Line' = Cat(Line, <<Top.arg>>)
    <3>1. Top.arg <= r.size /\ Top.arg \in Chunk
      <4>1. stack # <<>>
        BY <2>3 DEF PipeData, Turn, At
      <4> QED BY <4>1, TopFacts, StackTyped DEF UnitInv
    <3>2. Holds(Line, c) \/ c = Top.arg
      BY <1>3, <2>0, <2>3, <3>1, Trailing
    <3> QED BY <2>1, <3>1, <3>2
  <2>4. CASE Write /\ Line' = Cat(Line, <<0>>)
    BY <1>3, <2>0, <2>1, <2>2, <2>4, Trailing, SmallTyped
  <2>5. CASE End
    <3>1. PICK chunk \in {<<>>, <<0>>} : Line' = Cat(Line, chunk)
      BY <2>5, WriterEnds
    <3>2. chunk \in Seq(Chunk) /\ (Holds(chunk, c) => c = 0)
      BY <2>0, Members, SmallTyped
    <3>3. Holds(Line, c) \/ c = 0
      BY <1>3, <2>0, <3>1, <3>2, Members
    <3> QED BY <2>1, <2>2, <3>3
  <2>6. CASE DestroyW \/ WriteCompletes
    <3>1. (w'.queue = w.queue \/ w'.queue = <<>>) /\ (w'.writing = w.writing \/ w'.writing = <<>>)
      BY <2>6, WriterCloses
    <3>2. Holds(w'.writing, c) \/ Holds(w'.queue, c)
      <4>1. w'.writing \in Seq(Chunk) /\ w'.queue \in Seq(Chunk)
        BY <2>0, <3>1, SmallTyped
      <4>2. Holds(Cat(w'.writing, w'.queue), c)
        BY <1>3 DEF Line
      <4> QED BY <4>1, <4>2, Members
    <3>3. Holds(w.writing, c) \/ Holds(w.queue, c)
      BY <2>0, <3>1, <3>2, Members
    <3>4. Holds(Line, c)
      BY <2>0, <3>3, Members DEF Line
    <3> QED BY <2>1, <3>4
  <2> QED BY <1>3, <2>1, <2>3, <2>4, <2>5, <2>6, WriterSteps
<1> QED BY <1>1, <1>2, <1>3 DEF UnitInv

-----------------------------------------------------------------------------
\* A function under way stays so until it is on top: no step forgets it. (Only a
\* throwing listener takes the emission below it along.)
Stays(j) ==
  \E k \in DOMAIN stack' : stack'[k] = stack[j] /\ Len(stack') - k = Len(stack) - j

LEMMA StackIndices ==
  ASSUME NEW a \in Seq(Legal), NEW b \in Seq(Legal)
  PROVE  /\ Len(a) \in Nat /\ Len(b) \in Nat /\ DOMAIN a = 1..Len(a) /\ DOMAIN b = 1..Len(b)
         /\ a \o b \in Seq(Legal)
         /\ Len(a \o b) = Len(a) + Len(b) /\ DOMAIN (a \o b) = 1..(Len(a) + Len(b))
         /\ \A i \in 1..Len(a) : (a \o b)[i] = a[i]
         /\ \A j \in 1..Len(b) : (a \o b)[Len(a) + j] = b[j]
OBVIOUS

LEMMA Remains ==
  ASSUME Base, NEW fs \in Seq(Legal), NEW j \in DOMAIN stack
  PROVE  /\ stack' = fs \o stack => Stays(j)
         /\ Then(fs) /\ j > 1 => Stays(j)
<1>0. /\ stack \in Seq(Legal) /\ Len(stack) \in Nat /\ DOMAIN stack = 1..Len(stack) /\ stack # <<>>
      /\ Len(fs) \in Nat
  <2>1. stack \in Seq(Legal)
    BY DEF Base
  <2> QED BY <2>1, Lengths
<1>1. ASSUME stack' = fs \o stack PROVE Stays(j)
  <2>1. /\ Len(stack') = Len(fs) + Len(stack) /\ DOMAIN stack' = 1..(Len(fs) + Len(stack))
        /\ stack'[Len(fs) + j] = stack[j]
    BY <1>0, <1>1
  <2>2. Len(fs) + j \in DOMAIN stack' /\ Len(stack') - (Len(fs) + j) = Len(stack) - j
    BY <1>0, <2>1
  <2> QED BY <2>1, <2>2 DEF Stays
<1>2. ASSUME Then(fs), j > 1 PROVE Stays(j)
  <2> DEFINE t == Tail(stack)
  <2>1. /\ t \in Seq(Legal) /\ Len(t) = Len(stack) - 1
        /\ \A i \in DOMAIN t : t[i] = stack[i + 1]
    BY <1>0, TailTyped
  <2>2. stack' = fs \o t
    BY <1>2 DEF Then
  <2> HIDE DEF t
  <2>3. DOMAIN t = 1..(Len(stack) - 1) /\ j - 1 \in DOMAIN t /\ t[j - 1] = stack[j]
    BY <1>0, <1>2, <2>1, Lengths
  <2>4. /\ Len(stack') = Len(fs) + Len(t) /\ DOMAIN stack' = 1..(Len(fs) + Len(t))
        /\ stack'[Len(fs) + (j - 1)] = t[j - 1]
    <3>1. /\ Len(fs \o t) = Len(fs) + Len(t) /\ DOMAIN (fs \o t) = 1..(Len(fs) + Len(t))
          /\ \A i \in 1..Len(t) : (fs \o t)[Len(fs) + i] = t[i]
      BY <2>1, StackIndices
    <3>2. j - 1 \in 1..Len(t)
      BY <2>1, <2>3
    <3>3. (fs \o t)[Len(fs) + (j - 1)] = t[j - 1]
      BY <3>1, <3>2
    <3> QED BY <2>2, <3>1, <3>3
  <2>5. /\ Len(fs) + (j - 1) \in DOMAIN stack'
        /\ Len(stack') - (Len(fs) + (j - 1)) = Len(stack) - j
    BY <1>0, <1>2, <2>1, <2>3, <2>4
  <2> QED BY <2>3, <2>4, <2>5 DEF Stays
<1> QED BY <1>1, <1>2

\* The emission that a listener was called from is found again, one further.
LEMMA Advances ==
  ASSUME Base, Turn, NEW fs \in Seq(Legal), Onward(fs)
  PROVE  /\ \E gs \in Seq(Legal) : Then(gs)
         /\ \E k \in DOMAIN stack' : stack'[k] = Advance
<1> DEFINE a == <<Advance>>
           gs == fs \o a
           t == Tail(stack)
<1>1. a \in Seq(Legal) /\ Len(a) = 1 /\ a[1] = Advance /\ stack # <<>>
  BY AdvanceFacts, SingleTyped
<1>2. Then(gs) /\ stack' = gs \o t /\ t \in Seq(Legal)
  BY <1>1, TailTyped DEF Onward, Then, Advance, Base
<1> HIDE DEF a, t
<1>3. gs \in Seq(Legal) /\ Len(fs) \in Nat /\ Len(gs) = Len(fs) + 1 /\ gs[Len(fs) + 1] = Advance
  <2>1. 1 \in 1..Len(a)
    BY <1>1
  <2>2. /\ fs \o a \in Seq(Legal) /\ Len(fs) \in Nat /\ Len(fs \o a) = Len(fs) + Len(a)
        /\ \A i \in 1..Len(a) : (fs \o a)[Len(fs) + i] = a[i]
    BY <1>1, StackIndices
  <2>3. (fs \o a)[Len(fs) + 1] = a[1]
    BY <2>1, <2>2
  <2> QED BY <1>1, <2>2, <2>3
<1> HIDE DEF gs
<1>4. Len(fs) + 1 \in DOMAIN stack' /\ stack'[Len(fs) + 1] = Advance
  <2>1. /\ DOMAIN (gs \o t) = 1..(Len(gs) + Len(t)) /\ Len(t) \in Nat
        /\ \A i \in 1..Len(gs) : (gs \o t)[i] = gs[i]
    BY <1>2, <1>3, StackIndices
  <2>2. Len(fs) + 1 \in 1..Len(gs)
    BY <1>3
  <2> QED BY <1>2, <1>3, <2>1, <2>2
<1> QED BY <1>2, <1>3, <1>4

LEMMA TodosLegal ==
  ASSUME Base
  PROVE  /\ Resumed(r).todo \in Seq(Legal) /\ Ended(w).todo \in Seq(Legal)
         /\ NextRead(r).todo \in Seq(Legal)
         /\ \A chunk \in {<<>>, <<0>>} : Ended([w EXCEPT !.queue = @ \o chunk]).todo \in Seq(Legal)
<1>1. \A s : Ended(s).todo \in Seq(Legal)
  <2> TAKE s
  <2>1. Ended(s).todo = FinishTodo \/ Ended(s).todo = <<>>
    BY DEF Ended, FinishTodo
  <2> QED BY <2>1, Todos
<1>2. Resumed(r).todo \in Seq(Legal) /\ NextRead(r).todo \in Seq(Legal)
  BY ResumedFine, NextReadFine, Todos DEF Base
<1> QED BY <1>1, <1>2

LEMMA Shape ==
  ASSUME Base, [Next]_vars, ~ScriptThrows, stack # <<>>
  PROVE  \/ \E fs \in Seq(Legal) : stack' = fs \o stack
         \/ Top.do # "emit" /\ \E fs \in Seq(Legal) : Then(fs)
         \/ EmitStart /\ <<Begun>> \in Seq(Legal) /\ Then(<<Begun>>)
         \/ EmitEnd /\ Then(<<>>)
         \/ /\ Turn /\ (EmitSkip \/ EmitUser \/ PipeData \/ Top.ev # "data")
            /\ \E fs \in Seq(Legal) : Onward(fs)
<1> DEFINE Pushes == \E fs \in Seq(Legal) : stack' = fs \o stack
           Pops == Top.do # "emit" /\ \E fs \in Seq(Legal) : Then(fs)
<1>0. stack \in Seq(Legal) /\ <<>> \in Seq(Legal) /\ <<>> \o stack = stack
  BY ConcatEmptySeq DEF Base
<1>1. UNCHANGED stack => Pushes
  BY <1>0
<1>2. CASE AfterData
  <2>1. <<Emit("end", 0), Do("closeR")>> \in Seq(Legal)
    BY Known, PairTyped
  <2>2. \/ Then(<<Emit("end", 0), Do("closeR")>>) \/ Then(<<>>) \/ Then(NextRead(r).todo)
    BY <1>2 DEF AfterData
  <2>3. Top.do # "emit"
    BY <1>2 DEF AfterData, At
  <2> QED BY <1>0, <2>1, <2>2, <2>3, TodosLegal
<1>3. CASE CloseR \/ EndOfRead \/ ReadFailed \/ FinishW \/ WriteFailed \/ Unpipe \/ PipeFailed
           \/ ScriptReturns \/ AfterWrite
  <2>1. <<Emit("rclose", 0)>> \in Seq(Legal) /\ <<Emit("wclose", 0)>> \in Seq(Legal)
        /\ <<Emit("drain", 0)>> \in Seq(Legal)
        /\ <<Emit("finish", 0), Do("finishW")>> \in Seq(Legal)
    BY Known, SingleTyped, PairTyped
  <2>2. \/ Then(<<Emit("rclose", 0)>>) \/ Then(<<>>) \/ Then(<<Emit("wclose", 0)>>)
        \/ Then(<<Emit("drain", 0)>>) \/ Then(<<Emit("finish", 0), Do("finishW")>>)
    BY <1>3 DEF CloseR, EndOfRead, ReadFailed, FinishW, WriteFailed, Unpipe, PipeFailed,
                ScriptReturns, AfterWrite
  <2>3. Top.do # "emit"
    BY <1>3 DEF CloseR, EndOfRead, ReadFailed, FinishW, WriteFailed, Unpipe, PipeFailed,
                ScriptReturns, AfterWrite, At
  <2> QED BY <1>0, <2>1, <2>2, <2>3
<1>4. CASE EmitStart
  <2>1. Then(<<Begun>>) /\ <<Begun>> \in Seq(Legal)
    BY <1>4, EmissionsMove, SingleTyped DEF EmitStart, Begun
  <2> QED BY <1>4, <2>1
<1>5. CASE EmitEnd
  BY <1>5 DEF EmitEnd
<1>6. CASE EmitSkip \/ EmitUser \/ PipeData \/ PipeClose
  <2>1. <<Script>> \in Seq(Legal)
    BY FrameFacts, SingleTyped
  <2>2. Turn /\ (Onward(<<>>) \/ Onward(<<Script>>)) /\ (PipeClose => Top.ev # "data")
    BY <1>6 DEF EmitSkip, EmitUser, PipeData, PipeClose
  <2> QED BY <1>0, <1>6, <2>1, <2>2
<1>7. CASE PipeDrain
  <2>1. Turn /\ Top.ev # "data" /\ (Onward(<<>>) \/ Onward(Resumed(r).todo))
    BY <1>7 DEF PipeDrain
  <2> QED BY <1>0, <2>1, TodosLegal
<1>8. CASE PipeEnd
  <2>1. <<Do("unpipe")>> \in Seq(Legal)
    BY Known, SingleTyped
  <2>2. Turn /\ Top.ev # "data"
        /\ (Onward(<<>> \o <<Do("unpipe")>>) \/ Onward(Ended(w).todo \o <<Do("unpipe")>>))
    BY <1>8 DEF PipeEnd
  <2>3. <<>> \o <<Do("unpipe")>> \in Seq(Legal) /\ Ended(w).todo \o <<Do("unpipe")>> \in Seq(Legal)
    BY <1>0, <2>1, JoinTyped, TodosLegal
  <2> QED BY <2>2, <2>3
<1>9. CASE PipeError
  <2>1. <<Emit("werror", 0), Do("pipeFailed")>> \in Seq(Legal)
    BY Known, PairTyped
  <2>2. Turn /\ Top.ev # "data" /\ Onward(<<Emit("werror", 0), Do("pipeFailed")>>)
    BY <1>9 DEF PipeError
  <2> QED BY <2>1, <2>2
<1>10. CASE Resume \/ End \/ DestroyR \/ DestroyW
  <2>1. <<Emit("rclose", 0)>> \in Seq(Legal) /\ <<Emit("wclose", 0)>> \in Seq(Legal)
    BY Known, SingleTyped
  <2>2. \/ stack' = Resumed(r).todo \o stack
        \/ \E chunk \in {<<>>, <<0>>} : stack' = Ended([w EXCEPT !.queue = @ \o chunk]).todo \o stack
        \/ stack' = <<Emit("rclose", 0)>> \o stack
        \/ stack' = <<Emit("wclose", 0)>> \o stack
    BY <1>10 DEF Resume, End, DestroyR, DestroyW
  <2>3. Pushes
    BY <2>1, <2>2, TodosLegal
  <2> QED BY <2>3
<1>11. CASE OnData \/ OnEnd \/ Pause \/ Pipe \/ Write \/ Cork \/ Uncork
  <2>1. UNCHANGED stack
    BY <1>11 DEF OnData, OnEnd, Pause, Pipe, Write, Cork, Uncork
  <2> QED BY <1>1, <2>1
<1>12. CASE DeferredRead \/ ReadCompletes \/ WriteCompletes \/ RunScript
  BY <1>12 DEF DeferredRead, ReadCompletes, ReadDropped, ReadData, ReadError, ReadNothing,
               WriteCompletes, WriteDropped, WriteDone, WriteError, RunScript, Idle
<1>13. CASE UNCHANGED vars
  BY <1>1, <1>13 DEF vars
<1> QED BY <1>2, <1>3, <1>4, <1>5, <1>6, <1>7, <1>8, <1>9, <1>10, <1>11, <1>12, <1>13
        DEF Next, Native, ScriptCalls

-----------------------------------------------------------------------------
LEMMA FramesTyped ==
  ASSUME Base, NEW j \in DOMAIN stack
  PROVE  j \in Nat /\ j > 0 /\ stack[j] \in Legal /\ stack[j].i \in Nat /\ stack[j].n \in Nat
<1>1. stack \in Seq(Legal)
  BY DEF Base
<1>2. j \in Nat /\ j > 0 /\ stack[j] \in Legal
  BY <1>1
<1>3. \A f \in Legal : f.i \in Nat /\ f.n \in Nat
  BY DEF Legal, Frame
<1> QED BY <1>2, <1>3

LEMMA DataVector ==
  ASSUME Base, OnInv, pipe = "piping"
  PROVE  /\ Len(on["data"]) \in {1, 2}
         /\ \A i \in 1..Len(on["data"]) :
              /\ on["data"][i] = "pipe" => i = Len(on["data"])
              /\ on["data"][i] = "user" => i = 1 /\ Len(on["data"]) = 2
              /\ on["data"][i] \in {"user", "pipe"}
<1>1. "data" \in Events /\ Piped("data")
  BY DEF Piped, Events, ReadEvents
<1>2. \/ Len(on["data"]) = 1 /\ on["data"][1] = "pipe"
      \/ Len(on["data"]) = 2 /\ on["data"][1] = "user" /\ on["data"][2] = "pipe"
  BY <1>1 DEF OnInv
<1>3. CASE Len(on["data"]) = 1 /\ on["data"][1] = "pipe"
  <2>1. \A i \in 1..Len(on["data"]) : i = 1
    BY <1>3
  <2> QED BY <1>3, <2>1
<1>4. CASE Len(on["data"]) = 2 /\ on["data"][1] = "user" /\ on["data"][2] = "pipe"
  <2>1. \A i \in 1..Len(on["data"]) : i = 1 \/ i = 2
    BY <1>4
  <2> QED BY <1>4, <2>1
<1> QED BY <1>2, <1>3, <1>4

\* The pipe's handler is the last of its vector: a unit waits for it from the
\* read on until it has run, whatever happens in between.
LEMMA WaitEnds ==
  ASSUME Careless = {}, Base, OnInv, OpenInv, PlaceInv, FaultInv, GoodInv, [Next]_vars, Good',
         NEW k \in DOMAIN stack', IsEmit(stack'[k], "data"), stack'[k].i <= Len(on'["data"])
  PROVE  /\ ReadData \/ Waits
         /\ ~PipeData
<1>0. /\ \A j \in DOMAIN stack : IsEmit(stack[j], "data") =>
           /\ on'["data"] = on["data"] /\ Len(stack) - j = 1
           /\ pipe = "piping" /\ (stack[j].i > 0 => stack[j].n = Len(on["data"]))
      /\ (\A j \in DOMAIN stack : stack[j].i \in Nat) /\ "data" \in Events
  <2>1. Good
    BY StillGood
  <2>2. \A j \in DOMAIN stack : stack[j].i \in Nat
    BY FramesTyped
  <2> QED BY <2>1, <2>2, DataStays, EventFacts DEF PlaceInv, GoodInv
<1>1. CASE Same(k)
  <2>1. PICK j \in DOMAIN stack : stack'[k] = stack[j] /\ Len(stack') - k = Len(stack) - j
    BY <1>1 DEF Same
  <2>2. Pending(stack[j])
    BY <1>0, <2>1 DEF Pending
  <2>3. Waits
    BY <2>2 DEF Waits
  <2>4. ASSUME PipeData PROVE FALSE
    <3>1. Turned({}) /\ Turn /\ Top.ev = "data" /\ Listener = "pipe"
      BY <2>4, PipeMoves DEF PipeData
    <3>2. stack # <<>> /\ 1 \in DOMAIN stack /\ Top = stack[1] /\ IsEmit(stack[1], "data")
          /\ Len(stack) \in Nat
      BY <3>1, AdvanceFacts, TopFacts DEF IsEmit
    <3>3. Len(stack) - 1 = 1
      BY <1>0, <3>2
    <3>4. CASE Below(1, k)
      <4>1. PICK m \in DOMAIN stack : m > 1 /\ stack'[k] = stack[m]
        BY <3>4 DEF Below
      <4>2. Len(stack) - m = 1
        BY <1>0, <4>1
      <4>3. m \in Nat /\ m > 1
        BY <4>1, FramesTyped
      <4>4. Len(stack) \in Nat
        BY <3>2
      <4>5. \A n, i \in Nat : n - 1 = 1 /\ n - i = 1 => i = 1
        OBVIOUS
      <4>6. m = 1
        BY <3>3, <4>2, <4>3, <4>4, <4>5
      <4> QED BY <4>3, <4>6
    <3>5. CASE stack'[k] = Advance
      <4>1. stack'[k].i = Top.i + 1 /\ Top.i > 0
        BY <3>1, <3>5, AdvanceFacts
      <4>2. Top.i = Len(on["data"])
        <5>1. Top.i \in Nat /\ Top.i <= Len(on["data"]) /\ on["data"][Top.i] = "pipe"
          BY <3>1, AdvanceFacts DEF Listener
        <5>2. Top.i \in 1..Len(on["data"]) /\ pipe = "piping"
          BY <1>0, <3>2, <4>1, <5>1, Vectors
        <5> QED BY <5>1, <5>2, DataVector
      <4> QED BY <1>0, <3>2, <4>1, <4>2
    <3> QED BY <3>1, <3>4, <3>5 DEF Turned, EnterAt
  <2> QED BY <2>3, <2>4
<1>2. CASE Turn /\ stack'[k] = Advance
  <2>1. /\ Top.ev = "data" /\ IsEmit(stack[1], "data") /\ 1 \in DOMAIN stack
        /\ stack'[k].i = stack[1].i + 1 /\ Top = stack[1] /\ stack[1].i > 0
    BY <1>2, AdvanceFacts DEF IsEmit
  <2>2. on'["data"] = on["data"] /\ Len(on["data"]) \in Nat /\ stack[1].i \in Nat
    BY <1>0, <2>1, Vectors
  <2>3. Pending(stack[1])
    BY <2>1, <2>2 DEF Pending
  <2>4. ~PipeData
    <3> SUFFICES ASSUME PipeData PROVE FALSE
      OBVIOUS
    <3>1. stack[1].i <= Len(on["data"]) /\ on["data"][stack[1].i] = "pipe"
      BY <2>1, <2>2 DEF PipeData, Listener
    <3>2. stack[1].i = Len(on["data"])
      <4>1. stack[1].i \in 1..Len(on["data"]) /\ pipe = "piping"
        BY <1>0, <2>1, <2>2, <3>1
      <4> QED BY <3>1, <4>1, DataVector
    <3> QED BY <2>1, <2>2, <3>2
  <2> QED BY <2>1, <2>3, <2>4 DEF Waits
<1>3. CASE EmitStart /\ stack'[k] = Begun
  <2>1. /\ IsEmit(stack[1], "data") /\ 1 \in DOMAIN stack /\ stack[1].i = 0 /\ stack'[k].i = 1
    <3>1. stack # <<>> /\ Top.i = 0 /\ Top.do = "emit" /\ ~Turn
      BY <1>3 DEF EmitStart, At, Turn
    <3> QED BY <1>3, <3>1, EmissionsMove, TopFacts DEF IsEmit
  <2>2. on'["data"] = on["data"] /\ Len(on["data"]) \in Nat
    BY <1>0, <2>1, Vectors
  <2>3. Pending(stack[1])
    BY <2>1, <2>2 DEF Pending
  <2>4. ~PipeData
    BY <1>3 DEF PipeData, EmitStart, Turn
  <2> QED BY <2>1, <2>3, <2>4 DEF Waits
<1>4. CASE ReadData
  BY <1>4 DEF ReadData, PipeData, Idle, Turn, At
<1>5. CASE \/ stack'[k] = Script \/ stack'[k] = Emit("rclose", 0) \/ stack'[k] = Emit("drain", 0)
           \/ stack'[k] \in {Emit("end", 0), Do("endOfRead"), Do("closeR")}
           \/ stack'[k] = Do("afterWrite") \/ stack'[k] = Do("unpipe")
  <2>1. stack'[k].do # "emit" \/ stack'[k].ev # "data"
    BY <1>5, Known, FrameFacts
  <2> QED BY <2>1 DEF IsEmit
<1> QED BY <1>1, <1>2, <1>3, <1>4, <1>5, GoodEntrances DEF GoodEntered

LEMMA WaitLasts ==
  ASSUME Careless = {}, Base, OnInv, OpenInv, PlaceInv, FaultInv, GoodInv, [Next]_vars, Good',
         Waits, ~PipeData
  PROVE  Waits'
<1>1. PICK j \in DOMAIN stack : Pending(stack[j])
  BY DEF Waits
<1>2. /\ on'["data"] = on["data"] /\ pipe = "piping" /\ IsEmit(stack[j], "data")
      /\ stack[j].i <= Len(on["data"]) /\ (stack[j].i > 0 => stack[j].n = Len(on["data"]))
      /\ j \in Nat /\ j > 0 /\ stack[j].i \in Nat /\ stack[j].n \in Nat /\ stack # <<>>
      /\ Len(on["data"]) \in {1, 2}
  <2>1. IsEmit(stack[j], "data") /\ Good
    BY <1>1, StillGood DEF Pending
  <2>2. pipe = "piping" /\ (stack[j].i > 0 => stack[j].n = Len(on["data"]))
    BY <2>1 DEF GoodInv
  <2>3. j \in Nat /\ j > 0 /\ stack[j].i \in Nat /\ stack[j].n \in Nat
    BY FramesTyped
  <2>4. stack # <<>>
    <3>1. stack \in Seq(Legal)
      BY DEF Base
    <3> QED BY <3>1
  <2> QED BY <1>1, <2>1, <2>2, <2>3, <2>4, DataStays, DataVector DEF Pending
<1>3. ASSUME NEW k \in DOMAIN stack', IsEmit(stack'[k], "data"), stack'[k].i <= Len(on["data"])
      PROVE  Waits'
  BY <1>2, <1>3 DEF Waits, Pending
<1>4. Stays(j) => Waits'
  BY <1>2, <1>3 DEF Stays
<1>5. ASSUME NEW fs \in Seq(Legal), Then(fs), j > 1 PROVE Waits'
  BY <1>4, <1>5, Remains
<1>6. j = 1 => Top = stack[1] /\ Top.do = "emit" /\ Top.ev = "data"
  BY <1>2, TopFacts DEF IsEmit
<1>7. j = 1 \/ j > 1
  BY <1>2
<1>8. CASE \E fs \in Seq(Legal) : stack' = fs \o stack
  BY <1>4, <1>8, Remains
<1>9. CASE Top.do # "emit" /\ \E fs \in Seq(Legal) : Then(fs)
  BY <1>5, <1>6, <1>7, <1>9
<1>10. CASE EmitStart /\ <<Begun>> \in Seq(Legal) /\ Then(<<Begun>>)
  <2>1. CASE j > 1
    BY <1>5, <1>10, <2>1
  <2>2. CASE j = 1
    <3> DEFINE b == <<Begun>>
               t == Tail(stack)
    <3>1. b \in Seq(Legal) /\ Len(b) = 1 /\ b[1] = Begun /\ t \in Seq(Legal) /\ stack' = b \o t
      <4>1. Begun \in Legal
        BY <1>10, EmissionsMove
      <4> QED BY <1>2, <1>10, <4>1, SingleTyped, StackTyped DEF Then
    <3> HIDE DEF b, t
    <3>2. /\ DOMAIN (b \o t) = 1..(Len(b) + Len(t)) /\ Len(t) \in Nat
          /\ \A i \in 1..Len(b) : (b \o t)[i] = b[i]
      BY <3>1, StackIndices
    <3>3. 1 \in 1..Len(b) /\ 1 \in DOMAIN (b \o t)
      BY <3>1, <3>2
    <3>4. 1 \in DOMAIN stack' /\ stack'[1] = Begun
      BY <3>1, <3>2, <3>3
    <3>5. IsEmit(stack'[1], "data") /\ stack'[1].i = 1
      BY <1>6, <1>10, <2>2, <3>4, EmissionsMove DEF IsEmit
    <3>6. 1 <= Len(on["data"])
      <4>1. Len(on["data"]) = 1 \/ Len(on["data"]) = 2
        BY <1>2
      <4> QED BY <4>1
    <3> QED BY <1>3, <3>4, <3>5, <3>6
  <2> QED BY <1>7, <2>1, <2>2
<1>11. CASE EmitEnd /\ Then(<<>>)
  <2>1. CASE j > 1
    BY <1>5, <1>11, <2>1, Todos
  <2>2. CASE j = 1
    <3>1. stack[1].i > stack[1].n
      BY <1>6, <1>11, <2>2 DEF EmitEnd
    <3>2. stack[1].i > 0
      BY <1>2, <2>2, <3>1
    <3> QED BY <1>2, <2>2, <3>1, <3>2
  <2> QED BY <1>7, <2>1, <2>2
<1>12. CASE /\ Turn /\ (EmitSkip \/ EmitUser \/ PipeData \/ Top.ev # "data")
            /\ \E fs \in Seq(Legal) : Onward(fs)
  <2>1. (\E gs \in Seq(Legal) : Then(gs)) /\ \E k \in DOMAIN stack' : stack'[k] = Advance
    BY <1>12, Advances
  <2>2. CASE j > 1
    BY <1>5, <2>1, <2>2
  <2>3. CASE j = 1
    <3>1. EmitSkip \/ EmitUser
      BY <1>6, <1>12, <2>3
    <3>2. stack[1].i \in 1..Len(on["data"]) /\ Listener = on["data"][stack[1].i]
      <4>1. stack[1].i > 0
        BY <1>6, <1>12, <2>3, AdvanceFacts
      <4> QED BY <1>2, <1>6, <2>3, <4>1 DEF Listener
    <3>3. Listener \in {"user", "pipe"} /\ (Listener = "user" => stack[1].i = 1 /\ Len(on["data"]) = 2)
      BY <1>2, <3>2, DataVector
    <3>4. Listener = "user"
      BY <3>1, <3>3 DEF EmitSkip, EmitUser
    <3>5. PICK k \in DOMAIN stack' : stack'[k] = Advance
      BY <2>1
    <3>6. IsEmit(stack'[k], "data") /\ stack'[k].i = stack[1].i + 1
      BY <1>6, <1>12, <2>3, <3>5, AdvanceFacts DEF IsEmit
    <3>7. stack'[k].i <= Len(on["data"])
      <4>1. stack[1].i = 1 /\ Len(on["data"]) = 2
        BY <3>3, <3>4
      <4>2. stack'[k].i = 2
        BY <3>6, <4>1
      <4> QED BY <4>1, <4>2
    <3> QED BY <1>3, <3>6, <3>7
  <2> QED BY <1>7, <2>2, <2>3
<1> QED BY <1>2, <1>8, <1>9, <1>10, <1>11, <1>12, Shape, StillGood

LEMMA WaitSteps ==
  ASSUME Careless = {}, Base, OnInv, OpenInv, PlaceInv, FaultInv, GoodInv, [Next]_vars, Good'
  PROVE  /\ PipeData => /\ Waits /\ ~Waits' /\ Top.arg = r.pos /\ r.pos > 0
                        /\ ~w.ended /\ ~w.destroyed /\ r'.pos = r.pos
         /\ ReadData => ~Waits /\ Waits'
         /\ ~PipeData /\ ~ReadData => Waits' = Waits
<1>1. ASSUME Waits' PROVE (ReadData \/ Waits) /\ ~PipeData
  <2>1. PICK k \in DOMAIN stack' : IsEmit(stack'[k], "data") /\ stack'[k].i <= Len(on'["data"])
    BY <1>1 DEF Waits, Pending
  <2> QED BY <2>1, WaitEnds
<1>2. ASSUME PipeData
      PROVE  /\ Waits /\ Top.arg = r.pos /\ r.pos > 0 /\ ~w.ended /\ ~w.destroyed
             /\ r'.pos = r.pos
  <2>1. /\ Top = stack[1] /\ 1 \in DOMAIN stack /\ IsEmit(stack[1], "data")
        /\ Listener = "pipe" /\ Top.i <= Len(on["data"])
    <3>1. Turn /\ Top.ev = "data" /\ Listener = "pipe"
      BY <1>2 DEF PipeData
    <3>2. Top = stack[1] /\ 1 \in DOMAIN stack /\ Top.do = "emit"
      BY <3>1, AdvanceFacts
    <3>3. Top.i <= Len(on["data"])
      BY <3>1 DEF Listener
    <3> QED BY <3>1, <3>2, <3>3 DEF IsEmit
  <2>2. Good /\ ~w.destroyed
    BY StillGood
  <2>3. Top.arg = r.pos /\ r.pos > 0 /\ ~r.ended /\ ~w.ended
    BY <2>1, <2>2 DEF GoodInv
  <2>4. r'.pos = r.pos
    BY <2>1, DataStays
  <2> QED BY <2>1, <2>2, <2>3, <2>4 DEF Waits, Pending
<1>3. ASSUME ReadData PROVE ~Waits /\ Waits'
  <2>1. stack = <<>>
    BY <1>3 DEF ReadData, Idle
  <2>2. /\ 1 \in DOMAIN stack' /\ stack'[1] = Emit("data", r.pos + 1) /\ r.pos + 1 \in Chunk
        /\ on' = on
    BY <1>3, ReadsMove DEF ReadData
  <2>3. IsEmit(stack'[1], "data") /\ stack'[1].i = 0
    BY <2>2, FrameFacts, EventFacts DEF IsEmit
  <2>4. 0 <= Len(on'["data"])
    BY <2>2, Vectors, EventFacts
  <2> QED BY <2>1, <2>2, <2>3, <2>4 DEF Waits, Pending
<1>4. Waits /\ ~PipeData => Waits'
  BY WaitLasts
<1> QED BY <1>1, <1>2, <1>3, <1>4 DEF Waits

-----------------------------------------------------------------------------
\* What is written next is the unit after the last one in the file.
LEMMA Leading ==
  ASSUME NEW c \in Chunk, NEW q \in Seq(Chunk), NEW d
  PROVE  Holds(Cat(<<c>>, q), d) <=> d = c \/ Holds(q, d)
<1> DEFINE m == <<c>>
<1>1. m \in Seq(Chunk) /\ (Holds(m, d) <=> c = d)
  BY SingleTyped, Members
<1> HIDE DEF m
<1>2. Holds(Cat(m, q), d) <=> Holds(m, d) \/ Holds(q, d)
  BY <1>1, Members
<1> QED BY <1>1, <1>2 DEF m

LEMMA Writing ==
  ASSUME Base, w.writing # <<>>
  PROVE  \E c \in Chunk : w.writing = <<c>> /\ Holds(Line, c) /\ Line = Cat(<<c>>, w.queue)
<1>1. w.writing \in Seq(Chunk) /\ w.queue \in Seq(Chunk) /\ Len(w.writing) <= 1
  BY LineTyped DEF FineW
<1>2. \A s \in Seq(Chunk) : s # <<>> /\ Len(s) <= 1 => Len(s) = 1 /\ s[1] \in Chunk /\ s = <<s[1]>>
  <2> SUFFICES ASSUME NEW s \in Seq(Chunk), s # <<>>, Len(s) <= 1
               PROVE  Len(s) = 1 /\ s[1] \in Chunk /\ s = <<s[1]>>
    OBVIOUS
  <2>0. Len(s) \in Nat /\ Len(s) # 0
    BY EmptySeq
  <2>1. Len(s) = 1 /\ s[1] \in Chunk
    <3>1. \A n \in Nat : n # 0 /\ n <= 1 => n = 1
      OBVIOUS
    <3>2. Len(s) = 1
      BY <2>0, <3>1, Zenon
    <3> QED BY <3>2, ElementOfSeq
  <2>2. s = <<s[1]>>
    BY <2>1
  <2> QED BY <2>1, <2>2
<1>3. PICK c \in Chunk : w.writing = <<c>>
  <2> DEFINE s == w.writing
  <2>1. s \in Seq(Chunk) /\ s # <<>> /\ Len(s) <= 1
    BY <1>1
  <2> HIDE DEF s
  <2>2. s[1] \in Chunk /\ s = <<s[1]>>
    BY <1>2, <2>1
  <2> QED BY <2>2 DEF s
<1>4. <<c>> \in Seq(Chunk)
  BY SingleTyped
<1>5. Line = Cat(<<c>>, w.queue)
  BY <1>3 DEF Line
<1> QED BY <1>1, <1>3, <1>5, Leading

LEMMA NextUnit ==
  ASSUME Base, UnitInv, CopyInv, Good, NEW c \in Chunk, c # 0, w.writing = <<c>>
  PROVE  c = Len(file.units) + 1 /\ c <= r.size
<1>0. /\ w.queue \in Seq(Chunk) /\ <<c>> \in Seq(Chunk) /\ Line = Cat(<<c>>, w.queue)
      /\ Holds(Line, c) /\ r.size \in Nat /\ r.pos \in Nat /\ r.pos <= r.size
      /\ Len(file.units) \in Nat /\ c \in Nat
  <2>1. w.queue \in Seq(Chunk) /\ <<c>> \in Seq(Chunk) /\ Line = Cat(<<c>>, w.queue)
    BY LineTyped, SingleTyped DEF Line
  <2>2. Holds(Line, c)
    BY <2>1, Leading
  <2>3. r.size \in Nat /\ r.pos \in Nat /\ r.pos <= r.size
    BY ChunkFacts, StreamsAssumption DEF Base, Fine, Readable
  <2>4. file.units \in Seq(Chunk)
    BY DEF Base, Files
  <2>5. Len(file.units) \in Nat
    BY <2>4
  <2> QED BY <2>1, <2>2, <2>3, <2>5, ChunkFacts
<1>1. Sent \in Int /\ Sent <= r.pos
  BY <1>0 DEF Sent
<1>2. c <= r.size
  BY <1>0 DEF UnitInv
<1>3. Len(file.units) < c /\ c <= Sent
  BY <1>0, <1>2 DEF CopyInv
<1> DEFINE u == Len(file.units) + 1
<1>4. u \in 1..r.size /\ u <= Sent /\ u \in Chunk
  <2>1. u \in 1..r.size /\ u <= Sent
    BY <1>0, <1>1, <1>2, <1>3
  <2>2. r.size \in Sizes
    BY DEF Base, Fine, Readable
  <2> QED BY <2>1, <2>2, ChunkFacts
<1>5. Holds(Line, u)
  BY <1>0, <1>4 DEF CopyInv
<1>6. c = u \/ Holds(w.queue, u)
  BY <1>0, <1>5, Leading
<1>7. ASSUME Holds(w.queue, u) PROVE FALSE
  <2>1. c < u
    <3>1. Ordered(Cat(<<c>>, w.queue))
      BY <1>0 DEF CopyInv
    <3>2. u # 0
      BY <1>4
    <3> QED BY <1>0, <1>4, <1>7, <3>1, <3>2, OrderShrinks
  <2> QED BY <1>0, <1>3, <2>1
<1> QED BY <1>2, <1>6, <1>7

\* A write that completes: the file grows by what was written, unless that was
\* the script's own.
LEMMA Grows ==
  ASSUME Base, NEW c \in Chunk, w.writing = <<c>>
  PROVE  /\ Stored.units = (IF c = 0 THEN file.units ELSE Append(file.units, c))
         /\ file.units \in Seq(Chunk) /\ Len(file.units) \in Nat
         /\ Len(Append(file.units, c)) = Len(file.units) + 1
<1>1. file.units \in Seq(Chunk)
  BY DEF Base, Files
<1>2. file.units \o <<c>> = Append(file.units, c)
  BY <1>1, AppendIsConcat
<1>3. w.writing = <<0>> <=> c = 0
  <2>1. w.writing[1] = c /\ <<0>>[1] = 0
    BY SingleTyped
  <2> QED BY <2>1
<1>4. Stored.units = IF w.writing = <<0>> THEN file.units ELSE file.units \o w.writing
  BY DEF Stored
<1>5. Len(file.units) \in Nat /\ Len(Append(file.units, c)) = Len(file.units) + 1
  BY <1>1
<1> QED BY <1>1, <1>2, <1>3, <1>4, <1>5

LEMMA SentSteps ==
  ASSUME Careless = {}, Base, OnInv, OpenInv, PlaceInv, FaultInv, GoodInv, [Next]_vars, Good'
  PROVE  /\ Sent \in Int /\ r.pos \in Nat /\ r.size \in Nat /\ r.pos <= r.size /\ Sent <= r.pos
         /\ r'.size = r.size
         /\ PipeData => Sent' = Top.arg /\ Sent' = Sent + 1 /\ Top.arg # 0
         /\ ~PipeData => Sent' = Sent
<1>1. r.pos \in Nat /\ r.size \in Nat /\ r.pos <= r.size
  BY ChunkFacts, StreamsAssumption DEF Base, Fine, Readable
<1>2. Sent = (IF Waits THEN r.pos - 1 ELSE r.pos) /\ Sent' = (IF Waits' THEN r'.pos - 1 ELSE r'.pos)
  BY DEF Sent
<1>3. r'.size = r.size /\ (r'.pos = r.pos \/ ReadData)
  BY ReaderSteps
<1>4. CASE PipeData
  BY <1>1, <1>2, <1>3, <1>4, WaitSteps
<1>5. CASE ReadData
  <2>1. r'.pos = r.pos + 1
    <3>1. r' = [r EXCEPT !.io = FALSE, !.reading = FALSE, !.pos = @ + 1] /\ r \in Readable
      BY <1>5 DEF ReadData, Base, Fine
    <3>2. PICK p \in Nat : p = r.pos + 1
      BY <1>1
    <3> QED BY <3>1, <3>2 DEF Readable
  <2>2. ~Waits /\ Waits' /\ ~PipeData
    BY <1>5, WaitSteps DEF ReadData, PipeData, Idle, Turn, At
  <2> QED BY <1>1, <1>2, <1>3, <2>1, <2>2
<1>6. CASE ~PipeData /\ ~ReadData
  <2>1. Waits' = Waits /\ r'.pos = r.pos
    BY <1>3, <1>6, WaitSteps
  <2> QED BY <1>1, <1>2, <1>3, <1>6, <2>1
<1> QED BY <1>4, <1>5, <1>6

LEMMA CopyKept ==
  ASSUME Careless = {}, Base, OnInv, OpenInv, PlaceInv, FaultInv, GoodInv, UnitInv, CopyInv,
         [Next]_vars
  PROVE  CopyInv'
<1> SUFFICES ASSUME Good'
             PROVE  /\ Len(file'.units) <= Sent' /\ Ordered(Line')
                    /\ \A d \in 1..r'.size : Holds(Line', d) <=> Len(file'.units) < d /\ d <= Sent'
  BY DEF CopyInv
<1>0. /\ Good /\ Len(file.units) <= Sent /\ Ordered(Line)
      /\ \A d \in 1..r.size : Holds(Line, d) <=> Len(file.units) < d /\ d <= Sent
      /\ Line \in Seq(Chunk) /\ w.queue \in Seq(Chunk)
  BY StillGood, LineTyped DEF CopyInv
<1>1. /\ Sent \in Int /\ r.size \in Nat /\ r'.size = r.size
      /\ PipeData => Sent' = Top.arg /\ Sent' = Sent + 1 /\ Top.arg # 0
      /\ ~PipeData => Sent' = Sent
  BY SentSteps
<1>2. Len(file.units) \in Nat
  <2>1. file.units \in Seq(Chunk)
    BY DEF Base, Files
  <2> QED BY <2>1
<1>3. CASE PipeData
  <2>1. Line' = Cat(Line, <<Top.arg>>) /\ file' = file
    <3>1. ~w.ended /\ ~w.destroyed
      BY <1>3, WaitSteps
    <3> QED BY <1>3, <3>1, PipeDataWrites DEF PipeData
  <2>2. Top.arg \in Chunk /\ Top.arg \in Nat
    <3>1. stack # <<>>
      BY <1>3 DEF PipeData, Turn, At
    <3> QED BY <3>1, StackTyped, ChunkFacts
  <2>3. \A x \in Chunk : Holds(Line, x) => x < Top.arg
    <3> TAKE x \in Chunk
    <3> HAVE Holds(Line, x)
    <3>1. x \in Nat /\ x <= r.size
      BY ChunkFacts DEF UnitInv
    <3>2. CASE x = 0
      BY <1>1, <1>3, <2>2, <3>2
    <3>3. CASE x # 0
      <4>1. x \in 1..r.size
        BY <1>1, <3>1, <3>3
      <4> QED BY <1>0, <1>1, <1>3, <4>1
    <3> QED BY <3>2, <3>3
  <2>4. Ordered(Line')
    BY <1>0, <2>1, <2>2, <2>3, OrderGrows
  <2>5. ASSUME NEW d \in 1..r.size
        PROVE  Holds(Line', d) <=> Len(file.units) < d /\ d <= Sent'
    <3>1. Holds(Line', d) <=> Holds(Line, d) \/ d = Top.arg
      BY <1>0, <2>1, <2>2, Trailing
    <3> QED BY <1>0, <1>1, <1>2, <1>3, <3>1
  <2> QED BY <1>0, <1>1, <1>2, <1>3, <2>1, <2>4, <2>5
<1>4. CASE Write
  <2>1. Line' = Cat(Line, <<0>>) /\ file' = file /\ ~PipeData
    BY <1>4, ScriptWrites DEF Write, PipeData, Turn, Call, At
  <2>2. 0 \in Chunk
    BY ChunkFacts
  <2>3. Ordered(Line')
    BY <1>0, <2>1, <2>2, OrderGrows
  <2>4. ASSUME NEW d \in 1..r.size
        PROVE  Holds(Line', d) <=> Holds(Line, d)
    BY <1>0, <1>1, <2>1, <2>2, Trailing
  <2> QED BY <1>0, <1>1, <2>1, <2>3, <2>4
<1>5. CASE WriteDone
  <2>1. w.writing # <<>> /\ file' = Stored /\ ~PipeData
    BY <1>5 DEF WriteDone, PipeData, Turn, Idle, At
  <2>2. PICK c \in Chunk : w.writing = <<c>> /\ Line = Cat(<<c>>, w.queue)
    BY <2>1, Writing
  <2>3. Line' = w.queue
    <3>1. w'.writing = <<>> /\ w'.queue = w.queue
      BY <1>5, WriterCloses DEF WriteCompletes
    <3>2. Cat(<<>>, w.queue) = w.queue
      BY <1>0, ConcatEmptySeq DEF Cat
    <3> QED BY <3>1, <3>2 DEF Line
  <2>4. Ordered(w.queue) /\ (c # 0 => \A x \in Chunk : x # 0 /\ Holds(w.queue, x) => c < x)
    BY <1>0, <2>2, OrderShrinks
  <2>5. \A d : Holds(Line, d) <=> d = c \/ Holds(w.queue, d)
    BY <1>0, <2>2, Leading
  <2>6. CASE c = 0
    <3>1. file'.units = file.units
      BY <2>1, <2>2, <2>6, Grows
    <3>2. ASSUME NEW d \in 1..r.size
          PROVE  Holds(Line', d) <=> Holds(Line, d)
      BY <1>1, <2>3, <2>5, <2>6
    <3> QED BY <1>0, <1>1, <2>1, <2>3, <2>4, <3>1, <3>2
  <2>7. CASE c # 0
    <3>1. c = Len(file.units) + 1 /\ c <= r.size /\ Len(file'.units) = c
      <4>1. c = Len(file.units) + 1 /\ c <= r.size
        BY <1>0, <2>2, <2>7, NextUnit
      <4>2. file'.units = Append(file.units, c)
        BY <2>1, <2>2, <2>7, Grows
      <4> QED BY <2>2, <4>1, <4>2, Grows
    <3>2. c \in 1..r.size /\ c <= Sent
      <4>1. c \in 1..r.size
        BY <1>1, <1>2, <3>1
      <4> QED BY <1>0, <2>5, <4>1
    <3>3. ASSUME NEW d \in 1..r.size
          PROVE  Holds(Line', d) <=> c < d /\ d <= Sent
      <4>1. d \in Chunk /\ d # 0
        <5>1. r.size \in Sizes
          BY DEF Base, Fine, Readable
        <5> QED BY <1>1, <5>1, ChunkFacts
      <4>2. Holds(Line, d) <=> Len(file.units) < d /\ d <= Sent
        BY <1>0
      <4>3. Holds(w.queue, d) => c < d
        BY <2>4, <2>7, <4>1
      <4> QED BY <1>1, <1>2, <2>3, <2>5, <3>1, <3>2, <4>2, <4>3
    <3> QED BY <1>1, <2>1, <2>3, <2>4, <3>1, <3>2, <3>3
  <2> QED BY <2>6, <2>7
<1>6. CASE ~PipeData /\ ~Write /\ ~WriteDone
  <2>1. ~WriteDropped /\ ~WriteError /\ ~End /\ ~DestroyW
    BY StillGood DEF WriteDropped
  <2>2. Line' = Line /\ file' = file
    BY <1>6, <2>1, WriterSteps, BreakSteps DEF WriteCompletes
  <2> QED BY <1>0, <1>1, <1>6, <2>2
<1> QED BY <1>3, <1>4, <1>5, <1>6

-----------------------------------------------------------------------------
\* Every step of the streams is one of BytePipe or none.
PipeInv ==
  /\ Base /\ NothingLost /\ OpenInv /\ OnInv /\ PlaceInv /\ HearInv
  /\ FaultInv /\ FinishInv /\ GoodInv /\ UnitInv /\ CopyInv

LEMMA Whole ==
  ASSUME PipeInv, Good, Line = <<>>, r.ended
  PROVE  Len(file.units) = r.size
<1>1. /\ r.size \in Nat /\ r.pos = r.size /\ file.units \in Seq(Chunk)
  <2>1. r.size \in Nat
    BY ChunkFacts, StreamsAssumption DEF PipeInv, Base, Fine, Readable
  <2> QED BY <2>1 DEF PipeInv, Base, Files, GoodInv
<1>2. ~Waits
  BY DEF PipeInv, GoodInv, Waits, Pending
<1>3. Sent = r.size
  BY <1>1, <1>2 DEF Sent
<1>4. /\ Len(file.units) \in Nat /\ Len(file.units) <= r.size
      /\ \A c \in 1..r.size : Holds(Line, c) <=> Len(file.units) < c /\ c <= r.size
  BY <1>1, <1>3 DEF PipeInv, CopyInv
<1>5. \A c : ~Holds(Line, c)
  BY SmallTyped, Members
<1>6. ASSUME Len(file.units) < r.size PROVE FALSE
  <2>1. r.size \in 1..r.size
    BY <1>1, <1>4, <1>6
  <2> QED BY <1>1, <1>4, <1>5, <1>6, <2>1
<1> QED BY <1>1, <1>4, <1>6

LEMMA Finishes ==
  ASSUME PipeInv, [Next]_vars, Good, ~broken', w'.finished
  PROVE  Len(file.units) = r.size /\ UNCHANGED file
<1>0. Base /\ FaultInv /\ FinishInv /\ GoodInv /\ ~End
  <2>1. Base /\ FaultInv /\ FinishInv /\ GoodInv
    BY DEF PipeInv
  <2> QED BY <2>1, BreakSteps
<1>1. \/ PipeEnd /\ w'.queue = <<>> /\ w'.writing = <<>>
      \/ AfterWrite /\ w.ended /\ w'.queue = <<>> /\ w'.writing = w.writing
  BY <1>0, WriterSteps DEF Good
<1>2. Line' = Line /\ UNCHANGED file
  BY <1>0, <1>1, WriterEnds, LineMoves DEF PipeEnd, AfterWrite
<1>3. CASE PipeEnd /\ w'.queue = <<>> /\ w'.writing = <<>>
  <2>1. Line' = <<>>
    BY <1>3, SmallTyped, CatFacts DEF Line
  <2>2. r.ended
    <3>1. Turn /\ Top.ev = "end"
      BY <1>3 DEF PipeEnd
    <3>2. IsEmit(stack[1], "end") /\ 1 \in DOMAIN stack
      BY <1>0, <3>1, AdvanceFacts DEF IsEmit
    <3> QED BY <1>0, <3>2 DEF GoodInv
  <2> QED BY <1>2, <2>1, <2>2, Whole
<1>4. CASE AfterWrite /\ w.ended /\ w'.queue = <<>> /\ w'.writing = w.writing
  <2>1. stack # <<>> /\ Top.do = "afterWrite"
    BY <1>4 DEF AfterWrite, At
  <2>2. 1 \in DOMAIN stack /\ stack[1].do = "afterWrite"
    BY <1>0, <2>1, TopFacts
  <2>3. w.writing = <<>>
    BY <1>0, <1>4, <2>2 DEF FinishInv, FaultInv
  <2>4. Line' = <<>>
    BY <1>4, <2>3, SmallTyped, CatFacts DEF Line
  <2>5. r.ended
    BY <1>0, <1>4 DEF GoodInv
  <2> QED BY <1>2, <2>4, <2>5, Whole
<1> QED BY <1>1, <1>3, <1>4

LEMMA CopyStarts == Init => Copy!Init
<1> SUFFICES ASSUME Init PROVE Copy!Init
  OBVIOUS
<1>1. Base
  BY Initially
<1>2. r.size \in Nat
  BY <1>1, ChunkFacts, StreamsAssumption DEF Base, Fine, Readable
<1>3. file.units = <<>> /\ ~broken /\ ~w.finished
  BY DEF Init
<1> QED BY <1>2, <1>3 DEF Copy!Init

LEMMA CopySteps ==
  ASSUME PipeInv, [Next]_vars
  PROVE  [Copy!Next]_(Copy!pipeVars)
<1>0. /\ Base /\ FaultInv /\ FinishInv /\ UnitInv /\ CopyInv
      /\ r'.size = r.size /\ r.size \in Nat
  <2>1. Base /\ FaultInv /\ FinishInv /\ UnitInv /\ CopyInv
    BY DEF PipeInv
  <2>2. r.size \in Nat
    BY <2>1, ChunkFacts, StreamsAssumption DEF Base, Fine, Readable
  <2> QED BY <2>1, <2>2, ReaderSteps
<1>1. ASSUME file'.units # file.units
      PROVE  /\ WriteDone \/ WriteDropped
             /\ \E c \in Chunk : /\ c # 0 /\ w.writing = <<c>> /\ Holds(Line, c)
                                 /\ file'.units = Append(file.units, c)
             /\ UNCHANGED <<broken>> /\ w'.finished = w.finished
  <2>1. WriteDone \/ WriteDropped
    BY <1>0, <1>1, BreakSteps
  <2>2. w.writing # <<>> /\ file' = Stored /\ UNCHANGED broken
    BY <1>1, <2>1 DEF WriteDone, WriteDropped
  <2>3. PICK c \in Chunk : w.writing = <<c>> /\ Holds(Line, c)
    BY <1>0, <2>2, Writing
  <2>4. c # 0 /\ file'.units = Append(file.units, c)
    BY <1>0, <1>1, <2>2, <2>3, Grows
  <2>5. w'.finished = w.finished
    BY <1>0, <2>1, WriterCloses DEF WriteCompletes
  <2> QED BY <2>1, <2>2, <2>3, <2>4, <2>5
<1>2. CASE Good /\ Good'
  <2>1. CASE file'.units = file.units
    BY <1>0, <1>2, <2>1 DEF Copy!pipeVars, Good
  <2>2. CASE file'.units # file.units
    <3>1. PICK c \in Chunk : c # 0 /\ w.writing = <<c>> /\ file'.units = Append(file.units, c)
      BY <1>1, <2>2
    <3>2. c = Len(file.units) + 1 /\ c <= r.size
      BY <1>0, <1>2, <3>1, NextUnit
    <3>3. Len(file.units) < r.size
      <4>1. file.units \in Seq(Chunk)
        BY <1>0 DEF Base, Files
      <4> QED BY <1>0, <3>2, <4>1
    <3>4. Copy!Deliver
      BY <1>2, <3>1, <3>2, <3>3 DEF Copy!Deliver, Good
    <3> QED BY <1>0, <3>4 DEF Copy!Next
  <2> QED BY <2>1, <2>2
<1>3. CASE Good /\ broken'
  <2>1. file'.units = file.units
    BY <1>1, <1>3 DEF Good
  <2>2. Copy!Break
    BY <1>3, <2>1 DEF Copy!Break, Good
  <2> QED BY <1>0, <2>2 DEF Copy!Next
<1>4. CASE Good /\ ~broken' /\ w'.finished
  <2>1. Len(file.units) = r.size /\ UNCHANGED file
    BY <1>4, Finishes
  <2>2. Copy!Finish
    BY <1>4, <2>1 DEF Copy!Finish, Good
  <2> QED BY <1>0, <2>2 DEF Copy!Next
<1>5. CASE broken
  <2>1. broken'
    BY <1>0, <1>5, BreakSteps
  <2>2. CASE file'.units = file.units
    BY <1>0, <1>5, <2>1, <2>2 DEF Copy!pipeVars
  <2>3. CASE file'.units # file.units
    <3>1. PICK c \in Chunk : c # 0 /\ Holds(Line, c) /\ file'.units = Append(file.units, c)
      BY <1>1, <2>3
    <3>2. c \in 1..r.size
      BY <1>0, <3>1, ChunkFacts DEF UnitInv
    <3>3. Copy!Stray
      BY <1>5, <2>1, <3>1, <3>2 DEF Copy!Stray
    <3> QED BY <1>0, <3>3 DEF Copy!Next
  <2> QED BY <2>2, <2>3
<1>6. CASE ~broken /\ w.finished
  <2>1. w.ended /\ w.writing = <<>> /\ pipe # "none"
    BY <1>0, <1>6 DEF FinishInv
  <2>2. file'.units = file.units
    BY <1>1, <2>1 DEF WriteDone, WriteDropped
  <2>3. ~End /\ ~WriteError /\ w'.finished
    BY <1>0, <1>6, <2>1, WriterSteps DEF End, WriteError
  <2>4. ~broken'
    BY <1>0, <1>6, <2>1, <2>3, BreakSteps
  <2> QED BY <1>0, <1>6, <2>2, <2>3, <2>4 DEF Copy!pipeVars
<1> QED BY <1>2, <1>3, <1>4, <1>5, <1>6 DEF Good

LEMMA PipeStarts == Init => PipeInv
<1> SUFFICES ASSUME Init PROVE PipeInv
  OBVIOUS
<1>1. Base /\ OnInv
  BY Initially, OnStarts
<1>2. /\ stack = <<>> /\ w.queue = <<>> /\ w.writing = <<>> /\ file.units = <<>>
      /\ file.data = <<>> /\ accepted = <<>> /\ pipe = "none" /\ ~broken
      /\ ~w.finished /\ ~w.ended /\ ~w.destroyed /\ w.open
      /\ r.open /\ ~r.ended /\ ~r.destroyed /\ r.pos = 0
  BY DEF Init
<1>3. r.size \in Nat
  BY <1>1, ChunkFacts, StreamsAssumption DEF Base, Fine, Readable
<1>4. Line = <<>> /\ \A c : ~Holds(Line, c)
  <2>1. Line = <<>>
    BY <1>2, SmallTyped, CatFacts DEF Line
  <2> QED BY <2>1, SmallTyped, Members
<1>5. Sent = 0
  BY <1>2 DEF Sent, Waits
<1>6. NothingLost
  <2>1. Cat(Cat(<<>>, <<>>), <<>>) = <<>>
    BY SmallTyped, CatFacts
  <2> QED BY <1>2, <2>1 DEF NothingLost, Cat
<1>7. OpenInv /\ PlaceInv /\ HearInv /\ FaultInv /\ FinishInv
  BY <1>2 DEF OpenInv, PlaceInv, HearInv, FaultInv, FinishInv
<1>8. GoodInv /\ UnitInv
  BY <1>2, <1>4 DEF GoodInv, UnitInv
<1>9. CopyInv
  <2>1. Ordered(Line)
    BY <1>4 DEF Ordered
  <2>2. Len(file.units) = 0
    BY <1>2
  <2>3. \A c \in 1..r.size : ~(0 < c /\ c <= 0)
    BY <1>3
  <2> QED BY <1>4, <1>5, <2>1, <2>2, <2>3 DEF CopyInv
<1> QED BY <1>1, <1>6, <1>7, <1>8, <1>9 DEF PipeInv

LEMMA PipeKept == ASSUME Careless = {}, PipeInv, [Next]_vars PROVE PipeInv'
<1>1. /\ Base /\ NothingLost /\ OpenInv /\ OnInv /\ PlaceInv /\ HearInv
      /\ FaultInv /\ FinishInv /\ GoodInv /\ UnitInv /\ CopyInv
  BY DEF PipeInv
<1>2. Base' /\ NothingLost' /\ OpenInv' /\ OnInv' /\ PlaceInv' /\ HearInv'
  BY <1>1, BaseKept, LosesNothing, OpenKept, OnKept, PlacesKept, HearsKept
<1>3. FaultInv' /\ FinishInv' /\ GoodInv' /\ UnitInv' /\ CopyInv'
  BY <1>1, FaultsKept, FinishKept, GoodKept, UnitsKept, CopyKept
<1> QED BY <1>2, <1>3 DEF PipeInv

LEMMA PipeAlways == ASSUME Careless = {} PROVE Spec => []PipeInv
<1>1. PipeInv /\ [Next]_vars => PipeInv'
  BY PipeKept
<1> QED BY <1>1, PipeStarts, PTL DEF Spec

\* Every chunk accepted by write(), end() or the pipe is in the file or on its way,
\* the writable makes no request on a file that it has closed, and no emission ends
\* with a listener left that it should have called (emit_readable_event_sync and
\* emit_writable_event_sync walk vectors that the pipe's handlers change).
THEOREM FilesStaySafe == ASSUME Careless = {} PROVE Spec => []FilesAreSafe
<1>1. PipeInv => OpenForWrites
  BY DEF PipeInv, FinishInv, OpenForWrites
<1>2. PipeInv => EveryListenerHears
  BY HearingIsTrue DEF PipeInv
<1>3. PipeInv => FilesAreSafe
  BY <1>1, <1>2 DEF PipeInv, FilesAreSafe
<1> QED BY <1>3, PipeAlways, PTL

\* "finish" is emitted only when everything accepted has been written
\* (end_writable, on_write_complete, end_impl).
THEOREM FinishedIsWritten == ASSUME Careless = {} PROVE Spec => []FinishMeansWritten
<1>1. PipeInv => FinishMeansWritten
  BY DEF PipeInv, FinishInv, FinishMeansWritten
<1> QED BY <1>1, PipeAlways, PTL

\* readable.pipe(writable) is a BytePipe: the file gets the units of the source
\* in order and once, and "finish" is said of a whole copy (implement_pipe).
THEOREM PipeImplementsBytePipe == ASSUME Careless = {} PROVE Spec => ImplementsPipe
<1>1. PipeInv /\ [Next]_vars => [Copy!Next]_(Copy!pipeVars)
  BY CopySteps
<1> QED BY <1>1, CopyStarts, PipeAlways, PTL DEF Spec, ImplementsPipe, Copy!Spec
=============================================================================
