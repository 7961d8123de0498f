------------------------------ MODULE StdStream ------------------------------
\* process.stdout and process.stderr (modules_builtins/process/iostream.cc): a
\* queue of chunks that go to a uv_tty_t or a uv_pipe_t one at a time. Listeners
\* and callbacks are called at once, inside the function that has news, and may
\* call the stream again: `under` holds what is left of the functions under
\* way, the innermost first. Every event has a listener and every write() a
\* callback; one that does nothing stands for one that is missing.
EXTENDS Integers, Sequences, SequencesExt

CONSTANTS HighWater,  \* high_water_mark, in chunks
          Calls,      \* bound: calls the script makes
          Faults,     \* subset of {"refuse", "fail"}: what uv_write may do
          Careless    \* {"flushInCallback"}, or nothing

StdAssumption ==
  /\ HighWater \in Nat \ {0} /\ Calls \in Nat
  /\ Faults \subseteq {"refuse", "fail"} /\ Careless \subseteq {"flushInCallback"}

VARIABLES s,       \* StdStreamState
          flight,  \* what uv_write has taken and not yet answered; `writing`
          ops,     \* its share of g_active_stream_operations
          under,   \* what is left of the functions under way
          h        \* history: calls, chunks taken by write() or end(), written
                   \* and lost; answers; how often "finish" was said

svars == <<s, flight, ops, under, h>>

Chunk == [id : 1..Calls, cb : BOOLEAN]
Frames == {"script", "afterWrite", "release"}

At(what) == under # <<>> /\ Head(under) = what
Then(fs) == under' = fs \o Tail(under)
Idle == under = <<>>

\* schedule_next_std_write: the outcomes it may have.
Stays(r) == [s |-> r, flight |-> flight, ops |-> ops, todo |-> <<>>, lost |-> <<>>]
Starts(r) ==
  IF flight # <<>> \/ r.queue = <<>> \/ r.corked THEN {Stays(r)}
  ELSE IF ~r.usable THEN {[Stays(r) EXCEPT !.todo = <<"script">>]}
  ELSE LET q == [r EXCEPT !.queue = Tail(@), !.buffered = @ - 1, !.keepalive = TRUE] IN
       {[s |-> q, flight |-> <<Head(r.queue)>>, ops |-> ops + 1, todo |-> <<>>, lost |-> <<>>]}
       \cup IF "refuse" \in Faults
            THEN {[s |-> q, flight |-> <<>>, ops |-> ops,
                   todo |-> <<"script", "release">>, lost |-> <<Head(r.queue).id>>]}
            ELSE {}

\* The outcome o of a step whose own frames and history are given.
Become(o, rest, hist) ==
  /\ s' = o.s /\ flight' = o.flight /\ ops' = o.ops
  /\ under' = o.todo \o rest
  /\ h' = [hist EXCEPT !.lost = @ \o o.lost]

------------------------------------------------------------------------------
\* on_std_write_complete

Written ==
  /\ Idle /\ flight # <<>>
  /\ ops' = ops - 1 /\ flight' = <<>>
  /\ under' = (IF flight[1].cb THEN <<"script">> ELSE <<>>) \o <<"afterWrite">>
  /\ h' = [h EXCEPT !.written = Append(@, flight[1].id),
                    !.answers = @ + (IF flight[1].cb THEN 1 ELSE 0)]
  /\ UNCHANGED s

\* What is queued behind a write that failed waits for the next call.
WriteFailed ==
  /\ Idle /\ flight # <<>> /\ "fail" \in Faults
  /\ ops' = ops - 1 /\ flight' = <<>>
  /\ under' = <<"script">> \o (IF flight[1].cb THEN <<"script">> ELSE <<>>) \o <<"release">>
  /\ h' = [h EXCEPT !.lost = Append(@, flight[1].id),
                    !.answers = @ + (IF flight[1].cb THEN 1 ELSE 0)]
  /\ UNCHANGED s

AfterWrite ==
  /\ At("afterWrite")
  /\ IF s.ended /\ s.queue = <<>>
     THEN /\ Then(<<"script", "release">>)
          /\ h' = [h EXCEPT !.finishes = @ + 1]
          /\ UNCHANGED <<s, flight, ops>>
     ELSE IF s.queue # <<>> /\ ~s.corked
     THEN \E o \in Starts(s) : Become(o, Tail(under), h)
     ELSE /\ s' = [s EXCEPT !.draining = FALSE]
          /\ Then(IF s.draining THEN <<"script", "release">> ELSE <<"release">>)
          /\ UNCHANGED <<flight, ops, h>>

Release ==
  /\ At("release") /\ Then(<<>>)
  /\ s' = [s EXCEPT !.keepalive = FALSE]
  /\ UNCHANGED <<flight, ops, h>>

------------------------------------------------------------------------------
\* The script, between two tasks or in a listener.

RunScript ==
  /\ Idle /\ h.calls < Calls /\ under' = <<"script">>
  /\ UNCHANGED <<s, flight, ops, h>>

ScriptReturns == At("script") /\ Then(<<>>) /\ UNCHANGED <<s, flight, ops, h>>

MayCall == At("script") /\ h.calls < Calls
Called == [h EXCEPT !.calls = @ + 1]
Next1 == Len(h.taken) + 1
\* Inside the callback of a write, before what follows it looks at the queue.
MayFlush == "flushInCallback" \in Careless \/ ~Contains(under, "afterWrite")

Write ==
  /\ MayCall /\ ~s.ended
  /\ LET full == s.buffered + 1 >= HighWater
         q == [s EXCEPT !.queue = Append(@, [id |-> Next1, cb |-> TRUE]),
                        !.buffered = @ + 1, !.draining = @ \/ full]
     IN \E o \in Starts(q) : Become(o, under, [Called EXCEPT !.taken = Append(@, Next1)])

\* Its last chunk is not counted in buffered_size, which may fall below zero;
\* nothing asks for it any more.
End ==
  /\ MayCall /\ ~s.ended /\ MayFlush
  /\ \E last \in {<<>>, <<Next1>>} :
       LET e == [s EXCEPT !.ended = TRUE,
                          !.queue = @ \o [i \in DOMAIN last |-> [id |-> last[i], cb |-> FALSE]]]
           hist == [Called EXCEPT !.taken = @ \o last]
       IN IF e.queue = <<>> /\ flight = <<>>
          THEN Become([Stays(e) EXCEPT !.todo = <<"script">>], under,
                      [hist EXCEPT !.finishes = @ + 1])
          ELSE \E o \in Starts(e) : Become(o, under, hist)

Cork ==
  /\ MayCall /\ s' = [s EXCEPT !.corked = TRUE, !.corks = @ + 1]
  /\ h' = Called /\ UNCHANGED <<flight, ops, under>>

Uncork ==
  /\ MayCall /\ MayFlush
  /\ LET n == IF s.corks > 0 THEN s.corks - 1 ELSE 0
         u == [s EXCEPT !.corks = n, !.corked = @ /\ n # 0]
     IN \E o \in (IF n = 0 THEN Starts(u) ELSE {Stays(u)}) : Become(o, under, Called)

------------------------------------------------------------------------------
Init ==
  /\ \E usable \in BOOLEAN :    \* create_std_stream has a handle for the fd
       s = [queue |-> <<>>, buffered |-> 0, ended |-> FALSE, draining |-> FALSE,
            corked |-> FALSE, corks |-> 0, keepalive |-> FALSE, usable |-> usable]
  /\ flight = <<>> /\ ops = 0 /\ under = <<>>
  /\ h = [calls |-> 0, taken |-> <<>>, written |-> <<>>, lost |-> <<>>,
          answers |-> 0, finishes |-> 0]

Completes == Written \/ WriteFailed
Native == AfterWrite \/ Release
ScriptCalls == Write \/ End \/ Cork \/ Uncork
Next == Completes \/ Native \/ RunScript \/ ScriptReturns \/ ScriptCalls

Spec == Init /\ [][Next]_svars
\* Functions go on, the script returns, libuv answers its writes.
FairSpec ==
  Spec /\ WF_svars(Native) /\ WF_svars(ScriptReturns) /\ SF_svars(Completes)

------------------------------------------------------------------------------
TypeOK ==
  /\ s \in [queue : Seq(Chunk), buffered : -1..Calls, ended : BOOLEAN, draining : BOOLEAN,
            corked : BOOLEAN, corks : 0..Calls, keepalive : BOOLEAN, usable : BOOLEAN]
  /\ flight \in {<<>>} \cup {<<c>> : c \in Chunk} /\ ops \in Nat
  /\ under \in Seq(Frames)
  /\ h \in [calls : 0..Calls, taken : Seq(1..Calls), written : Seq(1..Calls),
            lost : Seq(1..Calls), answers : 0..Calls, finishes : 0..Calls]

\* Re-entrant writes, corks and failures neither drop, repeat nor reorder a
\* chunk: what was taken, less what uv refused or failed to write, is written,
\* under way or queued, in that order. (Chunks are numbered as they are taken.)
Ids(q) == [i \in DOMAIN q |-> q[i].id]
OutputInOrder ==
  LET kept == h.written \o Ids(flight) \o Ids(s.queue) IN
  /\ \A i, j \in DOMAIN kept : i < j => kept[i] < kept[j]
  /\ ToSet(kept) = ToSet(h.taken) \ ToSet(h.lost)

\* The loop is held as long as a write is under way and not any longer: neither
\* the counter nor the keepalive handle outlives the last write.
OutputHoldsLoop == ops = Len(flight) /\ (Idle => (s.keepalive => flight # <<>>))

\* finish is said once, and with nothing left to write (unless the script ends
\* or uncorks the stream in the callback of a write).
FinishIsLast ==
  h.finishes > 0 => h.finishes = 1 /\ s.ended /\ flight = <<>> /\ s.queue = <<>>

\* A chunk leaves the queue, a writer that was told to wait hears drain, and an
\* ended stream finishes, unless the script keeps the stream corked, uv does not
\* take a chunk, or there is no handle.
Owes == s.queue # <<>> \/ (IF s.ended THEN h.finishes = 0 ELSE s.draining)
Settled == ~Owes \/ s.corked \/ h.lost # <<>> \/ ~s.usable
OutputGoesOn == Owes ~> Settled
==============================================================================
