------------------------------ MODULE StdioProofs ------------------------------
(***************************************************************************)
(* What the standard streams of a process guarantee for any number of      *)
(* calls and any mark, as components of the program that MCStreams         *)
(* describes: process.stdout and process.stderr write what they take, in   *)
(* order, hold the loop just as long, and finish last.                     *)
(***************************************************************************)
EXTENDS MCStreams, FiniteSetTheorems, SequenceTheorems, TLAPS

-----------------------------------------------------------------------------
\* process.stdout and process.stderr.
StdChunks == [id : 1..OutCalls, cb : BOOLEAN]
StdStates ==
  [queue : Seq(StdChunks), buffered : -1..OutCalls, ended : BOOLEAN, draining : BOOLEAN,
   corked : BOOLEAN, corks : 0..OutCalls, keepalive : BOOLEAN, usable : BOOLEAN]
StdStories ==
  [calls : 0..OutCalls, taken : Seq(1..OutCalls), written : Seq(1..OutCalls),
   lost : Seq(1..OutCalls), answers : 0..OutCalls, finishes : 0..OutCalls]

\* A write that completed has not been followed up; somebody will let go of the loop.
Unfollowed(u) == \E i \in DOMAIN u : u[i] = "afterWrite"
LetsGo(u) == \E i \in DOMAIN u : u[i] \in {"afterWrite", "release"}
\* A chunk with uv, if there is one.
Flight(f) == f = <<>> \/ \E c \in StdChunks : f = <<c>>

\* Of the chunks taken, those that have left the queue.
Left(s, k) == Len(k.taken) - Len(s.queue)
StdTyped(s, f, o, u, k) ==
  /\ s \in StdStates /\ Flight(f) /\ o = Len(f) /\ u \in Seq(Out!Frames) /\ k \in StdStories
  /\ s.corks <= k.calls /\ Len(k.taken) <= k.calls /\ (s.ended => k.calls > 0)
  /\ s.buffered \in {Len(s.queue), Len(s.queue) - 1} /\ (~s.ended => s.buffered = Len(s.queue))
\* The queue holds the last chunks taken, uv the one before them; the others are
\* written, in order, or lost.
InOrder(s, f, k) ==
  /\ \A i \in DOMAIN k.taken : k.taken[i] = i
  /\ Len(s.queue) <= Len(k.taken)
  /\ \A i \in DOMAIN s.queue : s.queue[i].id = Left(s, k) + i
  /\ f # <<>> => f[1].id = Left(s, k)
  /\ \A i, j \in DOMAIN k.written : i < j => k.written[i] < k.written[j]
  /\ \A i \in DOMAIN k.written : k.written[i] <= Left(s, k) - Len(f)
  /\ \A i \in DOMAIN k.lost : k.lost[i] <= Left(s, k) - Len(f)
  /\ \A n \in 1..(Left(s, k) - Len(f)) :
       (\E i \in DOMAIN k.written : k.written[i] = n) <=> ~(\E i \in DOMAIN k.lost : k.lost[i] = n)
  /\ k.answers <= Left(s, k) - Len(f)
\* What completed a write is at the bottom; once the stream is ended it has nothing
\* with uv, and finish is said when it has run.
Finishing(s, f, u, k) ==
  /\ k.finishes > 0 => k.finishes = 1 /\ s.ended /\ f = <<>> /\ s.queue = <<>> /\ ~Unfollowed(u)
  /\ \A i \in DOMAIN u : u[i] = "afterWrite" => i = Len(u)
  /\ Unfollowed(u) /\ s.ended => f = <<>>
\* The loop is held for a write, or by a function that lets go of it.
Holding(s, f, u) ==
  /\ s.keepalive => f # <<>> \/ LetsGo(u)
  /\ ~s.usable => f = <<>> /\ ~s.keepalive /\ ~Unfollowed(u)
StdRight(s, f, o, u, k) ==
  StdTyped(s, f, o, u, k) /\ InOrder(s, f, k) /\ Finishing(s, f, u, k)
StdInv == StdRight(out, flight, ops, frames, said) /\ Holding(out, flight, frames)

StdConstants == Out!StdAssumption /\ Careless = {}

\* Functions that start run before those under way.
Starters == {"script", "release"}
\* They leave what is below where it was.
LEMMA FramesOnTop ==
  ASSUME NEW t \in Seq(Starters), NEW u \in Seq(Out!Frames)
  PROVE  /\ t \o u \in Seq(Out!Frames)
         /\ Unfollowed(t \o u) <=> Unfollowed(u)
         /\ LetsGo(u) => LetsGo(t \o u)
         /\ (\A i \in DOMAIN u : u[i] = "afterWrite" => i = Len(u)) =>
              \A i \in DOMAIN (t \o u) : (t \o u)[i] = "afterWrite" => i = Len(t \o u)
<1> DEFINE v == t \o u
<1>1. /\ v \in Seq(Out!Frames) /\ Len(v) = Len(t) + Len(u) /\ Len(t) \in Nat /\ Len(u) \in Nat
      /\ \A i \in 1..Len(t) : v[i] = t[i]
      /\ \A i \in 1..Len(u) : v[Len(t) + i] = u[i]
      /\ DOMAIN v = 1..(Len(t) + Len(u)) /\ DOMAIN u = 1..Len(u) /\ DOMAIN t = 1..Len(t)
  BY DEF Starters, Out!Frames
<1>2. \A i \in DOMAIN t : t[i] # "afterWrite"
  BY DEF Starters
<1> HIDE DEF v
<1>3. \A i \in DOMAIN v : v[i] = "afterWrite" =>
        i - Len(t) \in DOMAIN u /\ u[i - Len(t)] = "afterWrite"
  <2> SUFFICES ASSUME NEW i \in DOMAIN v, v[i] = "afterWrite"
               PROVE  i - Len(t) \in DOMAIN u /\ u[i - Len(t)] = "afterWrite"
    OBVIOUS
  <2>1. i \in Nat /\ ~(i \in 1..Len(t))
    BY <1>1, <1>2
  <2>2. i - Len(t) \in 1..Len(u) /\ Len(t) + (i - Len(t)) = i
    BY <1>1, <2>1
  <2> QED BY <1>1, <2>2
<1>4. \A i \in DOMAIN u : Len(t) + i \in DOMAIN v /\ v[Len(t) + i] = u[i]
  BY <1>1
<1>5. Unfollowed(v) <=> Unfollowed(u)
  BY <1>3, <1>4 DEF Unfollowed
<1>6. LetsGo(u) => LetsGo(v)
  BY <1>4 DEF LetsGo
<1>7. (\A i \in DOMAIN u : u[i] = "afterWrite" => i = Len(u)) =>
        \A i \in DOMAIN v : v[i] = "afterWrite" => i = Len(v)
  BY <1>1, <1>3
<1> QED BY <1>1, <1>5, <1>6, <1>7 DEF v

\* What is left when the innermost is done.
LEMMA FrameDone ==
  ASSUME NEW u \in Seq(Out!Frames), u # <<>>,
         \A i \in DOMAIN u : u[i] = "afterWrite" => i = Len(u)
  PROVE  /\ Tail(u) \in Seq(Out!Frames)
         /\ Head(u) = "afterWrite" => ~Unfollowed(Tail(u))
         /\ Unfollowed(Tail(u)) => Unfollowed(u)
         /\ LetsGo(u) => LetsGo(Tail(u)) \/ Head(u) \in {"afterWrite", "release"}
         /\ \A i \in DOMAIN Tail(u) : Tail(u)[i] = "afterWrite" => i = Len(Tail(u))
<1> DEFINE v == Tail(u)
<1>1. /\ v \in Seq(Out!Frames) /\ Len(u) = Len(v) + 1 /\ Len(v) \in Nat /\ u[1] = Head(u)
      /\ DOMAIN u = 1..Len(u) /\ DOMAIN v = 1..Len(v) /\ \A i \in 1..Len(v) : v[i] = u[i + 1]
  OBVIOUS
<1> HIDE DEF v
<1>2. \A i \in DOMAIN v : i + 1 \in DOMAIN u /\ v[i] = u[i + 1]
  BY <1>1
<1>3. \A i \in DOMAIN u : i = 1 \/ (i - 1 \in DOMAIN v /\ u[i] = v[i - 1])
  BY <1>1
<1>4. \A i \in DOMAIN v : v[i] = "afterWrite" => i = Len(v)
  BY <1>1, <1>2
<1>5. Unfollowed(v) => Unfollowed(u)
  BY <1>2 DEF Unfollowed
<1>6. LetsGo(u) => LetsGo(v) \/ Head(u) \in {"afterWrite", "release"}
  BY <1>1, <1>3 DEF LetsGo
<1>7. Head(u) = "afterWrite" => ~Unfollowed(v)
  <2>1. Head(u) = "afterWrite" => Len(u) = 1
    BY <1>1
  <2> QED BY <1>1, <2>1 DEF Unfollowed
<1> QED BY <1>1, <1>4, <1>5, <1>6, <1>7 DEF v

\* What one attempt to write the next chunk may come to: nothing happens, uv takes it,
\* or refuses it.
NotTried(a, o) == o.s = a /\ o.flight = flight /\ o.ops = ops /\ o.lost = <<>> /\ o.todo \in Seq(Starters)
Taken(a, s) ==
  /\ s \in StdStates /\ s.queue = Tail(a.queue) /\ s.buffered = a.buffered - 1 /\ s.ended = a.ended
  /\ s.corks = a.corks /\ s.usable = a.usable /\ s.usable /\ flight = <<>> /\ a.queue # <<>>
\* Starts(a) offers these three.
LEMMA AttemptIs ==
  ASSUME StdConstants, NEW a \in StdStates, a.buffered \in {Len(a.queue), Len(a.queue) - 1},
         NEW o \in Out!Starts(a)
  PROVE  \/ NotTried(a, o) /\ (a.queue # <<>> /\ ~a.corked => flight # <<>> \/ ~a.usable)
         \/ /\ Taken(a, o.s) /\ o.flight = <<Head(a.queue)>> /\ o.ops = ops + 1
            /\ o.lost = <<>> /\ o.todo = <<>>
         \/ /\ Taken(a, o.s) /\ o.flight = <<>> /\ o.ops = ops
            /\ o.lost = <<Head(a.queue).id>> /\ o.todo = <<"script", "release">>
<1> DEFINE q == [a EXCEPT !.queue = Tail(@), !.buffered = @ - 1, !.keepalive = TRUE]
<1>00. OutCalls \in Nat
  BY DEF StdConstants, Out!StdAssumption
<1>0. <<>> \in Seq(Starters) /\ <<"script">> \in Seq(Starters)
  BY DEF Starters
<1>1. CASE flight # <<>> \/ a.queue = <<>> \/ a.corked
  <2>1. o = Out!Stays(a)
    BY <1>1 DEF Out!Starts
  <2> QED BY <1>0, <1>1, <2>1 DEF Out!Stays, NotTried
<1>2. CASE flight = <<>> /\ a.queue # <<>> /\ ~a.corked /\ ~a.usable
  <2>1. o = [Out!Stays(a) EXCEPT !.todo = <<"script">>]
    BY <1>2 DEF Out!Starts
  <2> QED BY <1>0, <1>2, <2>1 DEF Out!Stays, NotTried
<1>3. CASE flight = <<>> /\ a.queue # <<>> /\ ~a.corked /\ a.usable
  <2>1. \/ o = [s |-> q, flight |-> <<Head(a.queue)>>, ops |-> ops + 1, todo |-> <<>>, lost |-> <<>>]
        \/ o = [s |-> q, flight |-> <<>>, ops |-> ops,
                todo |-> <<"script", "release">>, lost |-> <<Head(a.queue).id>>]
    BY <1>3 DEF Out!Starts
  <2>2. Taken(a, q)
    <3>1. a.queue \in Seq(StdChunks) /\ a.queue # <<>> /\ Len(a.queue) \in Nat /\ Len(a.queue) >= 1
      BY <1>3 DEF StdStates
    <3>2. Tail(a.queue) \in Seq(StdChunks)
      BY <3>1
    <3>3. a.buffered - 1 \in -1..OutCalls
      BY <1>00, <3>1 DEF StdStates
    <3> QED BY <1>3, <3>2, <3>3 DEF Taken, StdStates
  <2> HIDE DEF q
  <2> QED BY <2>1, <2>2
<1> QED BY <1>1, <1>2, <1>3

\* It keeps the stream right, and holds the loop if it was to write.
LEMMA AttemptKeeps ==
  ASSUME StdConstants, NEW a, NEW u, NEW k, StdRight(a, flight, ops, u, k),
         ~a.ended \/ ~Unfollowed(u), NEW o \in Out!Starts(a),
         Holding(a, flight, u) \/ (a.queue # <<>> /\ ~a.corked /\ (~a.usable => ~a.keepalive /\ flight = <<>> /\ ~Unfollowed(u)))
  PROVE  /\ StdRight(o.s, o.flight, o.ops, o.todo \o u, [k EXCEPT !.lost = @ \o o.lost])
         /\ Holding(o.s, o.flight, o.todo \o u)
<1> DEFINE g == [k EXCEPT !.lost = @ \o o.lost]
           v == o.todo \o u
           s == o.s
           f == o.flight
<1>1. /\ a \in StdStates /\ Flight(flight) /\ ops = Len(flight) /\ u \in Seq(Out!Frames) /\ k \in StdStories
      /\ a.corks <= k.calls /\ Len(k.taken) <= k.calls /\ (a.ended => k.calls > 0)
      /\ a.buffered \in {Len(a.queue), Len(a.queue) - 1} /\ (~a.ended => a.buffered = Len(a.queue))
  BY DEF StdRight, StdTyped
<1>00. OutCalls \in Nat
  BY DEF StdConstants, Out!StdAssumption
<1>2. k.lost \in Seq(1..OutCalls) /\ k.taken \in Seq(1..OutCalls) /\ k.written \in Seq(1..OutCalls)
  BY <1>1 DEF StdStories
<1>20. /\ \A i \in DOMAIN k.written : k.written[i] \in Nat
       /\ \A i \in DOMAIN k.lost : k.lost[i] \in Nat
  BY <1>00, <1>2
<1>3. CASE NotTried(a, o) /\ (a.queue # <<>> /\ ~a.corked => flight # <<>> \/ ~a.usable)
  <2>1. /\ o.s = a /\ o.flight = flight /\ o.ops = ops /\ o.lost = <<>> /\ o.todo \in Seq(Starters)
    BY <1>3 DEF NotTried
  <2>2. g = k
    <3>1. k.lost \o o.lost = k.lost
      BY <1>2, <2>1
    <3> QED BY <1>1, <3>1 DEF StdStories
  <2>3. /\ v \in Seq(Out!Frames) /\ (Unfollowed(v) <=> Unfollowed(u)) /\ (LetsGo(u) => LetsGo(v))
        /\ \A i \in DOMAIN v : v[i] = "afterWrite" => i = Len(v)
    BY <1>1, <2>1, FramesOnTop DEF StdRight, Finishing
  <2> HIDE DEF g, v
  <2>4. StdTyped(s, f, o.ops, v, g)
    BY <1>1, <2>1, <2>2, <2>3 DEF StdTyped
  <2>5. InOrder(s, f, g)
    BY <2>1, <2>2 DEF StdRight
  <2>6. Finishing(s, f, v, g)
    BY <2>1, <2>2, <2>3 DEF StdRight, Finishing
  <2>7. Holding(s, f, v)
    BY <1>3, <2>1, <2>3 DEF Holding
  <2> QED BY <2>4, <2>5, <2>6, <2>7 DEF StdRight, g, v
<1>4. CASE /\ Taken(a, o.s)
           /\ \/ o.flight = <<Head(a.queue)>> /\ o.ops = ops + 1 /\ o.lost = <<>> /\ o.todo = <<>>
              \/ /\ o.flight = <<>> /\ o.ops = ops /\ o.lost = <<Head(a.queue).id>>
                 /\ o.todo = <<"script", "release">>
  <2> DEFINE c == Head(a.queue)
  <2>1. /\ s \in StdStates /\ s.queue = Tail(a.queue) /\ s.buffered = a.buffered - 1 /\ s.ended = a.ended
        /\ s.corks = a.corks /\ s.usable = a.usable /\ s.usable /\ flight = <<>> /\ a.queue # <<>>
    BY <1>4 DEF Taken
  <2>2. /\ a.queue \in Seq(StdChunks) /\ Len(a.queue) \in Nat /\ Len(a.queue) >= 1 /\ c \in StdChunks
        /\ c = a.queue[1] /\ 1 \in DOMAIN a.queue /\ Len(s.queue) = Len(a.queue) - 1
        /\ \A i \in DOMAIN s.queue : i \in Nat /\ i + 1 \in DOMAIN a.queue /\ s.queue[i] = a.queue[i + 1]
    BY <1>1, <2>1 DEF StdStates
  <2>3. /\ c.id \in 1..OutCalls /\ c.id = Left(a, k) + 1
        /\ Len(a.queue) <= Len(k.taken) /\ Len(k.taken) \in Nat /\ Left(a, k) \in Nat
    <3>1. InOrder(a, flight, k)
      BY DEF StdRight
    <3>2. /\ Len(a.queue) <= Len(k.taken) /\ a.queue[1].id = Left(a, k) + 1
      BY <2>2, <3>1 DEF InOrder
    <3>3. Len(k.taken) \in Nat /\ c.id \in 1..OutCalls
      BY <1>2, <2>2 DEF StdChunks
    <3>4. Left(a, k) \in Nat
      BY <2>2, <3>2, <3>3 DEF Left
    <3> QED BY <2>2, <3>2, <3>3, <3>4
  <2>4. o.todo \in Seq(Starters) /\ (o.lost # <<>> => \E i \in DOMAIN o.todo : o.todo[i] = "release")
    <3>1. <<>> \in Seq(Starters) /\ <<"script", "release">> \in Seq(Starters)
          /\ 2 \in DOMAIN <<"script", "release">> /\ <<"script", "release">>[2] = "release"
      BY DEF Starters
    <3> QED BY <1>4, <3>1
  <2>5. /\ v \in Seq(Out!Frames) /\ (Unfollowed(v) <=> Unfollowed(u)) /\ (LetsGo(u) => LetsGo(v))
        /\ \A i \in DOMAIN v : v[i] = "afterWrite" => i = Len(v)
    BY <1>1, <2>4, FramesOnTop DEF StdRight, Finishing
  <2>6. o.lost # <<>> => LetsGo(v)
    <3>1. ASSUME o.lost # <<>>
          PROVE  \E i \in DOMAIN v : v[i] = "release"
      <4>1. PICK i \in DOMAIN o.todo : o.todo[i] = "release"
        BY <2>4, <3>1
      <4>2. i \in DOMAIN v /\ v[i] = o.todo[i]
        BY <1>1, <2>4 DEF Starters, Out!Frames
      <4> QED BY <4>1, <4>2
    <3> QED BY <3>1 DEF LetsGo
  <2>7. /\ g \in StdStories /\ g.calls = k.calls /\ g.taken = k.taken /\ g.written = k.written
        /\ g.answers = k.answers /\ g.finishes = k.finishes /\ g.lost = k.lost \o o.lost
    <3>1. k.lost \o o.lost \in Seq(1..OutCalls)
      <4>1. o.lost = <<>> \/ o.lost = <<c.id>>
        BY <1>4
      <4>2. <<>> \in Seq(1..OutCalls) /\ <<c.id>> \in Seq(1..OutCalls)
        BY <2>3
      <4>3. o.lost \in Seq(1..OutCalls)
        BY <4>1, <4>2
      <4> QED BY <1>2, <4>3
    <3> QED BY <1>1, <3>1 DEF StdStories
  <2>8. /\ Flight(f) /\ o.ops = Len(f) /\ (f # <<>> => f[1] = c /\ Len(f) = 1) /\ (f = <<>> <=> o.lost # <<>>)
        /\ (o.lost # <<>> => o.lost = <<c.id>>) /\ Len(f) \in {0, 1} /\ (f = <<>> <=> Len(f) = 0)
    <3>1. Len(flight) = 0 /\ ops = 0
      BY <1>1, <2>1
    <3>2. Len(<<c>>) = 1 /\ <<c>>[1] = c /\ <<c>> # <<>> /\ <<c.id>> # <<>>
      OBVIOUS
    <3>3. \/ o.flight = <<c>> /\ o.ops = ops + 1 /\ o.lost = <<>>
          \/ o.flight = <<>> /\ o.ops = ops /\ o.lost = <<c.id>>
      BY <1>4
    <3>4. c \in StdChunks
      BY <2>2
    <3>5. Flight(<<>>) /\ Flight(<<c>>) /\ Len(<<>>) = 0
      BY <3>4 DEF Flight
    <3> HIDE DEF c
    <3>6. CASE o.flight = <<c>> /\ o.ops = ops + 1 /\ o.lost = <<>>
      BY <3>1, <3>2, <3>5, <3>6
    <3>7. CASE o.flight = <<>> /\ o.ops = ops /\ o.lost = <<c.id>>
      BY <3>1, <3>2, <3>5, <3>7
    <3> QED BY <3>3, <3>6, <3>7
  <2>9. Left(s, g) = Left(a, k) + 1 /\ Len(flight) = 0
    <3>1. Len(k.taken) \in Nat
      BY <2>3
    <3>2. Len(s.queue) = Len(a.queue) - 1 /\ Len(a.queue) \in Nat /\ Len(g.taken) = Len(k.taken)
      BY <2>2, <2>7
    <3> HIDE DEF g, s
    <3>3. Left(s, g) = Left(a, k) + 1
      BY <3>1, <3>2 DEF Left
    <3> QED BY <2>1, <3>3
  <2> HIDE DEF g, v, c, s, f
  <2>10. StdTyped(s, f, o.ops, v, g)
    BY <1>1, <2>1, <2>2, <2>5, <2>7, <2>8 DEF StdTyped
  <2>11. InOrder(s, f, g)
    <3>1. /\ \A i \in DOMAIN k.taken : k.taken[i] = i
          /\ \A i \in DOMAIN a.queue : a.queue[i].id = Left(a, k) + i
          /\ \A i, j \in DOMAIN k.written : i < j => k.written[i] < k.written[j]
          /\ \A i \in DOMAIN k.written : k.written[i] <= Left(a, k)
          /\ \A i \in DOMAIN k.lost : k.lost[i] <= Left(a, k)
          /\ \A n \in 1..Left(a, k) :
               (\E i \in DOMAIN k.written : k.written[i] = n) <=> ~(\E i \in DOMAIN k.lost : k.lost[i] = n)
          /\ k.answers <= Left(a, k) /\ k.answers \in Nat
      <4>1. InOrder(a, flight, k) /\ Left(a, k) - Len(flight) = Left(a, k)
        BY <2>3, <2>9 DEF StdRight
      <4>2. k.answers \in Nat
        BY <1>00, <1>1 DEF StdStories
      <4> QED BY <4>1, <4>2 DEF InOrder
    <3>2. \A i \in DOMAIN s.queue : s.queue[i].id = Left(s, g) + i
      BY <2>2, <2>3, <2>9, <3>1
    <3>3. f # <<>> => f[1].id = Left(s, g)
      BY <2>3, <2>8, <2>9
    <3>4. \A i \in DOMAIN g.written : g.written[i] <= Left(s, g) - Len(f)
      <4>1. \A i \in DOMAIN k.written : k.written[i] \in Nat
        BY <1>20
      <4>2. Left(a, k) <= Left(s, g) - Len(f) /\ Left(s, g) - Len(f) \in Nat /\ Left(a, k) \in Nat
        <5>1. Left(a, k) \in Nat /\ Left(s, g) = Left(a, k) + 1
          BY <2>3, <2>9
        <5>2. CASE Len(f) = 0
          BY <5>1, <5>2
        <5>3. CASE Len(f) = 1
          BY <5>1, <5>3
        <5> QED BY <2>8, <5>2, <5>3
      <4> QED BY <2>7, <3>1, <4>1, <4>2
    <3>5. CASE f # <<>>
      <4>1. g.lost = k.lost /\ Left(s, g) - Len(f) = Left(a, k)
        <5>1. o.lost = <<>> /\ Len(f) = 1
          BY <2>8, <3>5
        <5> QED BY <1>2, <2>3, <2>7, <2>9, <5>1
      <4> QED BY <2>2, <2>3, <2>7, <3>1, <3>2, <3>3, <3>4, <4>1 DEF InOrder
    <3>6. CASE f = <<>>
      <4>1. /\ g.lost = Append(k.lost, c.id) /\ Left(s, g) - Len(f) = Left(a, k) + 1 /\ c.id = Left(a, k) + 1
        <5>1. o.lost = <<c.id>> /\ Len(f) = 0
          BY <2>8, <3>6
        <5>2. k.lost \o <<c.id>> = Append(k.lost, c.id)
          BY <1>2, <2>3
        <5> QED BY <2>3, <2>7, <2>9, <5>1, <5>2
      <4>2. /\ DOMAIN g.lost = DOMAIN k.lost \cup {Len(k.lost) + 1}
            /\ \A i \in DOMAIN k.lost : g.lost[i] = k.lost[i] /\ k.lost[i] \in Nat
            /\ g.lost[Len(k.lost) + 1] = c.id
        BY <1>2, <1>20, <2>3, <4>1
      <4>3. \A i \in DOMAIN g.lost : g.lost[i] <= Left(a, k) + 1
        BY <2>3, <3>1, <4>1, <4>2
      <4>4. \A i \in DOMAIN k.written : k.written[i] \in Nat /\ k.written[i] # Left(a, k) + 1
        BY <1>20, <2>3, <3>1
      <4>5. ASSUME NEW n \in 1..(Left(a, k) + 1)
            PROVE  (\E i \in DOMAIN k.written : k.written[i] = n) <=> ~(\E i \in DOMAIN g.lost : g.lost[i] = n)
        <5>1. CASE n = Left(a, k) + 1
          BY <4>1, <4>2, <4>4, <5>1
        <5>2. CASE n # Left(a, k) + 1
          <6>1. n \in 1..Left(a, k)
            BY <2>3, <4>5, <5>2
          <6>2. (\E i \in DOMAIN g.lost : g.lost[i] = n) <=> (\E i \in DOMAIN k.lost : k.lost[i] = n)
            BY <4>1, <4>2, <5>2
          <6> QED BY <3>1, <6>1, <6>2
        <5> QED BY <5>1, <5>2
      <4>6. k.answers <= Left(a, k) + 1
        BY <2>3, <3>1
      <4>7. Len(s.queue) <= Len(g.taken) /\ \A i \in DOMAIN g.taken : g.taken[i] = i
        BY <2>2, <2>3, <2>7, <3>1
      <4>8. \A i, j \in DOMAIN g.written : i < j => g.written[i] < g.written[j]
        BY <2>7, <3>1
      <4>9. g.answers <= Left(s, g) - Len(f)
        BY <2>7, <4>1, <4>6
      <4>10. Left(s, g) - Len(f) = Left(a, k) + 1
        BY <4>1
      <4>11. \A i \in DOMAIN g.lost : g.lost[i] <= Left(s, g) - Len(f)
        BY <4>3, <4>10
      <4>12. \A n \in 1..(Left(s, g) - Len(f)) :
               (\E i \in DOMAIN g.written : g.written[i] = n) <=> ~(\E i \in DOMAIN g.lost : g.lost[i] = n)
        <5>1. \A n \in 1..(Left(s, g) - Len(f)) : n \in 1..(Left(a, k) + 1)
          BY <4>10
        <5>2. g.written = k.written
          BY <2>7
        <5> QED BY <4>5, <5>1, <5>2
      <4> QED BY <3>2, <3>3, <3>4, <4>7, <4>8, <4>9, <4>11, <4>12 DEF InOrder
    <3> QED BY <3>5, <3>6
  <2>12. Finishing(s, f, v, g)
    <3>1. k.finishes > 0 => FALSE
      BY <2>1 DEF StdRight, Finishing
    <3>2. Unfollowed(v) => ~s.ended
      BY <2>1, <2>5
    <3> QED BY <2>5, <2>7, <3>1, <3>2 DEF Finishing
  <2>13. Holding(s, f, v)
    BY <2>1, <2>6, <2>8 DEF Holding
  <2> QED BY <2>10, <2>11, <2>12, <2>13 DEF StdRight, g, v, s, f
<1>5. \/ NotTried(a, o) /\ (a.queue # <<>> /\ ~a.corked => flight # <<>> \/ ~a.usable)
      \/ /\ Taken(a, o.s) /\ o.flight = <<Head(a.queue)>> /\ o.ops = ops + 1
         /\ o.lost = <<>> /\ o.todo = <<>>
      \/ /\ Taken(a, o.s) /\ o.flight = <<>> /\ o.ops = ops
         /\ o.lost = <<Head(a.queue).id>> /\ o.todo = <<"script", "release">>
  BY <1>1, AttemptIs
<1> HIDE DEF g, v, s, f
<1> QED BY <1>3, <1>4, <1>5 DEF g, v, s, f

\* The same chunks, where they were: only flags, counters and what is to run may
\* have changed.
Alike(a, k, q, g) ==
  /\ q \in StdStates /\ g \in StdStories /\ q.queue = a.queue /\ q.buffered = a.buffered
  /\ (a.ended => q.ended) /\ (q.ended /\ ~a.ended => g.calls > 0)
  /\ q.corks <= g.calls /\ k.calls <= g.calls
  /\ g.taken = k.taken /\ g.written = k.written /\ g.lost = k.lost /\ g.answers = k.answers
SaysFinish(k, q, f, v, g) ==
  \/ g.finishes = k.finishes
  \/ g.finishes = 1 /\ q.ended /\ f = <<>> /\ q.queue = <<>> /\ ~Unfollowed(v)
\* Such a step keeps the stream right.
LEMMA AlikeIsRight ==
  ASSUME StdConstants, NEW a, NEW f, NEW o, NEW u, NEW k, StdRight(a, f, o, u, k),
         NEW q, NEW g, Alike(a, k, q, g), NEW v \in Seq(Out!Frames),
         Unfollowed(v) => Unfollowed(u), q.ended /\ ~a.ended => ~Unfollowed(v),
         \A i \in DOMAIN v : v[i] = "afterWrite" => i = Len(v),
         SaysFinish(k, q, f, v, g)
  PROVE  StdRight(q, f, o, v, g)
<1>0. OutCalls \in Nat
  BY DEF StdConstants, Out!StdAssumption
<1>1. /\ q \in StdStates /\ g \in StdStories /\ q.queue = a.queue /\ q.buffered = a.buffered
      /\ (a.ended => q.ended) /\ (q.ended /\ ~a.ended => g.calls > 0)
      /\ q.corks <= g.calls /\ k.calls <= g.calls
      /\ g.taken = k.taken /\ g.written = k.written /\ g.lost = k.lost /\ g.answers = k.answers
  BY DEF Alike
<1>2. /\ a \in StdStates /\ Flight(f) /\ o = Len(f) /\ k \in StdStories
      /\ Len(k.taken) <= k.calls /\ (a.ended => k.calls > 0)
      /\ a.buffered \in {Len(a.queue), Len(a.queue) - 1} /\ (~a.ended => a.buffered = Len(a.queue))
  BY DEF StdRight, StdTyped
<1>3. StdTyped(q, f, o, v, g)
  <2>1. Len(g.taken) <= g.calls /\ (q.ended => g.calls > 0)
    <3>1. k.calls \in Nat /\ g.calls \in Nat /\ Len(k.taken) \in Nat
      BY <1>0, <1>1, <1>2 DEF StdStories
    <3> QED BY <1>1, <1>2, <3>1
  <2>2. q.buffered \in {Len(q.queue), Len(q.queue) - 1} /\ (~q.ended => q.buffered = Len(q.queue))
    BY <1>1, <1>2
  <2> QED BY <1>1, <1>2, <2>1, <2>2 DEF StdTyped
<1>4. InOrder(q, f, g)
  <2>1. InOrder(a, f, k) /\ Left(q, g) = Left(a, k)
    BY <1>1 DEF StdRight, Left
  <2> QED BY <1>1, <2>1 DEF InOrder
<1>5. Finishing(q, f, v, g)
  <2>1. Finishing(a, f, u, k)
    BY DEF StdRight
  <2>2. g.finishes > 0 => g.finishes = 1 /\ q.ended /\ f = <<>> /\ q.queue = <<>> /\ ~Unfollowed(v)
    <3>1. CASE g.finishes = k.finishes
      BY <1>1, <2>1, <3>1 DEF Finishing
    <3> QED BY <3>1 DEF SaysFinish
  <2>3. Unfollowed(v) /\ q.ended => f = <<>>
    BY <1>1, <2>1 DEF Finishing
  <2> QED BY <2>2, <2>3 DEF Finishing
<1> QED BY <1>3, <1>4, <1>5 DEF StdRight

\* One more chunk at the end of the queue; the last one, with end(), is not counted.
Queues(a, k, q, g, c) ==
  /\ q \in StdStates /\ g \in StdStories /\ c \in StdChunks /\ c.id = Len(k.taken) + 1
  /\ q.queue = Append(a.queue, c) /\ q.corks = a.corks
  /\ q.buffered = a.buffered + (IF q.ended THEN 0 ELSE 1)
  /\ g.calls = k.calls + 1 /\ g.taken = Append(k.taken, c.id) /\ g.written = k.written
  /\ g.lost = k.lost /\ g.answers = k.answers /\ g.finishes = k.finishes
\* So does one more chunk.
LEMMA QueuedIsRight ==
  ASSUME StdConstants, NEW a, NEW f, NEW o, NEW u, NEW k, StdRight(a, f, o, u, k), ~a.ended,
         NEW q, NEW g, NEW c, Queues(a, k, q, g, c), q.ended => ~Unfollowed(u)
  PROVE  StdRight(q, f, o, u, g)
<1>0. OutCalls \in Nat
  BY DEF StdConstants, Out!StdAssumption
<1>1. /\ q \in StdStates /\ g \in StdStories /\ c \in StdChunks /\ c.id = Len(k.taken) + 1
      /\ q.queue = Append(a.queue, c) /\ q.corks = a.corks
      /\ q.buffered = a.buffered + (IF q.ended THEN 0 ELSE 1)
      /\ g.calls = k.calls + 1 /\ g.taken = Append(k.taken, c.id) /\ g.written = k.written
      /\ g.lost = k.lost /\ g.answers = k.answers /\ g.finishes = k.finishes
  BY DEF Queues
<1>2. /\ a \in StdStates /\ Flight(f) /\ o = Len(f) /\ u \in Seq(Out!Frames) /\ k \in StdStories
      /\ a.corks <= k.calls /\ Len(k.taken) <= k.calls
      /\ a.buffered = Len(a.queue)
  BY DEF StdRight, StdTyped
<1>3. /\ a.queue \in Seq(StdChunks) /\ Len(a.queue) \in Nat /\ DOMAIN a.queue = 1..Len(a.queue)
      /\ k.taken \in Seq(1..OutCalls) /\ Len(k.taken) \in Nat /\ DOMAIN k.taken = 1..Len(k.taken)
      /\ k.calls \in Nat /\ a.corks \in Nat
  BY <1>0, <1>2 DEF StdStates, StdStories
<1>4. c.id \in 1..OutCalls
  BY <1>1 DEF StdChunks
<1>5. /\ Len(q.queue) = Len(a.queue) + 1 /\ DOMAIN q.queue = 1..(Len(a.queue) + 1)
      /\ q.queue[Len(a.queue) + 1] = c /\ \A i \in 1..Len(a.queue) : q.queue[i] = a.queue[i]
  <2>1. a.queue \in Seq(StdChunks) /\ c \in StdChunks
    BY <1>1, <1>3
  <2>2. q.queue = Append(a.queue, c)
    BY <1>1
  <2> QED BY <2>1, <2>2
<1>6. /\ Len(g.taken) = Len(k.taken) + 1 /\ DOMAIN g.taken = 1..(Len(k.taken) + 1)
      /\ g.taken[Len(k.taken) + 1] = c.id /\ \A i \in 1..Len(k.taken) : g.taken[i] = k.taken[i]
  <2>1. g.taken = Append(k.taken, c.id)
    BY <1>1
  <2> QED BY <1>3, <1>4, <2>1
<1>7. StdTyped(q, f, o, u, g)
  <2>1. q.corks <= g.calls /\ Len(g.taken) <= g.calls /\ g.calls > 0
    BY <1>1, <1>2, <1>3, <1>6
  <2>2. q.buffered \in {Len(q.queue), Len(q.queue) - 1} /\ (~q.ended => q.buffered = Len(q.queue))
    <3>1. q.buffered = Len(a.queue) + (IF q.ended THEN 0 ELSE 1)
      BY <1>1, <1>2
    <3>2. Len(q.queue) = Len(a.queue) + 1 /\ Len(a.queue) \in Nat
      BY <1>3, <1>5
    <3>3. CASE q.ended
      BY <3>1, <3>2, <3>3
    <3>4. CASE ~q.ended
      BY <3>1, <3>2, <3>4
    <3> QED BY <3>3, <3>4
  <2> QED BY <1>1, <1>2, <2>1, <2>2 DEF StdTyped
<1>8. InOrder(q, f, g)
  <2>1. InOrder(a, f, k) /\ Left(q, g) = Left(a, k)
    BY <1>3, <1>5, <1>6 DEF StdRight, Left
  <2>2. \A i \in DOMAIN g.taken : g.taken[i] = i
    <3>1. \A i \in 1..Len(k.taken) : k.taken[i] = i
      BY <1>3, <2>1 DEF InOrder
    <3> QED BY <1>1, <1>3, <1>6, <3>1
  <2>3. Len(q.queue) <= Len(g.taken)
    BY <1>3, <1>5, <1>6, <2>1 DEF InOrder
  <2>4. \A i \in DOMAIN q.queue : q.queue[i].id = Left(q, g) + i
    <3>1. \A i \in 1..Len(a.queue) : a.queue[i].id = Left(a, k) + i
      BY <1>3, <2>1 DEF InOrder
    <3>2. c.id = Left(a, k) + (Len(a.queue) + 1)
      <4>1. Left(a, k) = Len(k.taken) - Len(a.queue) /\ c.id = Len(k.taken) + 1
        BY <1>1 DEF Left
      <4>2. Len(k.taken) \in Nat /\ Len(a.queue) \in Nat
        BY <1>3
      <4>3. \A x, y \in Nat : x + 1 = (x - y) + (y + 1)
        OBVIOUS
      <4> QED BY <4>1, <4>2, <4>3
    <3>3. \A i \in DOMAIN q.queue : i \in 1..Len(a.queue) \/ i = Len(a.queue) + 1
      BY <1>3, <1>5
    <3> QED BY <1>5, <2>1, <3>1, <3>2, <3>3
  <2> QED BY <1>1, <2>1, <2>2, <2>3, <2>4 DEF InOrder
<1>9. Finishing(q, f, u, g)
  <2>1. k.finishes > 0 => FALSE
    BY DEF StdRight, Finishing
  <2> QED BY <1>1, <2>1 DEF StdRight, Finishing
<1> QED BY <1>7, <1>8, <1>9 DEF StdRight

\* A step that attempts to write.
LEMMA Becoming ==
  ASSUME StdConstants, NEW a, NEW u, NEW k, StdRight(a, flight, ops, u, k),
         ~a.ended \/ ~Unfollowed(u), NEW o \in Out!Starts(a), Out!Become(o, u, k),
         Holding(a, flight, u) \/ (a.queue # <<>> /\ ~a.corked /\ (~a.usable => ~a.keepalive /\ flight = <<>> /\ ~Unfollowed(u)))
  PROVE  StdInv'
<1>1. /\ StdRight(o.s, o.flight, o.ops, o.todo \o u, [k EXCEPT !.lost = @ \o o.lost])
      /\ Holding(o.s, o.flight, o.todo \o u)
  BY AttemptKeeps
<1>2. /\ out' = o.s /\ flight' = o.flight /\ ops' = o.ops /\ frames' = o.todo \o u
      /\ said' = [k EXCEPT !.lost = @ \o o.lost]
  BY DEF Out!Become
<1> QED BY <1>1, <1>2 DEF StdInv

\* In a listener that may flush, no write is being followed up.
LEMMA MayFlushIs == ASSUME StdConstants, Out!MayFlush PROVE ~Unfollowed(frames)
<1>1. ~Out!Contains(frames, "afterWrite")
  BY DEF Out!MayFlush, StdConstants
<1> QED BY <1>1 DEF Out!Contains, Unfollowed

\* What the types say of the state.
LEMMA StdStateIs ==
  ASSUME StdConstants, StdInv
  PROVE  /\ OutCalls \in Nat /\ out \in StdStates /\ said \in StdStories /\ frames \in Seq(Out!Frames)
         /\ out.queue \in Seq(StdChunks) /\ said.taken \in Seq(1..OutCalls) /\ said.calls \in 0..OutCalls
         /\ out.corks <= said.calls /\ Len(said.taken) <= said.calls
         /\ \A i \in DOMAIN frames : frames[i] = "afterWrite" => i = Len(frames)
<1>1. OutCalls \in Nat
  BY DEF StdConstants, Out!StdAssumption
<1>2. /\ out \in StdStates /\ said \in StdStories /\ frames \in Seq(Out!Frames)
      /\ out.corks <= said.calls /\ Len(said.taken) <= said.calls
      /\ \A i \in DOMAIN frames : frames[i] = "afterWrite" => i = Len(frames)
  BY DEF StdInv, StdRight, StdTyped, Finishing
<1>3. out.queue \in Seq(StdChunks) /\ said.taken \in Seq(1..OutCalls) /\ said.calls \in 0..OutCalls
  BY <1>2 DEF StdStates, StdStories
<1> QED BY <1>1, <1>2, <1>3

\* write: the chunk waits, and is tried at once unless the stream is corked.
LEMMA OutputWrites == ASSUME StdConstants, StdInv, Out!Write PROVE StdInv'
<1> DEFINE full == out.buffered + 1 >= OutMark
           c == [id |-> Len(said.taken) + 1, cb |-> TRUE]
           q == [out EXCEPT !.queue = Append(@, c), !.buffered = @ + 1, !.draining = @ \/ full]
           g == [Out!Called EXCEPT !.taken = Append(@, Len(said.taken) + 1)]
<1>1. PICK o \in Out!Starts(q) : Out!Become(o, frames, g)
  BY DEF Out!Write, Out!Next1
<1>2. ~out.ended /\ said.calls < OutCalls
  BY DEF Out!Write, Out!MayCall
<1>3. /\ OutCalls \in Nat /\ out \in StdStates /\ said \in StdStories
      /\ out.queue \in Seq(StdChunks) /\ said.taken \in Seq(1..OutCalls) /\ said.calls \in 0..OutCalls
      /\ Len(said.taken) <= said.calls
  BY StdStateIs
<1>4. StdRight(out, flight, ops, frames, said) /\ Holding(out, flight, frames)
  BY DEF StdInv
<1>5. c \in StdChunks /\ c.id = Len(said.taken) + 1 /\ c.id \in 1..OutCalls
  <2>1. Len(said.taken) + 1 \in 1..OutCalls
    BY <1>2, <1>3
  <2> QED BY <2>1 DEF StdChunks
<1>6. out.buffered + 1 \in -1..OutCalls /\ full \in BOOLEAN
  <2>1. out.buffered = Len(out.queue) /\ Len(out.queue) <= Len(said.taken)
    BY <1>2, <1>4 DEF StdRight, StdTyped, InOrder
  <2>2. Len(out.queue) \in Nat /\ Len(said.taken) \in Nat
    BY <1>3
  <2> QED BY <1>2, <1>3, <2>1, <2>2
<1>7. Queues(out, said, q, g, c)
  <2>1. Append(out.queue, c) \in Seq(StdChunks) /\ Append(said.taken, c.id) \in Seq(1..OutCalls)
    BY <1>3, <1>5
  <2>2. said.calls + 1 \in 0..OutCalls
    BY <1>2, <1>3
  <2> HIDE DEF full
  <2>3. /\ q \in StdStates /\ q.queue = Append(out.queue, c) /\ q.buffered = out.buffered + 1
        /\ ~q.ended /\ q.corks = out.corks
    BY <1>2, <1>3, <1>6, <2>1 DEF StdStates
  <2>4. /\ g \in StdStories /\ g.calls = said.calls + 1 /\ g.taken = Append(said.taken, c.id)
        /\ g.written = said.written /\ g.lost = said.lost /\ g.answers = said.answers
        /\ g.finishes = said.finishes
    BY <1>3, <2>1, <2>2 DEF Out!Called, StdStories
  <2> HIDE DEF q, g, c
  <2> QED BY <1>5, <2>3, <2>4 DEF Queues
<1>8. ~q.ended /\ q.keepalive = out.keepalive /\ q.usable = out.usable
  BY <1>2, <1>3 DEF StdStates
<1> HIDE DEF full, q, g, c
<1>9. StdRight(q, flight, ops, frames, g)
  BY <1>2, <1>4, <1>7, <1>8, QueuedIsRight
<1>10. Holding(q, flight, frames)
  BY <1>4, <1>8 DEF Holding
<1> QED BY <1>1, <1>8, <1>9, <1>10, Becoming

\* end, with or without a last chunk.
LEMMA OutputEnds == ASSUME StdConstants, StdInv, Out!End PROVE StdInv'
<1> DEFINE e(last) == [out EXCEPT !.ended = TRUE,
                         !.queue = @ \o [i \in DOMAIN last |-> [id |-> last[i], cb |-> FALSE]]]
           g(last) == [Out!Called EXCEPT !.taken = @ \o last]
           n == Len(said.taken) + 1
           c == [id |-> n, cb |-> FALSE]
           Does(q, k) ==
             IF q.queue = <<>> /\ flight = <<>>
             THEN Out!Become([Out!Stays(q) EXCEPT !.todo = <<"script">>], frames, [k EXCEPT !.finishes = @ + 1])
             ELSE \E o \in Out!Starts(q) : Out!Become(o, frames, k)
<1>1. PICK last \in {<<>>, <<n>>} : Does(e(last), g(last))
  BY DEF Out!End, Out!Next1
<1>2. ~out.ended /\ said.calls < OutCalls /\ ~Unfollowed(frames)
  BY MayFlushIs DEF Out!End, Out!MayCall
<1>3. /\ OutCalls \in Nat /\ out \in StdStates /\ said \in StdStories /\ frames \in Seq(Out!Frames)
      /\ out.queue \in Seq(StdChunks) /\ said.taken \in Seq(1..OutCalls) /\ said.calls \in 0..OutCalls
      /\ out.corks <= said.calls /\ Len(said.taken) <= said.calls
      /\ \A i \in DOMAIN frames : frames[i] = "afterWrite" => i = Len(frames)
  BY StdStateIs
<1>4. StdRight(out, flight, ops, frames, said) /\ Holding(out, flight, frames)
  BY DEF StdInv
<1>5. said.calls + 1 \in 0..OutCalls /\ n \in 1..OutCalls /\ said.calls + 1 > 0 /\ said.calls <= said.calls + 1
      /\ out.corks \in Nat
  BY <1>2, <1>3 DEF StdStates
<1>6. c \in StdChunks /\ c.id = n
  BY <1>5 DEF StdChunks
<1> HIDE DEF n, c
<1>7. ASSUME NEW q, NEW k, StdRight(q, flight, ops, frames, k), Holding(q, flight, frames), q.ended,
             k \in StdStories, k.finishes = 0, OutCalls > 0, Does(q, k)
      PROVE  StdInv'
  <2>1. CASE ~(q.queue = <<>> /\ flight = <<>>)
    <3>1. PICK o \in Out!Starts(q) : Out!Become(o, frames, k)
      BY <1>7, <2>1
    <3> QED BY <1>2, <1>7, <3>1, Becoming
  <2>2. CASE q.queue = <<>> /\ flight = <<>>
    <3> DEFINE x == [k EXCEPT !.finishes = @ + 1]
               y == [x EXCEPT !.lost = @ \o <<>>]
               v == <<"script">> \o frames
    <3>1. /\ out' = q /\ flight' = flight /\ ops' = ops /\ frames' = v /\ said' = y
      BY <1>7, <2>2 DEF Out!Become, Out!Stays
    <3>2. y = x
      <4>1. k.lost \o <<>> = k.lost
        BY <1>7 DEF StdStories
      <4> QED BY <1>7, <4>1 DEF StdStories
    <3>3. /\ x \in StdStories /\ x.finishes = 1 /\ x.calls = k.calls /\ x.taken = k.taken
          /\ x.written = k.written /\ x.lost = k.lost /\ x.answers = k.answers
      <4>1. 1 \in 0..OutCalls
        BY <1>3, <1>7
      <4>2. x = [k EXCEPT !.finishes = 1]
        BY <1>7 DEF StdStories
      <4> QED BY <1>7, <4>1, <4>2 DEF StdStories
    <3>4. v \in Seq(Out!Frames) /\ ~Unfollowed(v) /\ (LetsGo(frames) => LetsGo(v))
          /\ \A i \in DOMAIN v : v[i] = "afterWrite" => i = Len(v)
      <4>1. <<"script">> \in Seq(Starters)
        BY DEF Starters
      <4> QED BY <1>2, <1>3, <4>1, FramesOnTop
    <3> HIDE DEF x, y, v
    <3>5. Alike(q, k, q, x)
      <4>1. /\ q \in StdStates /\ q.corks <= k.calls
        BY <1>7 DEF StdRight, StdTyped
      <4>2. k.calls <= k.calls
        BY <1>3, <1>7 DEF StdStories
      <4> QED BY <3>3, <4>1, <4>2 DEF Alike
    <3>6. SaysFinish(k, q, flight, v, x)
      BY <1>7, <2>2, <3>3, <3>4 DEF SaysFinish
    <3>7. StdRight(q, flight, ops, v, x)
      BY <1>7, <3>4, <3>5, <3>6, AlikeIsRight
    <3>8. Holding(q, flight, v)
      BY <1>7, <3>4 DEF Holding
    <3> QED BY <3>1, <3>2, <3>7, <3>8 DEF StdInv
  <2> QED BY <2>1, <2>2
<1>8. said.finishes = 0
  <2>1. ~(said.finishes > 0)
    BY <1>2, <1>4 DEF StdRight, Finishing
  <2> QED BY <1>3, <2>1 DEF StdStories
<1>9. OutCalls > 0
  BY <1>3, <1>5
<1>10. CASE last = <<>>
  <2> DEFINE q == [out EXCEPT !.ended = TRUE]
             k == Out!Called
  <2>1. e(last) = q
    <3>1. out.queue \o [i \in DOMAIN <<>> |-> [id |-> <<>>[i], cb |-> FALSE]] = out.queue
      <4>1. [i \in DOMAIN <<>> |-> [id |-> <<>>[i], cb |-> FALSE]] = <<>>
        OBVIOUS
      <4> QED BY <1>3, <4>1
    <3> QED BY <1>3, <1>10, <3>1 DEF StdStates
  <2>2. g(last) = k
    <3>1. said.taken \o <<>> = said.taken
      BY <1>3
    <3> QED BY <1>3, <1>10, <3>1 DEF StdStories, Out!Called
  <2> HIDE DEF e, g
  <2>3. /\ q \in StdStates /\ q.ended /\ q.queue = out.queue /\ q.buffered = out.buffered /\ q.corks = out.corks
        /\ q.keepalive = out.keepalive /\ q.usable = out.usable
    BY <1>3 DEF StdStates
  <2>4. /\ k \in StdStories /\ k.calls = said.calls + 1 /\ k.taken = said.taken /\ k.written = said.written
        /\ k.lost = said.lost /\ k.answers = said.answers /\ k.finishes = said.finishes
    BY <1>3, <1>5 DEF StdStories, Out!Called
  <2> HIDE DEF q, k
  <2>5. Alike(out, said, q, k)
    <3>1. out.corks <= said.calls + 1
      BY <1>3, <1>5
    <3> QED BY <1>5, <2>3, <2>4, <3>1 DEF Alike
  <2>6. SaysFinish(said, q, flight, frames, k)
    BY <2>4 DEF SaysFinish
  <2>7. StdRight(q, flight, ops, frames, k)
    BY <1>2, <1>3, <1>4, <2>5, <2>6, AlikeIsRight
  <2>8. Holding(q, flight, frames)
    BY <1>4, <2>3 DEF Holding
  <2>9. Does(q, k)
    BY <1>1, <2>1, <2>2
  <2> HIDE DEF Does
  <2> QED BY <1>7, <1>8, <1>9, <2>3, <2>4, <2>7, <2>8, <2>9
<1>11. CASE last = <<n>>
  <2> DEFINE q == [out EXCEPT !.ended = TRUE, !.queue = Append(@, c)]
             k == [Out!Called EXCEPT !.taken = Append(@, n)]
  <2>1. e(last) = q
    <3>1. out.queue \o [i \in DOMAIN <<n>> |-> [id |-> <<n>>[i], cb |-> FALSE]] = Append(out.queue, c)
      <4>1. [i \in DOMAIN <<n>> |-> [id |-> <<n>>[i], cb |-> FALSE]] = <<c>>
        <5>1. DOMAIN <<n>> = 1..1 /\ <<n>>[1] = n /\ <<c>> = [i \in 1..1 |-> c]
          OBVIOUS
        <5>2. \A i \in 1..1 : [id |-> <<n>>[i], cb |-> FALSE] = c
          <6>1. [id |-> <<n>>[1], cb |-> FALSE] = c
            BY <5>1 DEF c
          <6>2. \A i \in 1..1 : i = 1
            OBVIOUS
          <6> QED BY <6>1, <6>2
        <5> HIDE DEF c
        <5> QED BY <5>1, <5>2
      <4>2. out.queue \o <<c>> = Append(out.queue, c)
        BY <1>3, <1>6
      <4> QED BY <4>1, <4>2
    <3> QED BY <1>3, <1>11, <3>1 DEF StdStates
  <2>2. g(last) = k
    <3>1. said.taken \o <<n>> = Append(said.taken, n)
      BY <1>3, <1>5
    <3> QED BY <1>3, <1>11, <3>1 DEF StdStories, Out!Called
  <2> HIDE DEF e, g
  <2>0. Append(out.queue, c) \in Seq(StdChunks) /\ Append(said.taken, n) \in Seq(1..OutCalls)
    BY <1>3, <1>5, <1>6
  <2>3. /\ q \in StdStates /\ q.ended /\ q.queue = Append(out.queue, c) /\ q.buffered = out.buffered
        /\ q.corks = out.corks /\ q.keepalive = out.keepalive /\ q.usable = out.usable
    BY <1>3, <2>0 DEF StdStates
  <2>4. /\ k \in StdStories /\ k.calls = said.calls + 1 /\ k.taken = Append(said.taken, n)
        /\ k.written = said.written /\ k.lost = said.lost /\ k.answers = said.answers
        /\ k.finishes = said.finishes
    BY <1>3, <1>5, <2>0 DEF StdStories, Out!Called
  <2> HIDE DEF q, k
  <2>5. Queues(out, said, q, k, c)
    <3>1. out.buffered + 0 = out.buffered
      BY <1>3 DEF StdStates
    <3>2. c.id = Len(said.taken) + 1
      BY <1>6 DEF n
    <3> QED BY <1>6, <2>3, <2>4, <3>1, <3>2 DEF Queues
  <2>7. StdRight(q, flight, ops, frames, k)
    BY <1>2, <1>4, <2>5, QueuedIsRight
  <2>8. Holding(q, flight, frames)
    BY <1>4, <2>3 DEF Holding
  <2>9. Does(q, k)
    BY <1>1, <2>1, <2>2
  <2> HIDE DEF Does
  <2> QED BY <1>7, <1>8, <1>9, <2>3, <2>4, <2>7, <2>8, <2>9
<1> QED BY <1>1, <1>10, <1>11

\* Functions that start or return, and a call that takes no chunk.
LEMMA OutputStays ==
  ASSUME StdConstants, StdInv, NEW q, NEW g, Alike(out, said, q, g), NEW v \in Seq(Out!Frames),
         out' = q, said' = g, frames' = v, flight' = flight, ops' = ops,
         Unfollowed(v) => Unfollowed(frames), q.ended => out.ended,
         \A i \in DOMAIN v : v[i] = "afterWrite" => i = Len(v),
         SaysFinish(said, q, flight, v, g), Holding(q, flight, v)
  PROVE  StdInv'
<1>1. StdRight(out, flight, ops, frames, said)
  BY DEF StdInv
<1>2. StdRight(q, flight, ops, v, g)
  BY <1>1, AlikeIsRight
<1> QED BY <1>2 DEF StdInv

\* What is not touched stays.
LEMMA OutputRests == ASSUME StdConstants, StdInv PROVE Alike(out, said, out, said)
<1>1. out \in StdStates /\ said \in StdStories /\ out.corks <= said.calls /\ said.calls <= said.calls
  BY StdStateIs
<1> QED BY <1>1 DEF Alike

\* The script begins and returns; a function lets go of the loop.
LEMMA OutputRuns ==
  ASSUME StdConstants, StdInv, Out!Release \/ Out!RunScript \/ Out!ScriptReturns
  PROVE  StdInv'
<1>1. /\ OutCalls \in Nat /\ out \in StdStates /\ said \in StdStories /\ frames \in Seq(Out!Frames)
      /\ out.corks <= said.calls /\ said.calls <= said.calls
      /\ \A i \in DOMAIN frames : frames[i] = "afterWrite" => i = Len(frames)
  BY StdStateIs
<1>2. Holding(out, flight, frames)
  BY DEF StdInv
<1>3. CASE Out!Release \/ Out!ScriptReturns
  <2> DEFINE v == Tail(frames)
  <2>1. frames # <<>> /\ frames' = v /\ flight' = flight /\ ops' = ops /\ said' = said
    <3>1. <<>> \o Tail(frames) = Tail(frames)
      BY <1>1
    <3> QED BY <1>3, <3>1 DEF Out!Release, Out!ScriptReturns, Out!At, Out!Then
  <2>2. /\ v \in Seq(Out!Frames) /\ (Unfollowed(v) => Unfollowed(frames))
        /\ (LetsGo(frames) => LetsGo(v) \/ Head(frames) \in {"afterWrite", "release"})
        /\ \A i \in DOMAIN v : v[i] = "afterWrite" => i = Len(v)
    BY <1>1, <2>1, FrameDone
  <2> HIDE DEF v
  <2>3. CASE Out!Release
    <3> DEFINE q == [out EXCEPT !.keepalive = FALSE]
    <3>1. out' = q
      BY <2>3 DEF Out!Release
    <3>2. /\ q \in StdStates /\ q.queue = out.queue /\ q.buffered = out.buffered /\ q.ended = out.ended
          /\ q.corks = out.corks /\ ~q.keepalive /\ q.usable = out.usable
      BY <1>1 DEF StdStates
    <3> HIDE DEF q
    <3>3. Alike(out, said, q, said)
      BY <1>1, <3>2 DEF Alike
    <3>4. Holding(q, flight, v) /\ SaysFinish(said, q, flight, v, said)
      BY <1>2, <2>2, <3>2 DEF Holding, SaysFinish
    <3> QED BY <2>1, <2>2, <3>1, <3>2, <3>3, <3>4, OutputStays
  <2>4. CASE Out!ScriptReturns
    <3>1. out' = out /\ Head(frames) = "script"
      BY <2>4 DEF Out!ScriptReturns, Out!At
    <3>2. Holding(out, flight, v) /\ SaysFinish(said, out, flight, v, said)
      <4>1. LetsGo(frames) => LetsGo(v)
        BY <2>2, <3>1
      <4> QED BY <1>2, <2>2, <4>1 DEF Holding, SaysFinish
    <3> QED BY <2>1, <2>2, <3>1, <3>2, OutputRests, OutputStays
  <2> QED BY <1>3, <2>3, <2>4
<1>4. CASE Out!RunScript
  <2> DEFINE v == <<"script">>
  <2>1. frames = <<>> /\ frames' = v /\ out' = out /\ flight' = flight /\ ops' = ops /\ said' = said
    BY <1>4 DEF Out!RunScript, Out!Idle
  <2>2. v \in Seq(Out!Frames) /\ ~Unfollowed(v) /\ ~LetsGo(frames) /\ \A i \in DOMAIN v : v[i] # "afterWrite"
    BY <2>1 DEF Out!Frames, Unfollowed, LetsGo
  <2> HIDE DEF v
  <2>3. Holding(out, flight, v) /\ SaysFinish(said, out, flight, v, said)
    BY <1>2, <2>2 DEF Holding, SaysFinish
  <2> QED BY <2>1, <2>2, <2>3, OutputRests, OutputStays
<1> QED BY <1>3, <1>4

\* cork and uncork.
LEMMA OutputCorks == ASSUME StdConstants, StdInv, Out!Cork \/ Out!Uncork PROVE StdInv'
<1> DEFINE g == Out!Called
<1>1. /\ OutCalls \in Nat /\ out \in StdStates /\ said \in StdStories /\ frames \in Seq(Out!Frames)
      /\ out.corks <= said.calls /\ said.calls \in 0..OutCalls
      /\ \A i \in DOMAIN frames : frames[i] = "afterWrite" => i = Len(frames)
  BY StdStateIs
<1>2. Holding(out, flight, frames) /\ StdRight(out, flight, ops, frames, said)
  BY DEF StdInv
<1>3. said.calls + 1 \in 0..OutCalls /\ said.calls <= said.calls + 1 /\ out.corks \in Nat
  <2>1. said.calls < OutCalls
    BY DEF Out!Cork, Out!Uncork, Out!MayCall
  <2> QED BY <1>1, <2>1 DEF StdStates
<1>4. /\ g \in StdStories /\ g.calls = said.calls + 1 /\ g.taken = said.taken /\ g.written = said.written
      /\ g.lost = said.lost /\ g.answers = said.answers /\ g.finishes = said.finishes
  BY <1>1, <1>3 DEF StdStories, Out!Called
<1>5. ASSUME NEW q \in StdStates, q.queue = out.queue, q.buffered = out.buffered, q.ended = out.ended,
             q.corks \in {out.corks + 1, out.corks - 1, 0},
             q.keepalive = out.keepalive, q.usable = out.usable
      PROVE  /\ Alike(out, said, q, g) /\ Holding(q, flight, frames) /\ SaysFinish(said, q, flight, frames, g)
             /\ StdRight(q, flight, ops, frames, g)
  <2>1. q.corks <= said.calls + 1
    BY <1>1, <1>3, <1>5
  <2> HIDE DEF g
  <2>2. Alike(out, said, q, g)
    BY <1>3, <1>4, <1>5, <2>1 DEF Alike
  <2>3. Holding(q, flight, frames) /\ SaysFinish(said, q, flight, frames, g)
    BY <1>2, <1>4, <1>5 DEF Holding, SaysFinish
  <2> QED BY <1>1, <1>2, <1>5, <2>2, <2>3, AlikeIsRight
<1>6. CASE Out!Cork
  <2> DEFINE q == [out EXCEPT !.corked = TRUE, !.corks = @ + 1]
  <2>1. out' = q /\ said' = g /\ frames' = frames /\ flight' = flight /\ ops' = ops
    BY <1>6 DEF Out!Cork
  <2>2. /\ q \in StdStates /\ q.queue = out.queue /\ q.buffered = out.buffered /\ q.ended = out.ended
        /\ q.corks = out.corks + 1 /\ q.keepalive = out.keepalive /\ q.usable = out.usable
    <3>1. out.corks + 1 \in 0..OutCalls
      BY <1>1, <1>3
    <3> QED BY <1>1, <3>1 DEF StdStates
  <2> HIDE DEF q, g
  <2> QED BY <1>1, <1>5, <2>1, <2>2, OutputStays
<1>7. CASE Out!Uncork
  <2> DEFINE n == IF out.corks > 0 THEN out.corks - 1 ELSE 0
             q == [out EXCEPT !.corks = n, !.corked = @ /\ n # 0]
             m == n = 0
  <2>1. \E o \in (IF m THEN Out!Starts(q) ELSE {Out!Stays(q)}) : Out!Become(o, frames, g)
    BY <1>7 DEF Out!Uncork
  <2>2. n \in 0..OutCalls /\ n \in {out.corks - 1, 0}
    BY <1>1, <1>3
  <2> HIDE DEF n
  <2>3. /\ q \in StdStates /\ q.queue = out.queue /\ q.buffered = out.buffered /\ q.ended = out.ended
        /\ q.corks = n /\ q.keepalive = out.keepalive /\ q.usable = out.usable
    BY <1>1, <2>2 DEF StdStates
  <2> HIDE DEF q, g, m
  <2>4. /\ Alike(out, said, q, g) /\ Holding(q, flight, frames) /\ SaysFinish(said, q, flight, frames, g)
        /\ StdRight(q, flight, ops, frames, g)
    BY <1>5, <2>2, <2>3
  <2>5. ~Unfollowed(frames)
    BY <1>7, MayFlushIs DEF Out!Uncork
  <2>6. CASE m
    <3>1. PICK o \in Out!Starts(q) : Out!Become(o, frames, g)
      BY <2>1, <2>6
    <3> QED BY <2>4, <2>5, <3>1, Becoming
  <2>7. CASE ~m
    <3>1. /\ out' = q /\ flight' = flight /\ ops' = ops /\ frames' = <<>> \o frames
          /\ said' = [g EXCEPT !.lost = @ \o <<>>]
      <4>1. PICK o : o = Out!Stays(q) /\ Out!Become(o, frames, g)
        BY <2>1, <2>7
      <4>2. o.s = q /\ o.flight = flight /\ o.ops = ops /\ o.todo = <<>> /\ o.lost = <<>>
        BY <4>1 DEF Out!Stays
      <4> QED BY <4>1, <4>2 DEF Out!Become
    <3>2. frames' = frames /\ said' = g
      <4>1. <<>> \o frames = frames
        BY <1>1
      <4>2. g.lost \o <<>> = g.lost
        BY <1>4 DEF StdStories
      <4> QED BY <1>4, <3>1, <4>1, <4>2 DEF StdStories
    <3> QED BY <1>1, <2>3, <2>4, <3>1, <3>2, OutputStays
  <2> QED BY <2>6, <2>7
<1> QED BY <1>6, <1>7

\* A write that completed, or failed.
LEMMA OutputCompletes ==
  ASSUME StdConstants, StdInv, Out!Written \/ Out!WriteFailed PROVE StdInv'
<1> DEFINE c == flight[1]
           cb == IF c.cb THEN <<"script">> ELSE <<>>
           up == said.answers + (IF c.cb THEN 1 ELSE 0)
           v == frames'
           g == said'
<1>0. /\ OutCalls \in Nat /\ out \in StdStates /\ said \in StdStories
      /\ said.written \in Seq(1..OutCalls) /\ said.lost \in Seq(1..OutCalls)
      /\ said.taken \in Seq(1..OutCalls) /\ out.queue \in Seq(StdChunks) /\ said.answers \in 0..OutCalls
  BY StdStateIs DEF StdStories
<1>1. StdRight(out, flight, ops, frames, said) /\ Holding(out, flight, frames)
  BY DEF StdInv
<1>2. frames = <<>> /\ flight # <<>> /\ ops' = ops - 1 /\ flight' = <<>> /\ out' = out
  BY DEF Out!Written, Out!WriteFailed, Out!Idle
<1>3. c \in StdChunks /\ flight = <<c>> /\ Len(flight) = 1 /\ ops = 1
  <2>1. PICK x \in StdChunks : flight = <<x>>
    BY <1>1, <1>2 DEF StdRight, StdTyped, Flight
  <2>2. <<x>>[1] = x /\ Len(<<x>>) = 1 /\ ops = Len(flight)
    BY <1>1 DEF StdRight, StdTyped
  <2> QED BY <2>1, <2>2
<1>4. cb \in Seq(Starters) /\ <<"script">> \o cb \in Seq(Starters)
  <2>1. <<>> \in Seq(Starters) /\ <<"script">> \in Seq(Starters)
    BY DEF Starters
  <2>2. cb \in Seq(Starters)
    BY <2>1
  <2> QED BY <2>1, <2>2
<1> HIDE DEF c
<1>5. /\ c.id \in 1..OutCalls /\ c.id = Left(out, said) /\ Left(out, said) \in Nat
      /\ Left(out, said) - Len(flight) = Left(out, said) - 1 /\ Left(out, said) - Len(<<>>) = Left(out, said)
  <2>1. InOrder(out, flight, said)
    BY <1>1 DEF StdRight
  <2>2. flight[1].id = Left(out, said)
    BY <1>2, <2>1 DEF InOrder
  <2>3. c.id \in 1..OutCalls
    BY <1>3 DEF StdChunks
  <2>4. Left(out, said) \in Nat
    BY <1>0, <2>1 DEF Left, InOrder
  <2> QED BY <1>3, <2>2, <2>3, <2>4 DEF c
<1>6. up \in 0..OutCalls /\ up <= Left(out, said)
  <2>1. said.answers <= Left(out, said) - 1 /\ Left(out, said) <= OutCalls
    <3>1. said.answers <= Left(out, said) - 1
      BY <1>1, <1>5 DEF StdRight, InOrder
    <3> QED BY <1>5, <3>1
  <2>2. up \in {said.answers, said.answers + 1}
    <3>1. said.answers + 0 = said.answers
      BY <1>0
    <3> QED BY <3>1
  <2> HIDE DEF up
  <2> QED BY <1>0, <1>5, <2>1, <2>2
<1> HIDE DEF up
<1>7. ~out.keepalive \/ LetsGo(v)
  <2>1. \E i \in DOMAIN v : v[i] \in {"afterWrite", "release"}
    <3>1. CASE Out!Written
      <4>1. v = cb \o <<"afterWrite">>
        BY <3>1 DEF Out!Written, c
      <4>2. Len(cb) + 1 \in DOMAIN v /\ v[Len(cb) + 1] = "afterWrite"
        BY <1>4, <4>1 DEF Starters
      <4> QED BY <4>2
    <3>2. CASE Out!WriteFailed
      <4>1. v = (<<"script">> \o cb) \o <<"release">>
        BY <3>2 DEF Out!WriteFailed, c
      <4>2. Len(<<"script">> \o cb) + 1 \in DOMAIN v /\ v[Len(<<"script">> \o cb) + 1] = "release"
        BY <1>4, <4>1 DEF Starters
      <4> QED BY <4>2
    <3> QED BY <3>1, <3>2
  <2> QED BY <2>1 DEF LetsGo
<1>8. /\ v \in Seq(Out!Frames) /\ \A i \in DOMAIN v : v[i] = "afterWrite" => i = Len(v)
      /\ Out!WriteFailed \/ Out!Written
  <2>1. CASE Out!Written
    <3>1. v = cb \o <<"afterWrite">>
      BY <2>1 DEF Out!Written, c
    <3>2. <<"afterWrite">> \in Seq(Out!Frames) /\ \A i \in DOMAIN <<"afterWrite">> : i = Len(<<"afterWrite">>)
      BY DEF Out!Frames
    <3> HIDE DEF v
    <3> QED BY <1>4, <2>1, <3>1, <3>2, FramesOnTop
  <2>2. CASE Out!WriteFailed
    <3>1. v = (<<"script">> \o cb) \o <<"release">>
      BY <2>2 DEF Out!WriteFailed, c
    <3>2. <<"release">> \in Seq(Out!Frames) /\ \A i \in DOMAIN <<"release">> : i = Len(<<"release">>)
      BY DEF Out!Frames
    <3> HIDE DEF v
    <3> QED BY <1>4, <2>2, <3>1, <3>2, FramesOnTop
  <2> QED BY <2>1, <2>2
<1>9. /\ g \in StdStories /\ g.calls = said.calls /\ g.taken = said.taken /\ g.answers = up
      /\ g.finishes = said.finishes
      /\ \/ g.written = Append(said.written, c.id) /\ g.lost = said.lost
         \/ g.written = said.written /\ g.lost = Append(said.lost, c.id)
  <2>0. Append(said.written, c.id) \in Seq(1..OutCalls) /\ Append(said.lost, c.id) \in Seq(1..OutCalls)
    BY <1>0, <1>5
  <2>1. CASE Out!Written
    <3>1. g = [said EXCEPT !.written = Append(@, c.id), !.answers = up]
      BY <1>0, <2>1 DEF Out!Written, c, up, StdStories
    <3> HIDE DEF g
    <3> QED BY <1>0, <1>6, <2>0, <3>1 DEF StdStories
  <2>2. CASE Out!WriteFailed
    <3>1. g = [said EXCEPT !.lost = Append(@, c.id), !.answers = up]
      BY <1>0, <2>2 DEF Out!WriteFailed, c, up, StdStories
    <3> HIDE DEF g
    <3> QED BY <1>0, <1>6, <2>0, <3>1 DEF StdStories
  <2> QED BY <2>1, <2>2
<1> HIDE DEF v, g, cb
<1>10. StdTyped(out, <<>>, 0, v, g)
  <2>1. /\ out.corks <= said.calls /\ Len(said.taken) <= said.calls /\ (out.ended => said.calls > 0)
        /\ out.buffered \in {Len(out.queue), Len(out.queue) - 1}
        /\ (~out.ended => out.buffered = Len(out.queue))
    BY <1>1 DEF StdRight, StdTyped
  <2>2. Flight(<<>>) /\ Len(<<>>) = 0
    BY DEF Flight
  <2> QED BY <1>0, <1>8, <1>9, <2>1, <2>2 DEF StdTyped
<1>11. InOrder(out, <<>>, g)
  <2> DEFINE n == Left(out, said)
  <2>1. Left(out, g) = n
    BY <1>9 DEF Left
  <2>2. /\ \A i \in DOMAIN said.taken : said.taken[i] = i
        /\ Len(out.queue) <= Len(said.taken)
        /\ \A i \in DOMAIN out.queue : out.queue[i].id = n + i
        /\ \A i, j \in DOMAIN said.written : i < j => said.written[i] < said.written[j]
        /\ \A i \in DOMAIN said.written : said.written[i] <= n - 1
        /\ \A i \in DOMAIN said.lost : said.lost[i] <= n - 1
        /\ \A x \in 1..(n - 1) :
             (\E i \in DOMAIN said.written : said.written[i] = x) <=> ~(\E i \in DOMAIN said.lost : said.lost[i] = x)
    <3>1. InOrder(out, flight, said) /\ n - Len(flight) = n - 1
      BY <1>1, <1>5 DEF StdRight
    <3> QED BY <3>1 DEF InOrder
  <2>3. n \in Nat /\ c.id = n /\ n - Len(<<>>) = n /\ n >= 1
    BY <1>5
  <2> DEFINE Grown(s, t) == t = Append(s, c.id)
             Low(s) == \A i \in DOMAIN s : s[i] <= n - 1
             More(s, t) ==
               /\ \A i \in DOMAIN t : t[i] <= n
               /\ (\A i, j \in DOMAIN s : i < j => s[i] < s[j]) => \A i, j \in DOMAIN t : i < j => t[i] < t[j]
               /\ \A x \in 1..(n - 1) : (\E i \in DOMAIN t : t[i] = x) <=> (\E i \in DOMAIN s : s[i] = x)
               /\ \E i \in DOMAIN t : t[i] = n
  <2>4. ASSUME NEW s \in Seq(1..OutCalls), Low(s), NEW t, Grown(s, t)
        PROVE  More(s, t)
    <3>1. /\ Len(s) \in Nat /\ DOMAIN s = 1..Len(s) /\ DOMAIN t = 1..(Len(s) + 1) /\ t[Len(s) + 1] = n
          /\ \A i \in 1..Len(s) : t[i] = s[i] /\ s[i] \in Nat
      BY <1>0, <1>5, <2>3, <2>4 DEF Grown
    <3> HIDE DEF n
    <3>2. \A i \in DOMAIN t : i \in DOMAIN s \/ i = Len(s) + 1
      BY <3>1
    <3>3. \A i \in DOMAIN t : t[i] <= n
      BY <2>3, <2>4, <3>1, <3>2
    <3>4. (\A i, j \in DOMAIN s : i < j => s[i] < s[j]) => \A i, j \in DOMAIN t : i < j => t[i] < t[j]
      BY <2>3, <2>4, <3>1, <3>2
    <3>5. \A x \in 1..(n - 1) : (\E i \in DOMAIN t : t[i] = x) <=> (\E i \in DOMAIN s : s[i] = x)
      BY <2>3, <3>1, <3>2
    <3>6. Len(s) + 1 \in DOMAIN t
      BY <3>1
    <3> QED BY <3>1, <3>3, <3>4, <3>5, <3>6
  <2>40. Low(said.written) /\ Low(said.lost)
    BY <2>2
  <2> HIDE DEF Grown, Low, More
  <2> HIDE DEF n
  <2>5. \A s \in Seq(1..OutCalls) : (\A i \in DOMAIN s : s[i] <= n - 1) =>
          (\A i \in DOMAIN s : s[i] <= n) /\ ~(\E i \in DOMAIN s : s[i] = n)
    <3> SUFFICES ASSUME NEW s \in Seq(1..OutCalls), \A i \in DOMAIN s : s[i] <= n - 1
                 PROVE  (\A i \in DOMAIN s : s[i] <= n) /\ ~(\E i \in DOMAIN s : s[i] = n)
      OBVIOUS
    <3>1. \A i \in DOMAIN s : s[i] \in Nat
      BY <1>0
    <3> QED BY <2>3, <3>1
  <2>6. /\ \A i, j \in DOMAIN g.written : i < j => g.written[i] < g.written[j]
        /\ \A i \in DOMAIN g.written : g.written[i] <= n
        /\ \A i \in DOMAIN g.lost : g.lost[i] <= n
        /\ \A x \in 1..(n - 1) :
             (\E i \in DOMAIN g.written : g.written[i] = x) <=> ~(\E i \in DOMAIN g.lost : g.lost[i] = x)
        /\ (\E i \in DOMAIN g.written : g.written[i] = n) <=> ~(\E i \in DOMAIN g.lost : g.lost[i] = n)
    <3>1. CASE g.written = Append(said.written, c.id) /\ g.lost = said.lost
      <4>0. Grown(said.written, g.written)
        BY <3>1 DEF Grown
      <4>00. More(said.written, g.written)
        BY <1>0, <2>4, <2>40, <4>0
      <4>1. /\ \A i \in DOMAIN g.written : g.written[i] <= n
            /\ \A i, j \in DOMAIN g.written : i < j => g.written[i] < g.written[j]
            /\ \A x \in 1..(n - 1) : (\E i \in DOMAIN g.written : g.written[i] = x) <=>
                                     (\E i \in DOMAIN said.written : said.written[i] = x)
            /\ \E i \in DOMAIN g.written : g.written[i] = n
        BY <2>2, <4>00 DEF More
      <4>2. (\A i \in DOMAIN g.lost : g.lost[i] <= n) /\ ~(\E i \in DOMAIN g.lost : g.lost[i] = n)
        BY <1>0, <2>2, <2>5, <3>1
      <4> QED BY <2>2, <3>1, <4>1, <4>2
    <3>2. CASE g.written = said.written /\ g.lost = Append(said.lost, c.id)
      <4>0. Grown(said.lost, g.lost)
        BY <3>2 DEF Grown
      <4>00. More(said.lost, g.lost)
        BY <1>0, <2>4, <2>40, <4>0
      <4>1. /\ \A i \in DOMAIN g.lost : g.lost[i] <= n
            /\ \A x \in 1..(n - 1) : (\E i \in DOMAIN g.lost : g.lost[i] = x) <=>
                                     (\E i \in DOMAIN said.lost : said.lost[i] = x)
            /\ \E i \in DOMAIN g.lost : g.lost[i] = n
        BY <2>2, <4>00 DEF More
      <4>2. (\A i \in DOMAIN g.written : g.written[i] <= n) /\ ~(\E i \in DOMAIN g.written : g.written[i] = n)
        BY <1>0, <2>2, <2>5, <3>2
      <4> QED BY <2>2, <3>2, <4>1, <4>2
    <3> QED BY <1>9, <3>1, <3>2
  <2>7. \A x \in 1..n : (\E i \in DOMAIN g.written : g.written[i] = x) <=> ~(\E i \in DOMAIN g.lost : g.lost[i] = x)
    <3>1. \A x \in 1..n : x \in 1..(n - 1) \/ x = n
      BY <2>3
    <3> QED BY <2>6, <3>1
  <2>8. g.answers <= n
    BY <1>6, <1>9 DEF n
  <2>9. Left(out, g) - Len(<<>>) = n
    BY <2>1, <2>3
  <2>10. \A i \in DOMAIN out.queue : out.queue[i].id = Left(out, g) + i
    BY <2>1, <2>2
  <2> QED BY <1>9, <2>2, <2>6, <2>7, <2>8, <2>9, <2>10 DEF InOrder
<1>12. Finishing(out, <<>>, v, g)
  <2>1. ~(said.finishes > 0)
    BY <1>1, <1>2 DEF StdRight, Finishing
  <2> QED BY <1>8, <1>9, <2>1 DEF Finishing
<1>13. Holding(out, <<>>, v)
  <2>1. out.usable
    BY <1>1, <1>2 DEF Holding
  <2> QED BY <1>7, <2>1 DEF Holding
<1>14. ops' = 0
  BY <1>2, <1>3
<1> QED BY <1>2, <1>10, <1>11, <1>12, <1>13, <1>14 DEF StdInv, StdRight, v, g

\* What follows a write that completed.
LEMMA OutputFollowsUp == ASSUME StdConstants, StdInv, Out!AfterWrite PROVE StdInv'
<1> DEFINE t == Tail(frames)
<1>1. /\ OutCalls \in Nat /\ out \in StdStates /\ said \in StdStories /\ frames \in Seq(Out!Frames)
      /\ out.corks <= said.calls /\ said.calls <= said.calls /\ said.calls \in Nat /\ said.calls <= OutCalls
      /\ \A i \in DOMAIN frames : frames[i] = "afterWrite" => i = Len(frames)
  <2>1. said.calls \in 0..OutCalls /\ OutCalls \in Nat
    BY StdStateIs
  <2> QED BY <2>1, StdStateIs
<1>2. StdRight(out, flight, ops, frames, said) /\ Holding(out, flight, frames)
  BY DEF StdInv
<1>3. frames # <<>> /\ Head(frames) = "afterWrite"
  BY DEF Out!AfterWrite, Out!At
<1>4. /\ t \in Seq(Out!Frames) /\ ~Unfollowed(t) /\ \A i \in DOMAIN t : t[i] = "afterWrite" => i = Len(t)
  BY <1>1, <1>3, FrameDone
<1>5. Unfollowed(frames)
  <2>1. 1 \in DOMAIN frames /\ frames[1] = Head(frames)
    BY <1>1, <1>3
  <2> QED BY <1>3, <2>1 DEF Unfollowed
<1>6. /\ out.usable /\ (out.ended => flight = <<>> /\ said.calls > 0) /\ said.finishes = 0
  <2>1. ~(said.finishes > 0) /\ (out.ended => flight = <<>>)
    BY <1>2, <1>5 DEF StdRight, Finishing
  <2>2. out.usable /\ (out.ended => said.calls > 0)
    BY <1>2, <1>5 DEF Holding, StdRight, StdTyped
  <2>3. said.finishes = 0
    BY <1>1, <2>1 DEF StdStories
  <2> QED BY <2>1, <2>2, <2>3
<1> HIDE DEF t
<1>7. ASSUME NEW s \in {<<"release">>, <<"script", "release">>}
      PROVE  /\ s \o t \in Seq(Out!Frames) /\ ~Unfollowed(s \o t) /\ LetsGo(s \o t)
             /\ \A i \in DOMAIN (s \o t) : (s \o t)[i] = "afterWrite" => i = Len(s \o t)
  <2>1. s \in Seq(Starters)
    <3>1. <<"release">> \in Seq(Starters) /\ <<"script", "release">> \in Seq(Starters)
      BY DEF Starters
    <3> QED BY <3>1
  <2>2. /\ s \o t \in Seq(Out!Frames) /\ ~Unfollowed(s \o t)
        /\ \A i \in DOMAIN (s \o t) : (s \o t)[i] = "afterWrite" => i = Len(s \o t)
    BY <1>4, <2>1, FramesOnTop
  <2>3. PICK i \in DOMAIN s : s[i] = "release"
    <3>1. CASE s = <<"release">>
      <4>1. 1 \in DOMAIN s /\ s[1] = "release"
        BY <3>1
      <4> QED BY <4>1
    <3>2. CASE s = <<"script", "release">>
      <4>1. 2 \in DOMAIN s /\ s[2] = "release"
        BY <3>2
      <4> QED BY <4>1
    <3> QED BY <3>1, <3>2
  <2>4. i \in DOMAIN (s \o t) /\ (s \o t)[i] = s[i]
    BY <1>4, <2>1, <2>3 DEF Starters, Out!Frames
  <2> QED BY <2>2, <2>3, <2>4 DEF LetsGo
<1>8. CASE out.ended /\ out.queue = <<>>
  <2> DEFINE v == <<"script", "release">> \o t
             g == [said EXCEPT !.finishes = @ + 1]
  <2>1. frames' = v /\ said' = g /\ out' = out /\ flight' = flight /\ ops' = ops
    BY <1>8 DEF Out!AfterWrite, Out!Then, t
  <2>2. /\ g \in StdStories /\ g.finishes = 1 /\ g.calls = said.calls /\ g.taken = said.taken
        /\ g.written = said.written /\ g.lost = said.lost /\ g.answers = said.answers
    <3>1. g = [said EXCEPT !.finishes = 1] /\ 1 \in 0..OutCalls
      BY <1>1, <1>6, <1>8 DEF StdStories
    <3> QED BY <1>1, <3>1 DEF StdStories
  <2>3. /\ v \in Seq(Out!Frames) /\ ~Unfollowed(v) /\ LetsGo(v)
        /\ \A i \in DOMAIN v : v[i] = "afterWrite" => i = Len(v)
    BY <1>7
  <2> HIDE DEF v, g
  <2>4. Alike(out, said, out, g)
    BY <1>1, <2>2 DEF Alike
  <2>5. SaysFinish(said, out, flight, v, g) /\ Holding(out, flight, v)
    BY <1>2, <1>6, <1>8, <2>2, <2>3 DEF SaysFinish, Holding
  <2> QED BY <2>1, <2>3, <2>4, <2>5, OutputStays
<1>9. CASE ~(out.ended /\ out.queue = <<>>) /\ out.queue # <<>> /\ ~out.corked
  <2>1. PICK o \in Out!Starts(out) : Out!Become(o, t, said)
    BY <1>9 DEF Out!AfterWrite, t
  <2>2. SaysFinish(said, out, flight, t, said)
    BY DEF SaysFinish
  <2>3. Alike(out, said, out, said)
    BY OutputRests
  <2>4. StdRight(out, flight, ops, t, said)
    BY <1>2, <1>4, <2>2, <2>3, AlikeIsRight
  <2> QED BY <1>4, <1>6, <1>9, <2>1, <2>4, Becoming
<1>10. CASE ~(out.ended /\ out.queue = <<>>) /\ ~(out.queue # <<>> /\ ~out.corked)
  <2> DEFINE s == IF out.draining THEN <<"script", "release">> ELSE <<"release">>
             v == s \o t
             q == [out EXCEPT !.draining = FALSE]
  <2>1. frames' = v /\ said' = said /\ out' = q /\ flight' = flight /\ ops' = ops
    BY <1>10 DEF Out!AfterWrite, Out!Then, t
  <2>2. s \in {<<"release">>, <<"script", "release">>}
    OBVIOUS
  <2> HIDE DEF s
  <2>3. /\ v \in Seq(Out!Frames) /\ ~Unfollowed(v) /\ LetsGo(v)
        /\ \A i \in DOMAIN v : v[i] = "afterWrite" => i = Len(v)
    BY <1>7, <2>2
  <2>4. /\ q \in StdStates /\ q.queue = out.queue /\ q.buffered = out.buffered /\ q.ended = out.ended
        /\ q.corks = out.corks /\ q.keepalive = out.keepalive /\ q.usable = out.usable
    BY <1>1 DEF StdStates
  <2> HIDE DEF v, q
  <2>5. Alike(out, said, q, said)
    BY <1>1, <2>4 DEF Alike
  <2>6. SaysFinish(said, q, flight, v, said) /\ Holding(q, flight, v)
    BY <1>2, <1>6, <2>3, <2>4 DEF SaysFinish, Holding
  <2> QED BY <2>1, <2>3, <2>4, <2>5, <2>6, OutputStays
<1> QED BY <1>8, <1>9, <1>10

\* The stream before any call.
LEMMA OutputBegins == ASSUME StdConstants, Out!Init PROVE StdInv
<1>0. OutCalls \in Nat
  BY DEF StdConstants, Out!StdAssumption
<1>1. PICK usable \in BOOLEAN :
        out = [queue |-> <<>>, buffered |-> 0, ended |-> FALSE, draining |-> FALSE,
               corked |-> FALSE, corks |-> 0, keepalive |-> FALSE, usable |-> usable]
  BY DEF Out!Init
<1>2. /\ flight = <<>> /\ ops = 0 /\ frames = <<>>
      /\ said = [calls |-> 0, taken |-> <<>>, written |-> <<>>, lost |-> <<>>,
                 answers |-> 0, finishes |-> 0]
  BY DEF Out!Init
<1>3. out \in StdStates /\ said \in StdStories
  <2>1. <<>> \in Seq(StdChunks) /\ <<>> \in Seq(1..OutCalls) /\ 0 \in 0..OutCalls /\ 0 \in -1..OutCalls
    BY <1>0
  <2> QED BY <1>1, <1>2, <2>1 DEF StdStates, StdStories
<1>4. /\ out.queue = <<>> /\ out.buffered = 0 /\ ~out.ended /\ out.corks = 0 /\ ~out.keepalive
      /\ said.calls = 0 /\ said.taken = <<>> /\ said.written = <<>> /\ said.lost = <<>>
      /\ said.answers = 0 /\ said.finishes = 0
  BY <1>1, <1>2
<1>5. frames \in Seq(Out!Frames) /\ ~Unfollowed(frames) /\ Flight(flight) /\ Len(<<>>) = 0 /\ DOMAIN <<>> = {}
      /\ \A i \in DOMAIN frames : frames[i] = "afterWrite" => i = Len(frames)
  BY <1>2 DEF Unfollowed, Flight
<1>6. StdTyped(out, flight, ops, frames, said)
  BY <1>2, <1>3, <1>4, <1>5 DEF StdTyped
<1>7. InOrder(out, flight, said)
  <2>1. Left(out, said) = 0
    BY <1>4, <1>5 DEF Left
  <2> QED BY <1>2, <1>4, <1>5, <2>1 DEF InOrder
<1>8. Finishing(out, flight, frames, said) /\ Holding(out, flight, frames)
  BY <1>2, <1>4, <1>5 DEF Finishing, Holding
<1> QED BY <1>6, <1>7, <1>8 DEF StdInv, StdRight

\* Whatever happens, the invariant stays.
LEMMA OutputGoes == ASSUME StdConstants, StdInv, Out!Next PROVE StdInv'
BY OutputWrites, OutputEnds, OutputCorks, OutputRuns, OutputCompletes, OutputFollowsUp
   DEF Out!Next, Out!Completes, Out!Native, Out!ScriptCalls

\* What joining two sequences makes.
LEMMA Joined ==
  ASSUME NEW s \in Seq(Int), NEW t \in Seq(Int)
  PROVE  /\ s \o t \in Seq(Int) /\ Len(s \o t) = Len(s) + Len(t) /\ Len(s) \in Nat /\ Len(t) \in Nat
         /\ DOMAIN (s \o t) = 1..(Len(s) + Len(t))
         /\ \A i \in 1..Len(s) : (s \o t)[i] = s[i]
         /\ \A i \in 1..Len(t) : (s \o t)[Len(s) + i] = t[i]
OBVIOUS

\* Nothing is held, finished early, or out of order.
LEMMA OutputIsRight ==
  ASSUME StdConstants, StdInv
  PROVE  Out!TypeOK /\ Out!OutputInOrder /\ Out!OutputHoldsLoop /\ Out!FinishIsLast
<1>1. /\ OutCalls \in Nat /\ out \in StdStates /\ said \in StdStories /\ frames \in Seq(Out!Frames)
      /\ out.queue \in Seq(StdChunks) /\ said.taken \in Seq(1..OutCalls)
      /\ said.written \in Seq(1..OutCalls) /\ said.lost \in Seq(1..OutCalls)
  BY StdStateIs DEF StdStories
<1>2. /\ StdTyped(out, flight, ops, frames, said) /\ InOrder(out, flight, said)
      /\ Finishing(out, flight, frames, said) /\ Holding(out, flight, frames)
  BY DEF StdInv, StdRight
<1>3. Flight(flight) /\ ops = Len(flight)
  BY <1>2 DEF StdTyped
<1>4. Out!TypeOK
  <2>1. flight \in {<<>>} \cup {<<c>> : c \in Out!Chunk} /\ ops \in Nat
    <3>1. CASE flight = <<>>
      BY <1>3, <3>1
    <3>2. CASE flight # <<>>
      <4>1. PICK c \in StdChunks : flight = <<c>>
        BY <1>3, <3>2 DEF Flight
      <4>2. Len(<<c>>) = 1 /\ c \in Out!Chunk
        BY DEF StdChunks, Out!Chunk
      <4> QED BY <1>3, <4>1, <4>2
    <3> QED BY <3>1, <3>2
  <2> QED BY <1>1, <2>1 DEF Out!TypeOK, StdStates, StdStories, StdChunks, Out!Chunk
<1>5. Out!OutputHoldsLoop
  <2>1. frames = <<>> => ~LetsGo(frames)
    BY DEF LetsGo
  <2> QED BY <1>2, <1>3, <2>1 DEF Out!OutputHoldsLoop, Out!Idle, Holding
<1>6. Out!FinishIsLast
  BY <1>2 DEF Out!FinishIsLast, Finishing
<1>7. Out!OutputInOrder
  <2> DEFINE W == said.written
             F == Out!Ids(flight)
             Q == Out!Ids(out.queue)
             K == W \o F \o Q
             n == Left(out, said)
             m == n - Len(flight)
             T == Len(said.taken)
  <2>1. /\ T \in Nat /\ n \in Nat /\ Len(out.queue) \in Nat /\ T = n + Len(out.queue)
        /\ DOMAIN said.taken = 1..T /\ \A l \in 1..T : said.taken[l] = l
        /\ \A i \in DOMAIN out.queue : out.queue[i].id = n + i
    <3>1. /\ T \in Nat /\ Len(out.queue) \in Nat /\ Len(out.queue) <= T
          /\ DOMAIN said.taken = 1..T /\ \A l \in DOMAIN said.taken : said.taken[l] = l
          /\ \A i \in DOMAIN out.queue : out.queue[i].id = n + i
      BY <1>1, <1>2 DEF InOrder
    <3>2. n = T - Len(out.queue)
      BY DEF Left
    <3> HIDE DEF n, T
    <3>3. \A x, y \in Nat : y <= x => x - y \in Nat /\ x = (x - y) + y
      OBVIOUS
    <3> QED BY <3>1, <3>2, <3>3
  <2>2. /\ F \in Seq(Int) /\ Len(F) = Len(flight) /\ Len(flight) \in {0, 1}
        /\ \A i \in 1..Len(F) : F[i] = n /\ (Len(flight) = 1 => n \in 1..OutCalls)
    <3>1. CASE flight = <<>>
      <4>1. F = <<>> /\ Len(<<>>) = 0 /\ <<>> \in Seq(Int)
        BY <3>1 DEF Out!Ids
      <4> HIDE DEF F
      <4> QED BY <3>1, <4>1
    <3>2. CASE flight # <<>>
      <4>1. PICK c \in StdChunks : flight = <<c>>
        BY <1>3, <3>2 DEF Flight
      <4>2. F = <<c.id>>
        BY <4>1 DEF Out!Ids
      <4>3. c.id = n /\ c.id \in 1..OutCalls
        BY <1>2, <3>2, <4>1 DEF InOrder, StdChunks
      <4>4. Len(<<c>>) = 1 /\ Len(<<c.id>>) = 1 /\ <<c.id>>[1] = c.id /\ <<c.id>> \in Seq(Int)
        BY <1>1, <4>3
      <4> HIDE DEF F, n
      <4> QED BY <4>1, <4>2, <4>3, <4>4
    <3> QED BY <3>1, <3>2
  <2>3. m \in Nat /\ m \in {n, n - 1} /\ (Len(flight) = 0 => m = n) /\ (Len(flight) = 1 => m = n - 1)
    <3>1. Len(F) = 1 => 1 \in 1..Len(F)
      OBVIOUS
    <3> HIDE DEF F, n
    <3>2. Len(flight) = 1 => n \in 1..OutCalls
      BY <2>2, <3>1
    <3>3. CASE Len(flight) = 0
      BY <2>1, <3>3
    <3>4. CASE Len(flight) = 1
      BY <1>1, <3>2, <3>4
    <3> QED BY <2>2, <3>3, <3>4
  <2>4. /\ Q \in Seq(Int) /\ Len(Q) = Len(out.queue) /\ \A i \in 1..Len(Q) : Q[i] = n + i
    <3>1. DOMAIN out.queue = 1..Len(out.queue)
      BY <1>1
    <3>2. Q = [i \in 1..Len(out.queue) |-> out.queue[i].id]
      BY <3>1 DEF Out!Ids
    <3> HIDE DEF Q, n
    <3>3. \A i \in 1..Len(out.queue) : out.queue[i].id = n + i /\ n + i \in Int
      BY <2>1, <3>1
    <3> QED BY <2>1, <3>2, <3>3
  <2>5. /\ W \in Seq(Int) /\ Len(W) \in Nat /\ DOMAIN W = 1..Len(W)
        /\ \A i \in 1..Len(W) : W[i] \in 1..m
        /\ \A i, j \in 1..Len(W) : i < j => W[i] < W[j]
        /\ \A x \in 1..m : (\E i \in 1..Len(W) : W[i] = x) <=> ~(\E i \in DOMAIN said.lost : said.lost[i] = x)
        /\ \A i \in DOMAIN said.lost : said.lost[i] \in 1..m
    <3>1. W \in Seq(Int) /\ Len(W) \in Nat /\ DOMAIN W = 1..Len(W) /\ \A i \in 1..Len(W) : W[i] \in 1..OutCalls
      BY <1>1
    <3>2. \A i \in DOMAIN said.lost : said.lost[i] \in 1..OutCalls
      BY <1>1
    <3>3. /\ \A i, j \in DOMAIN said.written : i < j => said.written[i] < said.written[j]
          /\ \A i \in DOMAIN said.written : said.written[i] <= m
          /\ \A i \in DOMAIN said.lost : said.lost[i] <= m
          /\ \A x \in 1..m :
               (\E i \in DOMAIN said.written : said.written[i] = x) <=> ~(\E i \in DOMAIN said.lost : said.lost[i] = x)
      BY <1>2 DEF InOrder
    <3>4. m \in Nat
      BY <2>3
    <3> HIDE DEF W, m
    <3>5. \A i \in 1..Len(W) : W[i] \in Nat /\ W[i] >= 1
      BY <1>1, <3>1
    <3>6. \A i \in DOMAIN said.lost : said.lost[i] \in Nat /\ said.lost[i] >= 1
      BY <1>1, <3>2
    <3>7. /\ \A i \in 1..Len(W) : W[i] <= m
          /\ \A i, j \in 1..Len(W) : i < j => W[i] < W[j]
          /\ \A x \in 1..m : (\E i \in 1..Len(W) : W[i] = x) <=> ~(\E i \in DOMAIN said.lost : said.lost[i] = x)
      BY <3>1, <3>3 DEF W
    <3>8. \A i \in 1..Len(W) : W[i] \in 1..m
      BY <3>4, <3>5, <3>7
    <3>9. \A i \in DOMAIN said.lost : said.lost[i] \in 1..m
      BY <3>3, <3>4, <3>6
    <3> QED BY <3>1, <3>7, <3>8, <3>9
  <2> HIDE DEF W, F, Q, m, n, T
  <2>6. /\ DOMAIN K = 1..(Len(W) + Len(F) + Len(Q))
        /\ \A i \in 1..Len(W) : K[i] = W[i]
        /\ \A i \in 1..Len(F) : K[Len(W) + i] = F[i]
        /\ \A i \in 1..Len(Q) : K[Len(W) + Len(F) + i] = Q[i]
    <3> DEFINE WF == W \o F
    <3>1. /\ WF \in Seq(Int) /\ Len(WF) = Len(W) + Len(F) /\ Len(W) \in Nat /\ Len(F) \in Nat
          /\ \A i \in 1..Len(W) : WF[i] = W[i]
          /\ \A i \in 1..Len(F) : WF[Len(W) + i] = F[i]
      BY <2>2, <2>5, Joined
    <3>2. K = WF \o Q /\ Q \in Seq(Int)
      BY <2>4
    <3> HIDE DEF WF, K
    <3>3. /\ Len(Q) \in Nat /\ DOMAIN K = 1..(Len(WF) + Len(Q))
          /\ \A i \in 1..Len(WF) : K[i] = WF[i]
          /\ \A i \in 1..Len(Q) : K[Len(WF) + i] = Q[i]
      BY <3>1, <3>2, Joined
    <3>4. /\ \A i \in 1..Len(W) : i \in 1..Len(WF)
          /\ \A i \in 1..Len(F) : Len(W) + i \in 1..Len(WF)
      BY <3>1
    <3> QED BY <3>1, <3>3, <3>4
  <2>60. /\ Len(W) \in Nat /\ Len(F) \in {0, 1} /\ Len(F) \in Nat /\ Len(Q) \in Nat /\ T = n + Len(Q)
         /\ n \in Nat /\ m \in Nat /\ T \in Nat /\ m <= n
    <3>1. Len(W) \in Nat /\ Len(F) \in {0, 1}
      BY <2>2, <2>5
    <3>2. Len(Q) \in Nat /\ T = n + Len(Q) /\ n \in Nat /\ m \in Nat /\ T \in Nat
      BY <2>1, <2>3, <2>4
    <3>3. m <= n
      BY <2>1, <2>3
    <3>4. Len(F) \in Nat
      BY <3>1
    <3> QED BY <3>1, <3>2, <3>3, <3>4
  <2> HIDE DEF K
  <2>7. \A i \in DOMAIN K : \/ i \in 1..Len(W) /\ K[i] = W[i]
                            \/ i = Len(W) + 1 /\ Len(F) = 1 /\ K[i] = n
                            \/ /\ i > Len(W) + Len(F) /\ i <= Len(W) + Len(F) + Len(Q)
                               /\ K[i] = n + (i - Len(W) - Len(F))
    <3> SUFFICES ASSUME NEW i \in DOMAIN K
                 PROVE  \/ i \in 1..Len(W) /\ K[i] = W[i]
                        \/ i = Len(W) + 1 /\ Len(F) = 1 /\ K[i] = n
                        \/ /\ i > Len(W) + Len(F) /\ i <= Len(W) + Len(F) + Len(Q)
                           /\ K[i] = n + (i - Len(W) - Len(F))
      OBVIOUS
    <3>1. Len(F) \in Nat /\ Len(Q) \in Nat /\ i \in Nat /\ i >= 1 /\ i <= Len(W) + Len(F) + Len(Q)
      BY <2>6, <2>60
    <3>2. CASE i <= Len(W)
      BY <2>5, <2>6, <3>1, <3>2
    <3>3. CASE i > Len(W) /\ i <= Len(W) + Len(F)
      <4>1. Len(F) = 1 /\ i = Len(W) + 1 /\ 1 \in 1..Len(F)
        BY <2>2, <2>5, <3>1, <3>3
      <4> QED BY <2>2, <2>6, <4>1
    <3>4. CASE i > Len(W) + Len(F)
      <4>1. i - Len(W) - Len(F) \in 1..Len(Q) /\ Len(W) + Len(F) + (i - Len(W) - Len(F)) = i
        BY <2>5, <3>1, <3>4
      <4>2. K[i] = Q[i - Len(W) - Len(F)] /\ Q[i - Len(W) - Len(F)] = n + (i - Len(W) - Len(F))
        BY <2>4, <2>6, <4>1
      <4> QED BY <3>1, <3>4, <4>2
    <3> QED BY <2>5, <3>1, <3>2, <3>3, <3>4
  <2>8. \A i, j \in DOMAIN K : i < j => K[i] < K[j]
    <3> SUFFICES ASSUME NEW i \in DOMAIN K, NEW j \in DOMAIN K, i < j
                 PROVE  K[i] < K[j]
      OBVIOUS
    <3>1. i \in Nat /\ j \in Nat /\ Len(F) \in {0, 1}
      BY <2>6, <2>60
    <3>2. CASE j \in 1..Len(W)
      <4>1. i \in 1..Len(W)
        BY <2>5, <2>6, <3>1, <3>2
      <4> QED BY <2>5, <2>6, <3>2, <4>1
    <3>3. CASE j = Len(W) + 1 /\ Len(F) = 1 /\ K[j] = n
      <4>1. i \in 1..Len(W) /\ K[i] = W[i] /\ W[i] \in 1..m
        BY <2>5, <2>6, <3>1, <3>3
      <4> QED BY <2>1, <2>2, <2>3, <3>3, <4>1
    <3>4. CASE j > Len(W) + Len(F) /\ K[j] = n + (j - Len(W) - Len(F))
      <4>1. K[j] \in Nat /\ K[j] > n
        BY <2>1, <2>5, <3>1, <3>4
      <4>2. CASE i \in 1..Len(W) /\ K[i] = W[i]
        <5>1. K[i] \in 1..m
          BY <2>5, <4>2
        <5> QED BY <2>1, <2>3, <4>1, <5>1
      <4>3. CASE K[i] = n
        BY <2>1, <4>1, <4>3
      <4>4. CASE i > Len(W) + Len(F) /\ K[i] = n + (i - Len(W) - Len(F))
        BY <2>1, <2>5, <3>1, <3>4, <4>4
      <4> QED BY <2>7, <4>2, <4>3, <4>4
    <3> QED BY <2>7, <3>2, <3>3, <3>4
  <2>9. Out!ToSet(K) = Out!ToSet(said.taken) \ Out!ToSet(said.lost)
    <3>1. ASSUME NEW x, x \in Out!ToSet(K)
          PROVE  x \in Out!ToSet(said.taken) \ Out!ToSet(said.lost)
      <4>1. PICK i \in DOMAIN K : x = K[i]
        BY <3>1 DEF Out!ToSet
      <4>2. x \in 1..T /\ \A l \in DOMAIN said.lost : said.lost[l] # x
        <5>1. CASE i \in 1..Len(W) /\ K[i] = W[i]
          <6>1. x \in 1..m /\ m <= T
            BY <2>1, <2>3, <2>5, <4>1, <5>1
          <6> QED BY <2>1, <2>3, <2>5, <4>1, <5>1, <6>1
        <5>2. CASE Len(F) = 1 /\ K[i] = n
          <6>1. 1 \in 1..Len(F) /\ m = n - 1
            BY <2>2, <2>3, <5>2
          <6>2. n \in 1..OutCalls
            BY <2>2, <5>2, <6>1
          <6> QED BY <1>1, <2>1, <2>3, <2>5, <4>1, <5>2, <6>1, <6>2
        <5>3. CASE /\ i > Len(W) + Len(F) /\ i <= Len(W) + Len(F) + Len(Q)
                   /\ K[i] = n + (i - Len(W) - Len(F))
          <6>1. i \in Nat
            BY <2>6, <2>60
          <6>2. x \in Nat /\ x > n /\ x <= T
            BY <2>60, <4>1, <5>3, <6>1
          <6> QED BY <2>1, <2>3, <2>5, <6>2
        <5> QED BY <2>7, <5>1, <5>2, <5>3
      <4>3. x \in DOMAIN said.taken /\ said.taken[x] = x
        BY <2>1, <4>2
      <4> QED BY <4>2, <4>3 DEF Out!ToSet
    <3>2. ASSUME NEW x, x \in Out!ToSet(said.taken) \ Out!ToSet(said.lost)
          PROVE  x \in Out!ToSet(K)
      <4>1. x \in 1..T /\ \A l \in DOMAIN said.lost : said.lost[l] # x
        BY <2>1, <3>2 DEF Out!ToSet
      <4>2. \E i \in DOMAIN K : K[i] = x
        <5>1. CASE x <= m
          <6>1. x \in 1..m
            BY <2>1, <2>3, <4>1, <5>1
          <6>2. PICK i \in 1..Len(W) : W[i] = x
            BY <2>5, <4>1, <6>1
          <6>3. i \in DOMAIN K
            BY <2>6, <2>60
          <6> QED BY <2>6, <6>2, <6>3
        <5>2. CASE x > m /\ x <= n
          <6>1. Len(flight) = 1 /\ x = n
            BY <2>1, <2>2, <2>3, <4>1, <5>2
          <6>2. Len(F) = 1 /\ 1 \in 1..Len(F) /\ F[1] = n
            BY <2>2, <6>1
          <6>3. Len(W) + 1 \in DOMAIN K /\ K[Len(W) + 1] = n
            BY <2>6, <2>60, <6>2
          <6> QED BY <6>1, <6>3
        <5>3. CASE x > n
          <6>1. x - n \in 1..Len(Q) /\ Q[x - n] = x
            <7>1. \A y, l, e \in Nat : y > l /\ y <= l + e => y - l \in 1..e /\ l + (y - l) = y
              OBVIOUS
            <7>2. x \in Nat /\ x <= n + Len(Q)
              BY <2>60, <4>1
            <7>3. x - n \in 1..Len(Q) /\ n + (x - n) = x
              BY <2>60, <5>3, <7>1, <7>2
            <7>4. \A i \in 1..Len(Q) : Q[i] = n + i
              BY <2>4
            <7> QED BY <7>3, <7>4
          <6>2. Len(W) + Len(F) + (x - n) \in DOMAIN K
            BY <2>6, <2>60, <6>1
          <6> QED BY <2>6, <6>1, <6>2
        <5> QED BY <2>1, <2>3, <4>1, <5>1, <5>2, <5>3
      <4> QED BY <4>2 DEF Out!ToSet
    <3> QED BY <3>1, <3>2
  <2> QED BY <2>8, <2>9 DEF Out!OutputInOrder, K, W, F, Q
<1> QED BY <1>4, <1>5, <1>6, <1>7

\* stdout and stderr write every chunk in order, hold the loop while they do and no
\* longer, and finish when all is written, if no callback of a write ends or uncorks
\* the stream (schedule_next_std_write, on_std_write_complete).
THEOREM OutputIsWhole ==
  Careless = {} =>
    (MCSpec => [](Out!TypeOK /\ Out!OutputInOrder /\ Out!OutputHoldsLoop /\ Out!FinishIsLast))
<1> SUFFICES ASSUME Careless = {}
             PROVE  MCSpec => [](Out!TypeOK /\ Out!OutputInOrder /\ Out!OutputHoldsLoop /\ Out!FinishIsLast)
  OBVIOUS
<1>1. StdConstants
  BY PartsAssumption DEF StdConstants
<1>2. MCInit => StdInv
  BY <1>1, OutputBegins DEF MCInit
<1>3. StdInv /\ [MCNext]_allvars => StdInv'
  <2> SUFFICES ASSUME StdInv, [MCNext]_allvars
               PROVE  StdInv'
    OBVIOUS
  <2>1. CASE Out!Next
    BY <1>1, <2>1, OutputGoes
  <2>2. CASE UNCHANGED outvars
    BY <2>2 DEF outvars, StdInv
  <2> QED BY <2>1, <2>2 DEF MCNext, InFiles, InDuplex, InStdin, InStdout, allvars
<1>4. StdInv => Out!TypeOK /\ Out!OutputInOrder /\ Out!OutputHoldsLoop /\ Out!FinishIsLast
  BY <1>1, OutputIsRight
<1> QED BY <1>2, <1>3, <1>4, PTL DEF MCSpec

==============================================================================
