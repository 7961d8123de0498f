----------------------------- MODULE HttpProofs -----------------------------
\* Proofs about the HTTP server and the HTTP client, as components of the program
\* that MCLibrary describes: what they send and what their listeners hear is
\* whole and in its order, for any bounds.
EXTENDS MCLibrary, SequenceTheorems, TLAPS

-----------------------------------------------------------------------------
\* The response of the server.
Outs == [kind : {"head", "chunk", "final", "last", "file"}, n : Nat]
Responses ==
  [tcp : {"none", "open", "broken", "shutting", "closed", "gone"},
   head : {"none", "length", "chunked"}, length : BOOLEAN, finished : BOOLEAN,
   pending : Nat, queue : Seq(Nat), blocked : BOOLEAN, closing : BOOLEAN,
   file : BOOLEAN, callback : BOOLEAN, left : Nat, out : Seq(Outs), wire : Seq(Outs)]

\* Of the g chunks that a response s has taken over, those that do not wait.
Passed(s, g) == g - Len(s.queue)

\* The last of the chunks wait, in their order, and for a reason; nothing comes
\* before the head.
InLine(s, g) ==
  /\ Len(s.queue) <= g /\ \A i \in DOMAIN s.queue : s.queue[i] = Passed(s, g) + i
  /\ s.pending <= MaxPending
  /\ s.queue # <<>> => s.finished \/ s.pending = MaxPending
  /\ s.tcp = "none" => s.head = "none"
  /\ s.head = "length" => s.length
  /\ s.head = "none" =>
       /\ g = 0 /\ s.pending = 0 /\ s.queue = <<>> /\ s.wire = <<>> /\ s.out = <<>>
       /\ ~s.finished /\ ~s.file

\* The chunks that uv has are the last of those that do not wait, in their order,
\* and all of them as long as the connection is open.
OnTheWay(s, g) ==
  /\ \A i \in DOMAIN s.out : s.out[i].kind = "chunk" =>
       Passed(s, g) - s.pending < s.out[i].n /\ s.out[i].n <= Passed(s, g)
  /\ \A i, j \in DOMAIN s.out :
       s.out[i].kind = "chunk" /\ s.out[j].kind = "chunk" /\ i < j => s.out[i].n < s.out[j].n
  /\ s.tcp = "open" => \A n \in (Passed(s, g) - s.pending + 1)..Passed(s, g) :
       \E i \in DOMAIN s.out : s.out[i].kind = "chunk" /\ s.out[i].n = n

\* What was handed to uv: the head, the chunks, the file, the last frame.
AChunk(s, i) == s.wire[i].kind \in {"chunk", "final"}
AllPassed(s, g) ==
  /\ Len(s.wire) >= Passed(s, g) + 1 /\ \A i \in 2..(Passed(s, g) + 1) : AChunk(s, i)
Begun(s, g) ==
  /\ \A i \in DOMAIN s.wire : s.wire[i].kind = "head" <=> i = 1
  /\ \A i \in DOMAIN s.wire : AChunk(s, i) => s.wire[i].n = i - 1 /\ i - 1 <= Passed(s, g)
  /\ s.tcp = "open" /\ s.head # "none" => AllPassed(s, g)
  /\ s.tcp = "open" /\ s.head # "none" /\ ~s.finished /\ ~s.file => Len(s.wire) = Passed(s, g) + 1
  /\ \A i \in DOMAIN s.wire : s.wire[i].kind = "last" =>
       /\ i = Len(s.wire) /\ s.finished /\ s.queue = <<>> /\ AllPassed(s, g)
       /\ s.tcp = "open" => s.pending = 0
Ended(s) ==
  s.tcp = "open" /\ s.finished /\ s.queue = <<>> /\ s.pending = 0 /\ s.head = "chunked" =>
    s.wire # <<>> /\ s.wire[Len(s.wire)].kind = "last"
Laid(s, g) == Begun(s, g) /\ Ended(s)
FileLaid(s) ==
  /\ \A i \in DOMAIN s.out : s.out[i].kind = "file" => s.file
  /\ \A i, j \in DOMAIN s.out : s.out[i].kind = "file" /\ s.out[j].kind = "file" => i = j
  /\ s.file => ~s.finished /\ s.head = "chunked" /\ s.queue = <<>>
  /\ s.callback => s.file

Right(s, g, slips) ==
  /\ s \in Responses /\ InLine(s, g) /\ OnTheWay(s, g)
  /\ "file" \notin slips => Laid(s, g) /\ FileLaid(s)
  /\ slips \cap {"file", "cut"} = {} => (s.finished => s.queue = <<>>)

\* The fields that handing something to uv leaves alone.
Alike(s, t) ==
  /\ t.tcp = s.tcp /\ t.pending = s.pending /\ t.queue = s.queue /\ t.finished = s.finished
  /\ t.file = s.file /\ t.callback = s.callback
\* q with x behind it, and q without its first.
Longer(q, x, r) ==
  /\ Len(r) = Len(q) + 1 /\ r[Len(q) + 1] = x /\ DOMAIN r = 1..(Len(q) + 1)
  /\ \A i \in DOMAIN q : r[i] = q[i]
Shorter(q, r) ==
  /\ Len(q) = Len(r) + 1 /\ DOMAIN r = 1..(Len(q) - 1) /\ \A i \in DOMAIN r : r[i] = q[i + 1]

HttpConstants == Srv!HttpAssumption /\ Cli!ClientAssumption

\* A sequence and what appending to it, or taking its first, makes of it.
LEMMA AppendIsLonger ==
  ASSUME NEW S, NEW q \in Seq(S), NEW x \in S
  PROVE  Append(q, x) \in Seq(S) /\ Longer(q, x, Append(q, x))
BY DEF Longer

LEMMA TailIsShorter ==
  ASSUME NEW S, NEW q \in Seq(S), q # <<>>
  PROVE  Tail(q) \in Seq(S) /\ Shorter(q, Tail(q)) /\ Head(q) = q[1] /\ 1 \in DOMAIN q /\ q[1] \in S
BY DEF Shorter

\* put: uv is handed x while the connection is open; nothing else changes.
LEMMA PutIs ==
  ASSUME NEW s \in Responses, NEW x \in Outs
  PROVE  /\ Srv!Put(s, x) \in Responses /\ Alike(s, Srv!Put(s, x))
         /\ Srv!Put(s, x).head = s.head /\ Srv!Put(s, x).length = s.length
         /\ Srv!Put(s, x).closing = s.closing
         /\ s.tcp # "open" => Srv!Put(s, x) = s
         /\ s.tcp = "open" => /\ Longer(s.out, x, Srv!Put(s, x).out)
                              /\ Longer(s.wire, x, Srv!Put(s, x).wire)
<1>1. s.out \in Seq(Outs) /\ s.wire \in Seq(Outs)
  BY DEF Responses
<1>2. /\ Append(s.out, x) \in Seq(Outs) /\ Longer(s.out, x, Append(s.out, x))
      /\ Append(s.wire, x) \in Seq(Outs) /\ Longer(s.wire, x, Append(s.wire, x))
  BY <1>1, AppendIsLonger
<1> DEFINE a == Append(s.out, x)
           b == Append(s.wire, x)
<1>3. Srv!Put(s, x) = IF s.tcp = "open" THEN [s EXCEPT !.out = a, !.wire = b] ELSE s
  BY DEF Srv!Put
<1> HIDE DEF a, b
<1>4. a \in Seq(Outs) /\ b \in Seq(Outs)
  BY <1>2 DEF a, b
<1> QED BY <1>2, <1>3, <1>4 DEF Alike, Responses, a, b

\* What is handed to uv is a part of a response.
LEMMA ItemIs ==
  /\ \A n \in Nat : \A k \in {"head", "chunk", "final", "last", "file"} :
       Srv!Item(k, n) \in Outs /\ Srv!Item(k, n).kind = k /\ Srv!Item(k, n).n = n
BY DEF Outs, Srv!Item

\* The head goes to uv if it has not gone.
LEMMA FlushIs ==
  ASSUME HttpConstants, NEW s \in Responses, NEW g \in Nat, NEW slips, Right(s, g, slips), s.tcp # "none"
  PROVE  /\ Right(Srv!Flush(s), g, slips) /\ Alike(s, Srv!Flush(s))
         /\ Srv!Flush(s).head # "none" /\ Srv!Flush(s).length = s.length
         /\ s.head # "none" => Srv!Flush(s).head = s.head
         /\ s.head = "none" => Srv!Flush(s).head = IF s.length THEN "length" ELSE "chunked"
<1>1. CASE s.head # "none"
  BY <1>1 DEF Srv!Flush, Alike
<1>2. CASE s.head = "none"
  <2> DEFINE r == [s EXCEPT !.head = IF s.length THEN "length" ELSE "chunked"]
             t == Srv!Put(r, Srv!Item("head", 0))
  <2>1. r \in Responses /\ Alike(s, r) /\ r.length = s.length /\ r.out = s.out /\ r.wire = s.wire
        /\ r.head = IF s.length THEN "length" ELSE "chunked"
    BY DEF Responses, Alike
  <2>2. Srv!Flush(s) = t
    BY <1>2 DEF Srv!Flush
  <2> HIDE DEF r
  <2>3. /\ t \in Responses /\ Alike(r, t) /\ t.head = r.head /\ t.length = r.length
        /\ r.tcp # "open" => t = r
        /\ r.tcp = "open" => /\ Longer(r.out, Srv!Item("head", 0), t.out)
                             /\ Longer(r.wire, Srv!Item("head", 0), t.wire)
    <3>1. Srv!Item("head", 0) \in Outs
      BY ItemIs
    <3> QED BY <2>1, <3>1, PutIs
  <2> HIDE DEF t
  <2>4. Alike(s, t) /\ t.length = s.length /\ t.head = IF s.length THEN "length" ELSE "chunked"
    BY <2>1, <2>3 DEF Alike
  <2>5. /\ g = 0 /\ s.pending = 0 /\ s.queue = <<>> /\ s.wire = <<>> /\ s.out = <<>>
        /\ ~s.finished /\ ~s.file
    BY <1>2 DEF Right, InLine
  <2>6. /\ s.tcp # "open" => t.out = <<>> /\ t.wire = <<>>
        /\ s.tcp = "open" => /\ DOMAIN t.out = {1} /\ t.out[1].kind = "head"
                             /\ DOMAIN t.wire = {1} /\ t.wire[1].kind = "head" /\ Len(t.wire) = 1
    BY <2>1, <2>3, <2>5, ItemIs DEF Longer, Alike
  <2>7. InLine(t, g) /\ OnTheWay(t, g)
    BY <2>3, <2>4, <2>5, <2>6 DEF Alike, InLine, OnTheWay, Passed, HttpConstants, Srv!HttpAssumption
  <2>8. "file" \notin slips => Laid(t, g) /\ FileLaid(t)
    BY <2>3, <2>4, <2>5, <2>6 DEF Alike, Laid, Begun, Ended, FileLaid, AllPassed, AChunk, Passed, Right
  <2>9. t.finished = FALSE
    BY <2>4, <2>5, <2>3 DEF Alike, Responses
  <2>10. Right(t, g, slips)
    BY <2>3, <2>7, <2>8, <2>9 DEF Right
  <2> QED BY <1>2, <2>2, <2>4, <2>10
<1> QED BY <1>1, <1>2

\* A connection that is no longer open asks for less.
LEMMA LeftIsRight ==
  ASSUME NEW s, NEW g \in Nat, NEW slips, Right(s, g, slips), s.tcp # "none",
         NEW p \in {s.tcp, "broken", "shutting", "closed", "gone"}, NEW c \in BOOLEAN
  PROVE  Right([s EXCEPT !.tcp = p, !.closing = c], g, slips)
<1> DEFINE t == [s EXCEPT !.tcp = p, !.closing = c]
<1>1. s \in Responses
  BY DEF Right
<1>2. /\ t \in Responses /\ t.tcp # "none" /\ (t.tcp = "open" => s.tcp = "open")
      /\ t.queue = s.queue /\ t.pending = s.pending /\ t.head = s.head /\ t.length = s.length
      /\ t.finished = s.finished /\ t.file = s.file /\ t.callback = s.callback
      /\ t.out = s.out /\ t.wire = s.wire
  BY <1>1 DEF Responses
<1> HIDE DEF t
<1>3. InLine(t, g) /\ OnTheWay(t, g)
  BY <1>2 DEF Right, InLine, OnTheWay, Passed
<1>4. ASSUME "file" \notin slips
      PROVE  Laid(t, g) /\ FileLaid(t)
  <2>1. Laid(s, g) /\ FileLaid(s)
    BY <1>4 DEF Right
  <2>2. /\ \A i : AChunk(t, i) = AChunk(s, i)
        /\ Passed(t, g) = Passed(s, g) /\ AllPassed(t, g) = AllPassed(s, g)
    BY <1>2 DEF AllPassed, AChunk, Passed
  <2>3. Laid(t, g)
    BY <1>2, <2>1, <2>2 DEF Laid, Begun, Ended
  <2> QED BY <1>2, <2>1, <2>3 DEF FileLaid
<1> QED BY <1>2, <1>3, <1>4 DEF Right, t

\* A close that waits until all is written leaves the response right.
LEMMA CloseIsRight ==
  ASSUME NEW s, NEW g \in Nat, NEW slips, Right(s, g, slips), s.tcp # "none"
  PROVE  /\ Right(Srv!CloseIfDrained(s), g, slips) /\ Srv!CloseIfDrained(s).tcp # "none"
         /\ Right(Srv!RequestClose(s), g, slips) /\ Srv!RequestClose(s).tcp # "none"
<1>1. ASSUME NEW r, Right(r, g, slips), r.tcp # "none"
      PROVE  Right(Srv!CloseIfDrained(r), g, slips) /\ Srv!CloseIfDrained(r).tcp # "none"
  <2>1. r \in Responses
    BY <1>1 DEF Right
  <2>2. r.closing \in BOOLEAN /\ [r EXCEPT !.tcp = "shutting"] = [r EXCEPT !.tcp = "shutting", !.closing = r.closing]
    BY <2>1 DEF Responses
  <2>3. Right([r EXCEPT !.tcp = "shutting"], g, slips)
    BY <1>1, <2>2, LeftIsRight
  <2>4. [r EXCEPT !.tcp = "shutting"].tcp = "shutting"
    BY <2>1 DEF Responses
  <2> QED BY <1>1, <2>3, <2>4 DEF Srv!CloseIfDrained, Srv!PerformClose
<1>2. s \in Responses
  BY DEF Right
<1>3. [s EXCEPT !.closing = TRUE] = [s EXCEPT !.tcp = s.tcp, !.closing = TRUE]
  BY <1>2 DEF Responses
<1>4. Right([s EXCEPT !.closing = TRUE], g, slips) /\ [s EXCEPT !.closing = TRUE].tcp # "none"
  BY <1>2, <1>3, LeftIsRight DEF Responses
<1> QED BY <1>1, <1>4 DEF Srv!RequestClose

\* A chunk that goes to uv is the next one.
LEMMA ChunkIsPut ==
  ASSUME HttpConstants, NEW s, NEW g \in Nat, NEW slips, Right(s, g, slips), s.tcp # "none",
         s.head # "none", s.queue = <<>>, s.pending < MaxPending, ~s.finished,
         "file" \notin slips => ~s.file
  PROVE  Right(Srv!Put([s EXCEPT !.pending = @ + 1], Srv!Item("chunk", g + 1)), g + 1, slips)
<1> DEFINE r == [s EXCEPT !.pending = @ + 1]
           x == Srv!Item("chunk", g + 1)
           t == Srv!Put(r, x)
<1>1. s \in Responses /\ MaxPending \in Nat /\ s.pending \in Nat /\ s.pending + 1 \in Nat
  BY DEF Right, Responses, HttpConstants, Srv!HttpAssumption
<1>2. /\ r \in Responses /\ r.pending = s.pending + 1 /\ r.tcp = s.tcp /\ r.queue = s.queue
      /\ r.head = s.head /\ r.length = s.length /\ r.finished = s.finished /\ r.file = s.file
      /\ r.callback = s.callback /\ r.out = s.out /\ r.wire = s.wire
  BY <1>1 DEF Responses
<1>3. x \in Outs /\ x.kind = "chunk" /\ x.n = g + 1
  BY ItemIs
<1> HIDE DEF r, x
<1>4. /\ t \in Responses /\ Alike(r, t) /\ t.head = r.head /\ t.length = r.length
      /\ r.tcp # "open" => t = r
      /\ r.tcp = "open" => Longer(r.out, x, t.out) /\ Longer(r.wire, x, t.wire)
  BY <1>2, <1>3, PutIs
<1> HIDE DEF t
<1>5. /\ t.tcp = s.tcp /\ t.pending = s.pending + 1 /\ t.queue = <<>> /\ t.head = s.head
      /\ t.length = s.length /\ ~t.finished /\ t.file = s.file /\ t.callback = s.callback
      /\ s.tcp # "open" => t.out = s.out /\ t.wire = s.wire
      /\ s.tcp = "open" => Longer(s.out, x, t.out) /\ Longer(s.wire, x, t.wire)
  BY <1>2, <1>4 DEF Alike
<1>6. Passed(s, g) = g /\ Passed(t, g + 1) = g + 1
  BY <1>5 DEF Passed
<1>7. InLine(t, g + 1)
  BY <1>1, <1>5, <1>6 DEF InLine, Right
<1>8. OnTheWay(t, g + 1)
  <2>1. s.out \in Seq(Outs) /\ OnTheWay(s, g)
    BY <1>1 DEF Responses, Right
  <2>2. /\ \A i \in DOMAIN s.out : s.out[i].n \in Nat
        /\ \A i \in DOMAIN s.out : i \in Nat /\ i <= Len(s.out)
    <3>1. \A i \in DOMAIN s.out : s.out[i] \in Outs
      BY <2>1
    <3>2. \A y \in Outs : y.n \in Nat
      BY DEF Outs
    <3>3. DOMAIN s.out = 1..Len(s.out) /\ Len(s.out) \in Nat
      BY <2>1
    <3> QED BY <3>1, <3>2, <3>3
  <2>3. CASE s.tcp # "open"
    <3>1. t.out = s.out /\ t.tcp # "open"
      BY <1>5, <2>3
    <3>2. \A i \in DOMAIN s.out : s.out[i].kind = "chunk" => g - s.pending < s.out[i].n /\ s.out[i].n <= g
      BY <1>6, <2>1 DEF OnTheWay
    <3>3. \A i \in DOMAIN t.out : t.out[i].kind = "chunk" =>
             g + 1 - (s.pending + 1) < t.out[i].n /\ t.out[i].n <= g + 1
      BY <1>1, <2>2, <3>1, <3>2
    <3>4. \A i, j \in DOMAIN t.out :
             t.out[i].kind = "chunk" /\ t.out[j].kind = "chunk" /\ i < j => t.out[i].n < t.out[j].n
      BY <2>1, <3>1 DEF OnTheWay
    <3>5. Passed(t, g + 1) - t.pending = g + 1 - (s.pending + 1) /\ Passed(t, g + 1) = g + 1
      BY <1>1, <1>5, <1>6
    <3> QED BY <3>1, <3>3, <3>4, <3>5 DEF OnTheWay
  <2>4. CASE s.tcp = "open"
    <3>1. /\ \A i \in DOMAIN t.out : (i \in DOMAIN s.out /\ t.out[i] = s.out[i]) \/ (i = Len(s.out) + 1 /\ t.out[i] = x)
          /\ \A i \in DOMAIN s.out : i \in DOMAIN t.out /\ t.out[i] = s.out[i]
          /\ Len(s.out) + 1 \in DOMAIN t.out /\ t.out[Len(s.out) + 1] = x
      BY <1>5, <2>1, <2>4 DEF Longer
    <3>2. \A i \in DOMAIN t.out : t.out[i].kind = "chunk" => g - s.pending < t.out[i].n /\ t.out[i].n <= g + 1
      BY <1>1, <1>3, <1>6, <2>1, <2>2, <3>1 DEF OnTheWay
    <3>3. \A i, j \in DOMAIN t.out :
             t.out[i].kind = "chunk" /\ t.out[j].kind = "chunk" /\ i < j => t.out[i].n < t.out[j].n
      BY <1>1, <1>3, <1>6, <2>1, <2>2, <3>1 DEF OnTheWay
    <3>4. \A n \in (g - s.pending + 1)..(g + 1) : \E i \in DOMAIN t.out : t.out[i].kind = "chunk" /\ t.out[i].n = n
      <4>1. \A n \in (g - s.pending + 1)..g : \E i \in DOMAIN s.out : s.out[i].kind = "chunk" /\ s.out[i].n = n
        BY <1>6, <2>1, <2>4 DEF OnTheWay
      <4>2. \A n \in (g - s.pending + 1)..(g + 1) : n \in (g - s.pending + 1)..g \/ n = g + 1
        BY <1>1
      <4>3. \A n \in (g - s.pending + 1)..g : \E i \in DOMAIN t.out : t.out[i].kind = "chunk" /\ t.out[i].n = n
        BY <3>1, <4>1
      <4>4. \E i \in DOMAIN t.out : t.out[i].kind = "chunk" /\ t.out[i].n = g + 1
        BY <1>3, <3>1
      <4> QED BY <4>2, <4>3, <4>4
    <3> QED BY <1>1, <1>5, <1>6, <3>2, <3>3, <3>4 DEF OnTheWay
  <2> QED BY <2>3, <2>4
<1>9. ASSUME "file" \notin slips
      PROVE  Laid(t, g + 1) /\ FileLaid(t)
  <2>1. /\ s.wire \in Seq(Outs) /\ s.out \in Seq(Outs) /\ Laid(s, g) /\ FileLaid(s) /\ ~s.file
    BY <1>1, <1>9 DEF Responses, Right
  <2>2. CASE s.tcp # "open"
    BY <1>1, <1>5, <1>6, <2>1, <2>2 DEF Laid, Begun, Ended, FileLaid, AllPassed, AChunk
  <2>3. CASE s.tcp = "open"
    <3>1. Len(s.wire) = g + 1 /\ Len(t.wire) = g + 2 /\ DOMAIN t.wire = 1..(g + 2) /\ t.wire[g + 2] = x
          /\ \A i \in 1..(g + 1) : t.wire[i] = s.wire[i]
      BY <1>5, <1>6, <2>1, <2>3 DEF Laid, Begun, Ended, Longer
    <3>2. \A i \in DOMAIN s.wire : s.wire[i].kind # "last"
      BY <2>1 DEF Laid, Begun, Ended
    <3>3. \A i \in 2..(g + 1) : AChunk(s, i)
      BY <1>6, <2>1, <2>3 DEF Laid, Begun, Ended, AllPassed
    <3>4. AllPassed(t, g + 1)
      <4>1. \A i \in 2..(g + 2) : t.wire[i].kind \in {"chunk", "final"}
        BY <1>3, <3>1, <3>3 DEF AChunk
      <4> QED BY <1>6, <3>1, <4>1 DEF AllPassed, AChunk
    <3>5. /\ \A i \in DOMAIN t.wire : t.wire[i].kind = "head" <=> i = 1
          /\ \A i \in DOMAIN t.wire : AChunk(t, i) => t.wire[i].n = i - 1 /\ i - 1 <= g + 1
          /\ \A i \in DOMAIN t.wire : t.wire[i].kind # "last"
      <4>1. \A i \in DOMAIN s.wire :
              /\ s.wire[i].kind = "head" <=> i = 1
              /\ s.wire[i].kind \in {"chunk", "final"} => s.wire[i].n = i - 1 /\ i - 1 <= g
        BY <1>6, <2>1 DEF Laid, Begun, Ended, AChunk
      <4>2. DOMAIN s.wire = 1..(g + 1)
        BY <2>1, <3>1
      <4>3. \A i \in DOMAIN t.wire :
              (i \in DOMAIN s.wire /\ t.wire[i] = s.wire[i]) \/ (i = g + 2 /\ t.wire[i] = x)
        BY <3>1, <4>2
      <4>4. ASSUME NEW i \in DOMAIN t.wire
            PROVE  /\ t.wire[i].kind = "head" <=> i = 1
                   /\ t.wire[i].kind \in {"chunk", "final"} => t.wire[i].n = i - 1 /\ i - 1 <= g + 1
                   /\ t.wire[i].kind # "last"
        <5>1. CASE i \in DOMAIN s.wire /\ t.wire[i] = s.wire[i]
          BY <3>2, <4>1, <4>2, <5>1
        <5>2. CASE i = g + 2 /\ t.wire[i] = x
          BY <1>3, <5>2
        <5> QED BY <4>3, <5>1, <5>2
      <4> QED BY <4>4 DEF AChunk
    <3>6. Laid(t, g + 1)
      BY <1>5, <1>6, <3>1, <3>4, <3>5 DEF Laid, Begun, Ended
    <3>7. FileLaid(t)
      <4>1. \A i \in DOMAIN s.out : s.out[i].kind # "file"
        BY <2>1 DEF FileLaid
      <4>2. \A i \in DOMAIN t.out : (i \in DOMAIN s.out /\ t.out[i] = s.out[i]) \/ t.out[i] = x
        BY <1>5, <2>1, <2>3 DEF Longer
      <4>3. \A i \in DOMAIN t.out : t.out[i].kind # "file"
        BY <1>3, <4>1, <4>2
      <4> QED BY <1>5, <2>1, <4>3 DEF FileLaid
    <3> QED BY <3>6, <3>7
  <2> QED BY <2>2, <2>3
<1> QED BY <1>4, <1>5, <1>7, <1>8, <1>9 DEF Right, t, r, x

\* write(chunk): it goes to uv or waits.
LEMMA WriteIsRight ==
  ASSUME HttpConstants, NEW s, NEW g \in Nat, NEW slips, Right(s, g, slips), s.tcp # "none",
         ~Srv!Refuses(s)
  PROVE  Right(Srv!WriteChunk(s, g + 1), g + 1, slips) /\ Srv!WriteChunk(s, g + 1).tcp = s.tcp
<1>1. /\ s \in Responses /\ MaxPending \in Nat \ {0} /\ s.pending \in Nat /\ s.pending <= MaxPending
      /\ ~s.finished /\ ~s.file /\ s.queue \in Seq(Nat)
  BY DEF Right, InLine, Responses, HttpConstants, Srv!HttpAssumption, Srv!Refuses
<1>2. CASE s.pending >= MaxPending
  <2> DEFINE q == Append(s.queue, g + 1)
             t == [s EXCEPT !.queue = q, !.blocked = TRUE]
  <2>1. Srv!WriteChunk(s, g + 1) = t
    BY <1>2 DEF Srv!WriteChunk
  <2>2. q \in Seq(Nat) /\ Longer(s.queue, g + 1, q)
    BY <1>1, AppendIsLonger
  <2> HIDE DEF q
  <2>3. /\ t \in Responses /\ t.queue = q /\ t.tcp = s.tcp /\ t.pending = s.pending
        /\ t.head = s.head /\ t.length = s.length /\ t.finished = s.finished /\ t.file = s.file
        /\ t.callback = s.callback /\ t.out = s.out /\ t.wire = s.wire
    BY <1>1, <2>2 DEF Responses
  <2> HIDE DEF t
  <2>4. Len(q) = Len(s.queue) + 1 /\ Len(s.queue) \in Nat /\ q # <<>>
    BY <1>1, <2>2 DEF Longer
  <2>5. Passed(t, g + 1) = Passed(s, g)
    BY <2>3, <2>4 DEF Passed
  <2>6. InLine(s, g) /\ OnTheWay(s, g) /\ s.head # "none" /\ s.pending = MaxPending
    BY <1>1, <1>2 DEF Right, InLine
  <2>7. InLine(t, g + 1)
    <3>1. \A i \in DOMAIN q : q[i] = Passed(s, g) + i
      <4>1. /\ \A i \in DOMAIN s.queue : s.queue[i] = Passed(s, g) + i
            /\ DOMAIN s.queue = 1..Len(s.queue) /\ Passed(s, g) = g - Len(s.queue)
        BY <1>1, <2>6 DEF InLine, Passed
      <4>2. /\ DOMAIN q = 1..(Len(s.queue) + 1) /\ q[Len(s.queue) + 1] = g + 1
            /\ \A i \in 1..Len(s.queue) : q[i] = s.queue[i]
        BY <2>2, <4>1 DEF Longer
      <4>3. \A i \in DOMAIN q : i \in 1..Len(s.queue) \/ i = Len(s.queue) + 1
        BY <2>4, <4>2
      <4>4. q[Len(s.queue) + 1] = Passed(s, g) + (Len(s.queue) + 1)
        <5>0. \A l \in Nat : g + 1 = (g - l) + (l + 1)
          OBVIOUS
        <5>1. g + 1 = (g - Len(s.queue)) + (Len(s.queue) + 1)
          BY <2>4, <5>0
        <5>2. Passed(s, g) = g - Len(s.queue) /\ q[Len(s.queue) + 1] = g + 1
          BY <4>1, <4>2
        <5> QED BY <5>1, <5>2
      <4>5. \A i \in 1..Len(s.queue) : q[i] = Passed(s, g) + i
        BY <4>1, <4>2
      <4> QED BY <4>3, <4>4, <4>5
    <3> QED BY <1>1, <2>3, <2>4, <2>5, <2>6, <3>1 DEF InLine
  <2>8. OnTheWay(t, g + 1)
    BY <2>3, <2>5, <2>6 DEF OnTheWay
  <2>9. ASSUME "file" \notin slips
        PROVE  Laid(t, g + 1) /\ FileLaid(t)
    <3>1. Laid(s, g) /\ FileLaid(s)
      BY <2>9 DEF Right
    <3>2. (\A i : AChunk(t, i) = AChunk(s, i)) /\ AllPassed(t, g + 1) = AllPassed(s, g)
      BY <2>3, <2>5 DEF AllPassed, AChunk
    <3>3. Laid(t, g + 1)
      BY <1>1, <2>3, <2>5, <3>1, <3>2 DEF Laid, Begun, Ended
    <3> QED BY <1>1, <2>3, <3>1, <3>3 DEF FileLaid
  <2> QED BY <1>1, <2>1, <2>3, <2>7, <2>8, <2>9 DEF Right
<1>3. CASE ~(s.pending >= MaxPending)
  <2> DEFINE u == Srv!Flush(s)
  <2>1. Right(u, g, slips) /\ Alike(s, u) /\ u.head # "none"
    BY <1>1, FlushIs
  <2>2. s.queue = <<>>
    BY <1>1, <1>3 DEF Right, InLine
  <2>3. Srv!WriteChunk(s, g + 1) = Srv!Put([u EXCEPT !.pending = @ + 1], Srv!Item("chunk", g + 1))
    BY <1>3 DEF Srv!WriteChunk
  <2> HIDE DEF u
  <2>4. Right(Srv!WriteChunk(s, g + 1), g + 1, slips)
    BY <1>1, <1>3, <2>1, <2>2, <2>3, ChunkIsPut DEF Alike
  <2>5. Srv!WriteChunk(s, g + 1).tcp = s.tcp
    <3>1. u \in Responses /\ [u EXCEPT !.pending = @ + 1] \in Responses
          /\ [u EXCEPT !.pending = @ + 1].tcp = u.tcp
      <4>1. u \in Responses
        BY <2>1 DEF Right
      <4>2. u.pending + 1 \in Nat
        BY <4>1 DEF Responses
      <4> QED BY <4>1, <4>2 DEF Responses
    <3>2. Srv!Item("chunk", g + 1) \in Outs
      BY ItemIs
    <3> QED BY <2>1, <2>3, <3>1, <3>2, PutIs DEF Alike
  <2> QED BY <2>4, <2>5
<1> QED BY <1>2, <1>3

\* What end() puts after a response that has nothing on the way: a chunk (m = 1)
\* or none (m = 0), and the last frame of a chunked one.
LEMMA TailIsPut ==
  ASSUME HttpConstants, NEW u, NEW g \in Nat, NEW slips, Right(u, g, slips), u.tcp # "none",
         u.head # "none", ~Srv!Refuses(u), u.queue = <<>>, u.pending = 0, NEW n \in {0, g + 1}
  PROVE  LET w == Srv!LastFrame(Srv!Final([u EXCEPT !.finished = TRUE], n)) IN
         Right(w, IF n = 0 THEN g ELSE g + 1, slips) /\ w.tcp = u.tcp
<1> DEFINE r == [u EXCEPT !.finished = TRUE]
           v == Srv!Final(r, n)
           w == Srv!LastFrame(v)
           G == IF n = 0 THEN g ELSE g + 1
           x == Srv!Item("final", n)
           y == Srv!Item("last", 0)
<1>1. /\ u \in Responses /\ ~u.finished /\ ~u.file /\ MaxPending \in Nat
      /\ InLine(u, g) /\ OnTheWay(u, g) /\ n \in Nat
  BY DEF Right, Srv!Refuses, HttpConstants, Srv!HttpAssumption
<1>2. /\ r \in Responses /\ r.finished /\ r.tcp = u.tcp /\ r.pending = 0 /\ r.queue = <<>>
      /\ r.head = u.head /\ r.length = u.length /\ ~r.file /\ r.callback = u.callback
      /\ r.out = u.out /\ r.wire = u.wire
  BY <1>1 DEF Responses
<1>3. /\ x \in Outs /\ x.kind = "final" /\ x.n = n /\ y \in Outs /\ y.kind = "last"
  BY <1>1, ItemIs
<1>4. v = (IF n = 0 THEN r ELSE Srv!Put(r, x)) /\ w = (IF v.head = "chunked" THEN Srv!Put(v, y) ELSE v)
  BY DEF Srv!Final, Srv!LastFrame
<1> HIDE DEF r, x, y, v, w
<1>5. /\ v \in Responses /\ Alike(r, v) /\ v.head = r.head /\ v.length = r.length
      /\ n = 0 \/ r.tcp # "open" => v = r
      /\ n # 0 /\ r.tcp = "open" => Longer(r.out, x, v.out) /\ Longer(r.wire, x, v.wire)
  BY <1>2, <1>3, <1>4, PutIs DEF Alike
<1>6. /\ w \in Responses /\ Alike(v, w) /\ w.head = v.head /\ w.length = v.length
      /\ v.head # "chunked" \/ v.tcp # "open" => w = v
      /\ v.head = "chunked" /\ v.tcp = "open" => Longer(v.out, y, w.out) /\ Longer(v.wire, y, w.wire)
  BY <1>3, <1>4, <1>5, PutIs DEF Alike
<1>7. /\ w.tcp = u.tcp /\ w.pending = 0 /\ w.queue = <<>> /\ w.head = u.head /\ w.length = u.length
      /\ w.finished /\ ~w.file /\ w.callback = u.callback /\ v.tcp = u.tcp /\ v.head = u.head
  BY <1>2, <1>5, <1>6 DEF Alike
<1>8. /\ Passed(u, g) = g /\ Passed(w, G) = G /\ G \in Nat
      /\ (n = 0 /\ G = g) \/ (n = g + 1 /\ n # 0 /\ G = g + 1)
  BY <1>7 DEF Passed
<1> HIDE DEF G
<1>9. InLine(w, G)
  BY <1>1, <1>7, <1>8 DEF InLine
<1>10. /\ u.out \in Seq(Outs) /\ u.wire \in Seq(Outs) /\ v.out \in Seq(Outs) /\ v.wire \in Seq(Outs)
       /\ w.out \in Seq(Outs) /\ w.wire \in Seq(Outs)
  BY <1>1, <1>5, <1>6 DEF Responses
<1>11. \A i \in DOMAIN w.out : (i \in DOMAIN u.out /\ w.out[i] = u.out[i]) \/ w.out[i] = x \/ w.out[i] = y
  <2>1. \A i \in DOMAIN v.out : (i \in DOMAIN u.out /\ v.out[i] = u.out[i]) \/ v.out[i] = x
    BY <1>2, <1>5, <1>10 DEF Longer
  <2>2. \A i \in DOMAIN w.out : (i \in DOMAIN v.out /\ w.out[i] = v.out[i]) \/ w.out[i] = y
    BY <1>6, <1>10 DEF Longer
  <2> QED BY <2>1, <2>2
<1>12. OnTheWay(w, G)
  <2>1. \A i \in DOMAIN u.out : u.out[i].kind # "chunk"
    <3>1. \A i \in DOMAIN u.out : u.out[i].n \in Nat
      <4>1. \A z \in Outs : z.n \in Nat
        BY DEF Outs
      <4> QED BY <1>10, <4>1
    <3> QED BY <1>1, <1>8, <3>1 DEF OnTheWay
  <2>2. \A i \in DOMAIN w.out : w.out[i].kind # "chunk"
    BY <1>3, <1>11, <2>1
  <2> QED BY <1>7, <1>8, <2>2 DEF OnTheWay
<1>13. ASSUME "file" \notin slips
       PROVE  Laid(w, G) /\ FileLaid(w)
  <2>1. Laid(u, g) /\ FileLaid(u)
    BY <1>13 DEF Right
  <2>2. FileLaid(w)
    <3>1. \A i \in DOMAIN w.out : w.out[i].kind # "file"
      BY <1>1, <1>3, <1>11, <2>1 DEF FileLaid
    <3> QED BY <1>1, <1>7, <2>1, <3>1 DEF FileLaid
  <2>3. \A i \in DOMAIN u.wire :
          /\ u.wire[i].kind = "head" <=> i = 1
          /\ AChunk(u, i) => u.wire[i].n = i - 1 /\ i - 1 <= g
          /\ u.wire[i].kind # "last"
    BY <1>1, <1>8, <2>1 DEF Laid, Begun, Ended
  <2>4. CASE u.tcp # "open"
    <3>1. w.wire = u.wire /\ w.tcp # "open"
      BY <1>2, <1>5, <1>6, <1>7, <2>4
    <3>2. \A i \in DOMAIN w.wire :
            /\ w.wire[i].kind = "head" <=> i = 1
            /\ AChunk(w, i) => w.wire[i].n = i - 1 /\ i - 1 <= G
            /\ w.wire[i].kind # "last"
      <4>1. \A i \in DOMAIN u.wire : i \in Nat
        BY <1>10
      <4>2. \A i \in Nat : i - 1 <= g => i - 1 <= G
        BY <1>8
      <4>3. \A i \in DOMAIN u.wire : AChunk(w, i) = AChunk(u, i)
        BY <3>1 DEF AChunk
      <4> QED BY <2>3, <3>1, <4>1, <4>2, <4>3
    <3> QED BY <1>8, <2>2, <3>1, <3>2 DEF Laid, Begun, Ended
  <2>5. CASE u.tcp = "open"
    <3>1. Len(u.wire) = g + 1 /\ DOMAIN u.wire = 1..(g + 1) /\ \A i \in 2..(g + 1) : AChunk(u, i)
      BY <1>1, <1>8, <1>10, <2>1, <2>5 DEF Laid, Begun, Ended, AllPassed
    <3>2. /\ Len(v.wire) = G + 1 /\ DOMAIN v.wire = 1..(G + 1)
          /\ \A i \in 1..(g + 1) : v.wire[i] = u.wire[i]
          /\ n # 0 => v.wire[g + 2] = x
      <4>1. CASE n = 0
        BY <1>2, <1>5, <1>8, <1>10, <3>1, <4>1
      <4>2. CASE n # 0
        <5>1. Longer(u.wire, x, v.wire) /\ G = g + 1
          BY <1>2, <1>5, <1>8, <2>5, <4>2
        <5> QED BY <1>10, <3>1, <5>1 DEF Longer
      <4> QED BY <4>1, <4>2
    <3>3. \A i \in 1..(G + 1) :
            /\ v.wire[i].kind = "head" <=> i = 1
            /\ i # 1 => v.wire[i].kind \in {"chunk", "final"}
            /\ v.wire[i].kind \in {"chunk", "final"} => v.wire[i].n = i - 1
      <4> SUFFICES ASSUME NEW i \in 1..(G + 1)
                   PROVE  /\ v.wire[i].kind = "head" <=> i = 1
                          /\ i # 1 => v.wire[i].kind \in {"chunk", "final"}
                          /\ v.wire[i].kind \in {"chunk", "final"} => v.wire[i].n = i - 1
        OBVIOUS
      <4>1. \/ i \in 1..(g + 1) /\ v.wire[i] = u.wire[i]
            \/ i = g + 2 /\ v.wire[i] = x /\ n = g + 1
        BY <1>8, <3>2
      <4>2. CASE i \in 1..(g + 1) /\ v.wire[i] = u.wire[i]
        BY <2>3, <3>1, <4>2 DEF AChunk
      <4>3. CASE i = g + 2 /\ v.wire[i] = x /\ n = g + 1
        BY <1>3, <4>3
      <4> QED BY <4>1, <4>2, <4>3
    <3>4. /\ \A i \in 1..(G + 1) : w.wire[i] = v.wire[i]
          /\ u.head = "chunked" => Len(w.wire) = G + 2 /\ w.wire[G + 2] = y
          /\ u.head # "chunked" => Len(w.wire) = G + 1
          /\ DOMAIN w.wire = 1..Len(w.wire)
      <4>1. CASE u.head = "chunked"
        <5>1. Longer(v.wire, y, w.wire)
          BY <1>6, <1>7, <2>5, <4>1
        <5>2. Len(w.wire) = G + 2 /\ w.wire[G + 2] = y /\ DOMAIN w.wire = 1..(G + 2)
          BY <1>8, <3>2, <5>1 DEF Longer
        <5>3. \A i \in 1..(G + 1) : w.wire[i] = v.wire[i]
          BY <3>2, <5>1 DEF Longer
        <5> QED BY <4>1, <5>2, <5>3
      <4>2. CASE u.head # "chunked"
        <5>1. w.wire = v.wire
          BY <1>6, <1>7, <4>2
        <5> QED BY <1>8, <1>10, <3>2, <4>2, <5>1
      <4> QED BY <4>1, <4>2
    <3>5. AllPassed(w, G)
      <4>1. \A i \in 2..(G + 1) : w.wire[i].kind \in {"chunk", "final"}
        <5>1. \A i \in 2..(G + 1) : i \in 1..(G + 1) /\ i # 1
          BY <1>8
        <5> QED BY <3>3, <3>4, <5>1
      <4>2. Len(w.wire) >= G + 1
        BY <1>8, <3>4
      <4> QED BY <1>8, <4>1, <4>2 DEF AllPassed, AChunk
    <3>6. ASSUME NEW i \in DOMAIN w.wire
          PROVE  /\ w.wire[i].kind = "head" <=> i = 1
                 /\ AChunk(w, i) => w.wire[i].n = i - 1 /\ i - 1 <= G
                 /\ w.wire[i].kind = "last" => i = Len(w.wire)
      <4>1. \/ i \in 1..(G + 1) /\ w.wire[i] = v.wire[i]
            \/ i = G + 2 /\ i = Len(w.wire) /\ w.wire[i] = y
        BY <1>8, <3>4
      <4> QED BY <1>3, <1>8, <3>3, <4>1 DEF AChunk
    <3>7. u.head = "chunked" => w.wire # <<>> /\ w.wire[Len(w.wire)].kind = "last"
      BY <1>3, <1>8, <3>4
    <3> QED BY <1>7, <1>8, <2>2, <3>5, <3>6, <3>7 DEF Laid, Begun, Ended
  <2> QED BY <2>4, <2>5
<1>14. Right(w, G, slips)
  BY <1>6, <1>7, <1>9, <1>12, <1>13 DEF Right
<1> QED BY <1>7, <1>14 DEF r, v, w, G

\* What the last frame makes whole.
LEMMA LastIsPut ==
  ASSUME HttpConstants, NEW s \in Responses, NEW g \in Nat, NEW slips, s.tcp # "none", s.head # "none",
         InLine(s, g), OnTheWay(s, g), s.finished, s.queue = <<>>, s.pending = 0,
         "file" \notin slips =>
           Begun(s, g) /\ FileLaid(s) /\ (s.tcp = "open" => \A i \in DOMAIN s.wire : s.wire[i].kind # "last")
  PROVE  /\ Right(Srv!Put(s, Srv!Item("last", 0)), g, slips)
         /\ Srv!Put(s, Srv!Item("last", 0)).tcp = s.tcp
         /\ s.head # "chunked" => Right(s, g, slips)
<1> DEFINE y == Srv!Item("last", 0)
           t == Srv!Put(s, y)
<1>1. y \in Outs /\ y.kind = "last"
  BY ItemIs
<1> HIDE DEF y
<1>2. /\ t \in Responses /\ Alike(s, t) /\ t.head = s.head /\ t.length = s.length
      /\ s.tcp # "open" => t = s
      /\ s.tcp = "open" => Longer(s.out, y, t.out) /\ Longer(s.wire, y, t.wire)
  BY <1>1, PutIs
<1> HIDE DEF t
<1>3. /\ t.tcp = s.tcp /\ t.pending = 0 /\ t.queue = <<>> /\ t.finished /\ t.file = s.file
      /\ t.callback = s.callback
  BY <1>2 DEF Alike
<1>4. Passed(s, g) = g /\ Passed(t, g) = g
  BY <1>3 DEF Passed
<1>5. s.out \in Seq(Outs) /\ s.wire \in Seq(Outs)
  BY DEF Responses
<1>6. InLine(t, g)
  BY <1>2, <1>3, <1>4 DEF InLine
<1>7. OnTheWay(t, g)
  <2>1. \A i \in DOMAIN s.out : s.out[i].kind # "chunk"
    <3>1. \A z \in Outs : z.n \in Nat
      BY DEF Outs
    <3>2. \A i \in DOMAIN s.out : s.out[i].n \in Nat
      BY <1>5, <3>1
    <3> QED BY <1>4, <3>2 DEF OnTheWay
  <2>2. \A i \in DOMAIN t.out : (i \in DOMAIN s.out /\ t.out[i] = s.out[i]) \/ t.out[i] = y
    BY <1>2, <1>5 DEF Longer
  <2>3. \A i \in DOMAIN t.out : t.out[i].kind # "chunk"
    BY <1>1, <2>1, <2>2
  <2> QED BY <1>3, <1>4, <2>3 DEF OnTheWay
<1>8. ASSUME "file" \notin slips
      PROVE  Laid(t, g) /\ FileLaid(t) /\ (s.head # "chunked" => Laid(s, g))
  <2>1. Begun(s, g) /\ FileLaid(s)
    BY <1>8
  <2>2. \A i \in DOMAIN t.out : (i \in DOMAIN s.out /\ t.out[i] = s.out[i]) \/ t.out[i] = y
    BY <1>2, <1>5 DEF Longer
  <2>3. FileLaid(t)
    <3>1. ~s.file /\ \A i \in DOMAIN s.out : s.out[i].kind # "file"
      BY <2>1 DEF FileLaid
    <3>2. \A i \in DOMAIN t.out : t.out[i].kind # "file"
      BY <1>1, <2>2, <3>1
    <3> QED BY <1>3, <2>1, <3>1, <3>2 DEF FileLaid
  <2>4. CASE s.tcp # "open"
    BY <1>2, <2>1, <2>3, <2>4 DEF Laid, Ended
  <2>5. CASE s.tcp = "open"
    <3>1. /\ Len(s.wire) >= g + 1 /\ \A i \in 2..(g + 1) : AChunk(s, i)
          /\ \A i \in DOMAIN s.wire : s.wire[i].kind # "last"
          /\ Len(s.wire) \in Nat /\ DOMAIN s.wire = 1..Len(s.wire)
      BY <1>4, <1>5, <1>8, <2>1, <2>5 DEF Begun, AllPassed
    <3>2. /\ Len(t.wire) = Len(s.wire) + 1 /\ DOMAIN t.wire = 1..(Len(s.wire) + 1)
          /\ t.wire[Len(s.wire) + 1] = y /\ \A i \in 1..Len(s.wire) : t.wire[i] = s.wire[i]
      BY <1>2, <2>5, <3>1 DEF Longer
    <3>3. AllPassed(t, g)
      <4>1. \A i \in 2..(g + 1) : i \in 1..Len(s.wire)
        BY <3>1
      <4>2. \A i \in 2..(g + 1) : t.wire[i].kind \in {"chunk", "final"}
        BY <3>1, <3>2, <4>1 DEF AChunk
      <4> QED BY <1>4, <3>1, <3>2, <4>2 DEF AllPassed, AChunk
    <3>4. ASSUME NEW i \in DOMAIN t.wire
          PROVE  /\ t.wire[i].kind = "head" <=> i = 1
                 /\ AChunk(t, i) => t.wire[i].n = i - 1 /\ i - 1 <= g
                 /\ t.wire[i].kind = "last" => i = Len(t.wire)
      <4>1. CASE i \in 1..Len(s.wire)
        <5>1. t.wire[i] = s.wire[i] /\ i \in DOMAIN s.wire
          BY <3>1, <3>2, <4>1
        <5> QED BY <1>4, <2>1, <3>1, <5>1 DEF Begun, AChunk
      <4>2. CASE i = Len(s.wire) + 1
        <5>1. t.wire[i] = y /\ i # 1 /\ i = Len(t.wire)
          BY <3>1, <3>2, <4>2
        <5> QED BY <1>1, <5>1 DEF AChunk
      <4> QED BY <3>1, <3>2, <4>1, <4>2
    <3>5. t.wire # <<>> /\ t.wire[Len(t.wire)].kind = "last"
      BY <1>1, <3>1, <3>2
    <3>6. Laid(t, g)
      BY <1>3, <1>4, <3>3, <3>4, <3>5 DEF Laid, Begun, Ended
    <3> QED BY <2>1, <2>3, <3>6 DEF Laid, Ended
  <2> QED BY <2>4, <2>5
<1>9. Right(t, g, slips)
  BY <1>2, <1>3, <1>6, <1>7, <1>8 DEF Right
<1>10. s.head # "chunked" => Right(s, g, slips)
  BY <1>8 DEF Right
<1> QED BY <1>3, <1>9, <1>10 DEF t, y

\* uv is done with its first request.
LEMMA OthersTaken ==
  ASSUME NEW s, NEW g \in Nat, NEW slips, Right(s, g, slips), s.out # <<>>,
         Head(s.out).kind # "chunk"
  PROVE  /\ Right([s EXCEPT !.out = Tail(@)], g, slips)
         /\ Head(s.out).kind = "file" /\ "file" \notin slips =>
              \A i \in DOMAIN Tail(s.out) : Tail(s.out)[i].kind # "file"
<1> DEFINE q == Tail(s.out)
           t == [s EXCEPT !.out = Tail(@)]
<1>1. s \in Responses /\ s.out \in Seq(Outs)
  BY DEF Right, Responses
<1>2. q \in Seq(Outs) /\ Shorter(s.out, q) /\ Head(s.out) = s.out[1] /\ 1 \in DOMAIN s.out
  BY <1>1, TailIsShorter
<1>3. t = [s EXCEPT !.out = q]
  BY <1>1
<1> HIDE DEF q
<1>4. /\ t \in Responses /\ t.out = q /\ t.tcp = s.tcp /\ t.head = s.head /\ t.length = s.length
      /\ t.finished = s.finished /\ t.pending = s.pending /\ t.queue = s.queue /\ t.file = s.file
      /\ t.callback = s.callback /\ t.wire = s.wire
  BY <1>1, <1>2, <1>3 DEF Responses
<1> HIDE DEF t
<1>5. Passed(t, g) = Passed(s, g) /\ \A i : AChunk(t, i) = AChunk(s, i)
  BY <1>4 DEF Passed, AChunk
<1>6. /\ \A i \in DOMAIN q : i \in Nat /\ i + 1 \in DOMAIN s.out /\ q[i] = s.out[i + 1]
      /\ \A i \in DOMAIN s.out : i = 1 \/ (i - 1 \in DOMAIN q /\ s.out[i] = q[i - 1])
  BY <1>1, <1>2 DEF Shorter
<1>7. InLine(t, g)
  BY <1>1, <1>2, <1>4, <1>5 DEF Right, InLine
<1>8. OnTheWay(t, g)
  <2>1. OnTheWay(s, g)
    BY DEF Right
  <2>2. \A i \in DOMAIN q : q[i].kind = "chunk" =>
          Passed(s, g) - s.pending < q[i].n /\ q[i].n <= Passed(s, g)
    BY <1>6, <2>1 DEF OnTheWay
  <2>3. \A i, j \in DOMAIN q : i < j => i + 1 < j + 1
    BY <1>6
  <2>4. \A i, j \in DOMAIN q : q[i].kind = "chunk" /\ q[j].kind = "chunk" /\ i < j => q[i].n < q[j].n
    BY <1>6, <2>1, <2>3 DEF OnTheWay
  <2>5. s.tcp = "open" => \A n \in (Passed(s, g) - s.pending + 1)..Passed(s, g) :
          \E i \in DOMAIN q : q[i].kind = "chunk" /\ q[i].n = n
    BY <1>2, <1>6, <2>1 DEF OnTheWay
  <2> QED BY <1>4, <1>5, <2>2, <2>4, <2>5 DEF OnTheWay
<1>9. ASSUME "file" \notin slips
      PROVE  Laid(t, g) /\ FileLaid(t) /\ (Head(s.out).kind = "file" => \A i \in DOMAIN q : q[i].kind # "file")
  <2>1. Laid(s, g) /\ FileLaid(s)
    BY <1>9 DEF Right
  <2>2. AllPassed(t, g) = AllPassed(s, g)
    BY <1>4, <1>5 DEF AllPassed
  <2>3. Begun(t, g)
    BY <1>4, <1>5, <2>1, <2>2 DEF Laid, Begun
  <2>4. Ended(t)
    BY <1>4, <2>1 DEF Laid, Ended
  <2>5. \A i, j \in DOMAIN q : i + 1 = j + 1 => i = j
    BY <1>6
  <2>6. FileLaid(t)
    BY <1>4, <1>6, <2>1, <2>5 DEF FileLaid
  <2>7. ASSUME Head(s.out).kind = "file", NEW i \in DOMAIN q, q[i].kind = "file"
        PROVE  FALSE
    <3>1. i + 1 # 1 /\ i + 1 \in DOMAIN s.out /\ s.out[i + 1].kind = "file"
      BY <1>6, <2>7
    <3> QED BY <1>2, <2>1, <2>7, <3>1 DEF FileLaid
  <2> QED BY <2>3, <2>4, <2>6, <2>7 DEF Laid
<1>10. Right(t, g, slips)
  BY <1>4, <1>7, <1>8, <1>9 DEF Right
<1> QED BY <1>9, <1>10 DEF t, q

\* uv is done with a chunk.
LEMMA ChunkTaken ==
  ASSUME HttpConstants, NEW s, NEW g \in Nat, NEW slips, Right(s, g, slips), s.out # <<>>,
         Head(s.out).kind = "chunk"
  PROVE  LET t == [s EXCEPT !.out = Tail(@), !.pending = @ - 1] IN
         /\ t \in Responses /\ OnTheWay(t, g) /\ t.pending + 1 = s.pending
         /\ s.head # "none" /\ t.pending < MaxPending
         /\ "file" \notin slips =>
              Begun(t, g) /\ FileLaid(t) /\ (s.tcp = "open" => \A i \in DOMAIN s.wire : s.wire[i].kind # "last")
<1> DEFINE q == Tail(s.out)
           p == s.pending - 1
           t == [s EXCEPT !.out = Tail(@), !.pending = @ - 1]
<1>1. s \in Responses /\ s.out \in Seq(Outs) /\ s.pending \in Nat /\ s.queue \in Seq(Nat)
  BY DEF Right, Responses
<1>2. q \in Seq(Outs) /\ Shorter(s.out, q) /\ Head(s.out) = s.out[1] /\ 1 \in DOMAIN s.out
      /\ s.out[1] \in Outs
  BY <1>1, TailIsShorter
<1>3. OnTheWay(s, g) /\ InLine(s, g)
  BY DEF Right
<1>4. /\ Passed(s, g) - s.pending < s.out[1].n /\ s.out[1].n <= Passed(s, g) /\ s.out[1].n \in Nat
      /\ Passed(s, g) \in Int
  <2>1. \A z \in Outs : z.n \in Nat
    BY DEF Outs
  <2> QED BY <1>1, <1>2, <1>3, <2>1 DEF OnTheWay, Passed
<1>5. p \in Nat /\ p + 1 = s.pending /\ Passed(s, g) - p = Passed(s, g) - s.pending + 1
  BY <1>1, <1>4
<1>6. t = [s EXCEPT !.out = q, !.pending = p]
  BY <1>1
<1> HIDE DEF q, p
<1>7. /\ t \in Responses /\ t.out = q /\ t.tcp = s.tcp /\ t.head = s.head /\ t.length = s.length
      /\ t.finished = s.finished /\ t.pending = p /\ t.queue = s.queue /\ t.file = s.file
      /\ t.callback = s.callback /\ t.wire = s.wire
  BY <1>1, <1>2, <1>5, <1>6 DEF Responses
<1> HIDE DEF t
<1>8. Passed(t, g) = Passed(s, g) /\ (\A i : AChunk(t, i) = AChunk(s, i)) /\ AllPassed(t, g) = AllPassed(s, g)
  BY <1>7 DEF Passed, AChunk, AllPassed
<1>9. /\ \A i \in DOMAIN q : i \in Nat /\ 1 < i + 1 /\ i + 1 \in DOMAIN s.out /\ q[i] = s.out[i + 1]
      /\ \A i \in DOMAIN s.out : i = 1 \/ (i - 1 \in DOMAIN q /\ s.out[i] = q[i - 1])
  BY <1>1, <1>2 DEF Shorter
<1>10. OnTheWay(t, g)
  <2>1. \A i \in DOMAIN q : q[i].n \in Nat
    <3>1. \A z \in Outs : z.n \in Nat
      BY DEF Outs
    <3> QED BY <1>2, <3>1
  <2>2. \A i \in DOMAIN q : q[i].kind = "chunk" => s.out[1].n < q[i].n /\ q[i].n <= Passed(s, g)
    BY <1>2, <1>3, <1>9 DEF OnTheWay
  <2>3. \A i \in DOMAIN q : q[i].kind = "chunk" => Passed(s, g) - p < q[i].n
    <3>1. \A z, k, a, b \in Int : z - k < a /\ a < b => z - k + 1 < b
      OBVIOUS
    <3>2. ASSUME NEW i \in DOMAIN q, q[i].kind = "chunk"
          PROVE  Passed(s, g) - s.pending + 1 < q[i].n
      <4>1. q[i].n \in Int /\ s.out[1].n \in Int /\ s.out[1].n < q[i].n
        BY <1>4, <2>1, <2>2, <3>2
      <4>2. s.pending \in Int /\ Passed(s, g) - s.pending < s.out[1].n
        BY <1>1, <1>4
      <4> QED BY <1>4, <3>1, <4>1, <4>2
    <3> QED BY <1>5, <3>2
  <2>4. \A i, j \in DOMAIN q : i < j => i + 1 < j + 1
    BY <1>9
  <2>5. \A i, j \in DOMAIN q : q[i].kind = "chunk" /\ q[j].kind = "chunk" /\ i < j => q[i].n < q[j].n
    BY <1>3, <1>9, <2>4 DEF OnTheWay
  <2>6. ASSUME s.tcp = "open", NEW n \in (Passed(s, g) - p + 1)..Passed(s, g)
        PROVE  \E i \in DOMAIN q : q[i].kind = "chunk" /\ q[i].n = n
    <3> DEFINE m == Passed(s, g) - s.pending + 1
    <3>1. n \in m..Passed(s, g) /\ m \in m..Passed(s, g) /\ m < n
      <4>1. \A z, k, a \in Int : z - k < a /\ a <= z => z - k + 1 \in (z - k + 1)..z
        OBVIOUS
      <4>2. \A z, k \in Int : \A a \in (z - k + 1 + 1)..z : a \in (z - k + 1)..z /\ z - k + 1 < a
        OBVIOUS
      <4>3. n \in (Passed(s, g) - s.pending + 1 + 1)..Passed(s, g)
        BY <1>5, <2>6
      <4> QED BY <1>1, <1>4, <4>1, <4>2, <4>3
    <3>2. /\ \E i \in DOMAIN s.out : s.out[i].kind = "chunk" /\ s.out[i].n = n
          /\ \E i \in DOMAIN s.out : s.out[i].kind = "chunk" /\ s.out[i].n = m
      BY <1>3, <2>6, <3>1 DEF OnTheWay
    <3>3. PICK i \in DOMAIN s.out : s.out[i].kind = "chunk" /\ s.out[i].n = n
      BY <3>2
    <3>4. PICK j \in DOMAIN s.out : s.out[j].kind = "chunk" /\ s.out[j].n = m
      BY <3>2
    <3>5. i # 1
      <4>1. SUFFICES ASSUME i = 1 PROVE FALSE
        OBVIOUS
      <4>2. i # j /\ i < j
        BY <1>1, <1>4, <3>1, <3>3, <3>4, <4>1
      <4>3. n < m
        BY <1>3, <3>3, <3>4, <4>2 DEF OnTheWay
      <4> QED BY <1>1, <1>4, <3>1, <4>3
    <3> QED BY <1>9, <3>3, <3>5
  <2> QED BY <1>7, <1>8, <2>2, <2>3, <2>5, <2>6 DEF OnTheWay
<1>11. s.head # "none" /\ t.pending < MaxPending
  <2>1. s.pending # 0
    BY <1>5
  <2>2. MaxPending \in Nat /\ s.pending <= MaxPending /\ s.head # "none"
    BY <1>3, <2>1 DEF InLine, HttpConstants, Srv!HttpAssumption
  <2> QED BY <1>1, <1>5, <1>7, <2>2
<1>12. ASSUME "file" \notin slips
       PROVE  Begun(t, g) /\ FileLaid(t) /\ (s.tcp = "open" => \A i \in DOMAIN s.wire : s.wire[i].kind # "last")
  <2>1. Begun(s, g) /\ FileLaid(s)
    BY <1>12 DEF Right, Laid
  <2>2. s.tcp = "open" => \A i \in DOMAIN s.wire : s.wire[i].kind # "last"
    BY <1>5, <2>1 DEF Begun
  <2>3. Begun(t, g)
    BY <1>7, <1>8, <2>1, <2>2 DEF Begun
  <2>4. \A i, j \in DOMAIN q : i + 1 = j + 1 => i = j
    BY <1>9
  <2>5. FileLaid(t)
    BY <1>7, <1>9, <2>1, <2>4 DEF FileLaid
  <2> QED BY <2>2, <2>3, <2>5
<1> QED BY <1>5, <1>7, <1>10, <1>11, <1>12 DEF t

\* Whether a response is blocked says nothing about what it sent.
LEMMA BlockedIsFree ==
  ASSUME NEW s, NEW g, NEW slips, Right(s, g, slips), NEW b \in BOOLEAN
  PROVE  Right([s EXCEPT !.blocked = b], g, slips)
<1> DEFINE t == [s EXCEPT !.blocked = b]
<1>1. s \in Responses
  BY DEF Right
<1>2. /\ t \in Responses /\ t.out = s.out /\ t.tcp = s.tcp /\ t.head = s.head /\ t.length = s.length
      /\ t.finished = s.finished /\ t.pending = s.pending /\ t.queue = s.queue /\ t.file = s.file
      /\ t.callback = s.callback /\ t.wire = s.wire
  BY <1>1 DEF Responses
<1> HIDE DEF t
<1>3. Passed(t, g) = Passed(s, g) /\ (\A i : AChunk(t, i) = AChunk(s, i)) /\ AllPassed(t, g) = AllPassed(s, g)
  BY <1>2 DEF Passed, AChunk, AllPassed
<1>4. InLine(t, g) /\ OnTheWay(t, g)
  BY <1>2, <1>3 DEF Right, InLine, OnTheWay
<1>5. ASSUME "file" \notin slips
      PROVE  Laid(t, g) /\ FileLaid(t)
  <2>1. Begun(s, g) /\ Ended(s) /\ FileLaid(s)
    BY <1>5 DEF Right, Laid
  <2>2. Begun(t, g)
    BY <1>2, <1>3, <2>1 DEF Begun
  <2>3. Ended(t) /\ FileLaid(t)
    BY <1>2, <2>1 DEF Ended, FileLaid
  <2> QED BY <2>2, <2>3 DEF Laid
<1> QED BY <1>2, <1>4, <1>5 DEF Right, t

\* A queue is put behind what does not wait.
LEMMA Requeued ==
  ASSUME NEW s, NEW g \in Nat, NEW slips, Right(s, g, slips), s.queue = <<>>, ~s.finished,
         NEW q \in Seq(Nat), \A i \in DOMAIN q : q[i] = g + i,
         q # <<>> => s.head # "none" /\ s.pending = MaxPending /\ ("file" \notin slips => ~s.file)
  PROVE  Right([s EXCEPT !.queue = q], g + Len(q), slips)
<1> DEFINE t == [s EXCEPT !.queue = q]
<1>1. s \in Responses
  BY DEF Right
<1>2. /\ t \in Responses /\ t.out = s.out /\ t.tcp = s.tcp /\ t.head = s.head /\ t.length = s.length
      /\ t.finished = s.finished /\ t.pending = s.pending /\ t.queue = q /\ t.file = s.file
      /\ t.callback = s.callback /\ t.wire = s.wire
  BY <1>1 DEF Responses
<1> HIDE DEF t
<1>3. Passed(t, g + Len(q)) = g /\ Passed(s, g) = g
  <2>1. Len(q) \in Nat
    OBVIOUS
  <2> QED BY <1>2, <2>1 DEF Passed
<1>4. (\A i : AChunk(t, i) = AChunk(s, i)) /\ AllPassed(t, g + Len(q)) = AllPassed(s, g)
  BY <1>2, <1>3 DEF AChunk, AllPassed
<1>5. OnTheWay(t, g + Len(q))
  BY <1>2, <1>3 DEF Right, OnTheWay
<1>6. InLine(t, g + Len(q))
  <2>1. InLine(s, g) /\ Len(q) \in Nat /\ Len(q) <= g + Len(q)
    BY DEF Right
  <2>2. s.head = "none" => q = <<>> /\ g + Len(q) = 0
    BY <2>1 DEF InLine
  <2> QED BY <1>2, <1>3, <2>1, <2>2 DEF InLine
<1>7. ASSUME "file" \notin slips
      PROVE  Laid(t, g + Len(q)) /\ FileLaid(t)
  <2>1. Begun(s, g) /\ FileLaid(s)
    BY <1>7 DEF Right, Laid
  <2>2. Begun(t, g + Len(q))
    BY <1>2, <1>3, <1>4, <2>1 DEF Begun
  <2>3. Ended(t)
    BY <1>2 DEF Ended
  <2>4. FileLaid(t)
    BY <1>2, <1>7, <2>1 DEF FileLaid
  <2> QED BY <2>2, <2>3, <2>4 DEF Laid
<1> QED BY <1>1, <1>2, <1>5, <1>6, <1>7 DEF Right, t

\* The least of two.
LEMMA LeastIs ==
  ASSUME NEW a \in Nat, NEW b \in Nat, a <= b
  PROVE  Srv!Min({a, b}) = a /\ Srv!Min({b, a}) = a
<1>1. \A x \in {a, b} : (\A y \in {a, b} : x <= y) => x = a
  OBVIOUS
<1>2. a \in {a, b} /\ \A y \in {a, b} : a <= y
  OBVIOUS
<1>3. (CHOOSE x \in {a, b} : \A y \in {a, b} : x <= y) = a
  BY <1>1, <1>2
<1>4. {b, a} = {a, b}
  OBVIOUS
<1> QED BY <1>3, <1>4 DEF Srv!Min

\* What process_queued_writes does: nothing after the end, or with an empty queue;
\* else there is room for one.
LEMMA FillIs ==
  ASSUME HttpConstants, NEW r \in Responses, r.pending < MaxPending
  PROVE  /\ r.finished \/ r.queue = <<>> =>
              \E b \in BOOLEAN : Srv!Fill(r) = [r EXCEPT !.blocked = b]
         /\ ~r.finished /\ r.queue # <<>> /\ r.pending + 1 = MaxPending =>
              \E b \in BOOLEAN : Srv!Fill(r) =
                [Srv!Put([r EXCEPT !.pending = @ + 1], Srv!Item("chunk", r.queue[1]))
                   EXCEPT !.queue = Tail(r.queue), !.blocked = b]
<1>1. /\ r.queue \in Seq(Nat) /\ r.pending \in Nat /\ MaxPending \in Nat /\ r.out \in Seq(Outs)
      /\ r.wire \in Seq(Outs) /\ r.blocked \in BOOLEAN
  BY DEF Responses, HttpConstants, Srv!HttpAssumption
<1> DEFINE k == IF r.finished THEN 0 ELSE Srv!Min({Len(r.queue), MaxPending - r.pending})
           sent == [i \in 1..k |-> Srv!Item("chunk", r.queue[i])]
           t == [r EXCEPT !.pending = @ + k, !.queue = SubSeq(@, k + 1, Len(@)),
                          !.out = IF r.tcp = "open" THEN @ \o sent ELSE @,
                          !.wire = IF r.tcp = "open" THEN @ \o sent ELSE @]
<1>2. Srv!Fill(r) = IF t.blocked /\ t.queue = <<>> /\ t.pending < MaxPending
                    THEN [t EXCEPT !.blocked = FALSE] ELSE t
  BY DEF Srv!Fill
<1>3. ASSUME r.finished \/ r.queue = <<>>
      PROVE  \E b \in BOOLEAN : Srv!Fill(r) = [r EXCEPT !.blocked = b]
  <2>1. k = 0
    <3>1. CASE r.finished
      BY <3>1
    <3>2. CASE ~r.finished
      <4>1. Len(r.queue) = 0 /\ MaxPending - r.pending \in Nat /\ 0 <= MaxPending - r.pending
        BY <1>1, <1>3, <3>2
      <4>2. Srv!Min({0, MaxPending - r.pending}) = 0
        BY <4>1, LeastIs
      <4> QED BY <3>2, <4>1, <4>2
    <3> QED BY <3>1, <3>2
  <2>2. sent = <<>>
    <3> HIDE DEF k
    <3>1. 1..k = {}
      BY <2>1
    <3> QED BY <3>1
  <2>3. SubSeq(r.queue, k + 1, Len(r.queue)) = r.queue /\ r.pending + k = r.pending
    <3> HIDE DEF k
    <3>1. k + 1 = 1 /\ r.pending + k = r.pending
      BY <1>1, <2>1
    <3> QED BY <1>1, <3>1, SubSeqFull
  <2>4. r.out \o sent = r.out /\ r.wire \o sent = r.wire
    <3> HIDE DEF k, sent
    <3> QED BY <1>1, <2>2, ConcatEmptySeq
  <2> HIDE DEF k, sent
  <2>5. t = r
    BY <2>3, <2>4 DEF Responses
  <2>6. [r EXCEPT !.blocked = r.blocked] = r
    BY DEF Responses
  <2> QED BY <1>1, <1>2, <2>5, <2>6
<1>4. ASSUME ~r.finished, r.queue # <<>>, r.pending + 1 = MaxPending
      PROVE  \E b \in BOOLEAN : Srv!Fill(r) =
                [Srv!Put([r EXCEPT !.pending = @ + 1], Srv!Item("chunk", r.queue[1]))
                   EXCEPT !.queue = Tail(r.queue), !.blocked = b]
  <2> DEFINE x == Srv!Item("chunk", r.queue[1])
             u == Srv!Put([r EXCEPT !.pending = @ + 1], x)
  <2>1. k = 1
    <3>1. Len(r.queue) \in Nat /\ 1 <= Len(r.queue) /\ MaxPending - r.pending = 1
      BY <1>1, <1>4
    <3>2. Srv!Min({Len(r.queue), 1}) = 1
      BY <3>1, LeastIs
    <3> QED BY <1>4, <3>1, <3>2
  <2>2. sent = <<x>>
    <3>1. sent = [i \in 1..1 |-> Srv!Item("chunk", r.queue[i])]
      BY <2>1
    <3>2. [i \in 1..1 |-> Srv!Item("chunk", r.queue[i])] = <<Srv!Item("chunk", r.queue[1])>>
      OBVIOUS
    <3> QED BY <3>1, <3>2
  <2>3. SubSeq(r.queue, k + 1, Len(r.queue)) = Tail(r.queue) /\ r.pending + k = r.pending + 1
    <3> HIDE DEF k
    <3>1. k + 1 = 2 /\ r.pending + k = r.pending + 1
      BY <1>1, <2>1
    <3> QED BY <1>1, <1>4, <3>1, TailIsSubSeq
  <2>4. x \in Outs
    <3>1. r.queue[1] \in Nat
      BY <1>1, <1>4
    <3> QED BY <3>1, ItemIs
  <2> HIDE DEF x
  <2>5. r.out \o sent = Append(r.out, x) /\ r.wire \o sent = Append(r.wire, x)
    <3> HIDE DEF k, sent
    <3> QED BY <1>1, <2>2, <2>4, AppendIsConcat
  <2>6. /\ u = IF r.tcp = "open"
               THEN [r EXCEPT !.pending = @ + 1, !.out = Append(@, x), !.wire = Append(@, x)]
               ELSE [r EXCEPT !.pending = @ + 1]
    BY <1>1 DEF Srv!Put, Responses
  <2> HIDE DEF k, sent
  <2>7. t = [u EXCEPT !.queue = Tail(r.queue)]
    BY <1>1, <2>3, <2>5, <2>6 DEF Responses
  <2> HIDE DEF t
  <2>8. \E b \in BOOLEAN : Srv!Fill(r) = [t EXCEPT !.blocked = b]
    <3>1. r.blocked = t.blocked /\ [t EXCEPT !.blocked = t.blocked] = t
      BY <1>1, <2>3, <2>5, <2>6, <2>7 DEF Responses
    <3> QED BY <1>1, <1>2, <3>1
  <2>9. \A b : [t EXCEPT !.blocked = b] = [u EXCEPT !.queue = Tail(r.queue), !.blocked = b]
    BY <2>7
  <2> QED BY <2>8, <2>9 DEF x, u
<1> QED BY <1>3, <1>4

\* What slipped only excuses.
LEMMA SlipsGrow ==
  ASSUME NEW s, NEW g, NEW a, Right(s, g, a), NEW b, a \subseteq b
  PROVE  Right(s, g, b)
BY DEF Right

\* A connection that is no longer open.
LEMMA LaterTcp ==
  ASSUME NEW s \in Responses, NEW x \in Outs
  PROVE  Srv!Put(s, x).tcp = s.tcp
BY PutIs DEF Alike

\* The completion of a chunk.
LEMMA WrittenIsRight ==
  ASSUME HttpConstants, NEW s, NEW g \in Nat, NEW slips, Right(s, g, slips), s.tcp # "none",
         s.out # <<>>, Head(s.out).kind = "chunk"
  PROVE  LET t == Srv!ChunkWritten([s EXCEPT !.out = Tail(@)]) IN
         Right(t, g, slips) /\ t.tcp # "none"
<1> DEFINE r == [s EXCEPT !.out = Tail(@), !.pending = @ - 1]
           t == Srv!Fill(r)
           v == IF t.finished /\ ~Srv!InFlight(t) THEN Srv!LastFrame(t) ELSE t
<1>0. s \in Responses /\ InLine(s, g) /\ s.pending \in Nat /\ MaxPending \in Nat /\ s.queue \in Seq(Nat)
  BY DEF Right, Responses, HttpConstants, Srv!HttpAssumption
<1>1. [[s EXCEPT !.out = Tail(@)] EXCEPT !.pending = @ - 1] = r
  BY <1>0 DEF Responses
<1>2. Srv!ChunkWritten([s EXCEPT !.out = Tail(@)]) = Srv!CloseIfDrained(v)
  BY <1>1 DEF Srv!ChunkWritten
<1>3. /\ r \in Responses /\ OnTheWay(r, g) /\ r.pending + 1 = s.pending /\ r.pending < MaxPending
      /\ s.head # "none"
      /\ "file" \notin slips =>
           Begun(r, g) /\ FileLaid(r) /\ (s.tcp = "open" => \A i \in DOMAIN s.wire : s.wire[i].kind # "last")
  BY ChunkTaken
<1>4. /\ r.tcp = s.tcp /\ r.head = s.head /\ r.length = s.length /\ r.finished = s.finished
      /\ r.queue = s.queue /\ r.file = s.file /\ r.callback = s.callback /\ r.wire = s.wire
  BY <1>0 DEF Responses
<1> HIDE DEF r
<1>5. Passed(r, g) = Passed(s, g) /\ r.pending \in Nat /\ r.blocked \in BOOLEAN
  BY <1>3, <1>4 DEF Passed, Responses
<1>6. s.finished \/ s.queue = <<>> => InLine(r, g)
  BY <1>0, <1>3, <1>4, <1>5 DEF InLine
<1>7. slips \cap {"file", "cut"} = {} => (s.finished => s.queue = <<>>)
  BY DEF Right
<1>8. ASSUME s.finished \/ s.queue = <<>>, ~(s.finished /\ s.queue = <<>> /\ r.pending = 0)
      PROVE  Right(r, g, slips)
  <2>1. "file" \notin slips => Ended(r)
    BY <1>4, <1>8 DEF Ended
  <2> QED BY <1>3, <1>4, <1>6, <1>7, <1>8, <2>1 DEF Right, Laid
<1>9. CASE s.finished \/ s.queue = <<>>
  <2>1. PICK b \in BOOLEAN : t = [r EXCEPT !.blocked = b]
    BY <1>3, <1>4, <1>9, FillIs
  <2>2. /\ t \in Responses /\ t.out = r.out /\ t.tcp = r.tcp /\ t.head = r.head /\ t.length = r.length
        /\ t.finished = r.finished /\ t.pending = r.pending /\ t.queue = r.queue /\ t.file = r.file
        /\ t.callback = r.callback /\ t.wire = r.wire
    BY <1>3, <2>1 DEF Responses
  <2> HIDE DEF t
  <2>3. CASE s.finished /\ s.queue = <<>> /\ r.pending = 0
    <3>1. v = Srv!LastFrame(t)
      BY <1>4, <2>2, <2>3 DEF Srv!InFlight
    <3>2. Passed(t, g) = Passed(r, g) /\ (\A i : AChunk(t, i) = AChunk(r, i)) /\ AllPassed(t, g) = AllPassed(r, g)
      BY <2>2 DEF Passed, AChunk, AllPassed
    <3>3. InLine(t, g)
      BY <1>6, <1>9, <2>2, <3>2 DEF InLine
    <3>4. OnTheWay(t, g)
      BY <1>3, <2>2, <3>2 DEF OnTheWay
    <3>5. "file" \notin slips =>
            Begun(t, g) /\ FileLaid(t) /\ (t.tcp = "open" => \A i \in DOMAIN t.wire : t.wire[i].kind # "last")
      <4>1. Begun(r, g) => Begun(t, g)
        BY <2>2, <3>2 DEF Begun
      <4>2. FileLaid(r) => FileLaid(t)
        BY <2>2 DEF FileLaid
      <4> QED BY <1>3, <1>4, <2>2, <4>1, <4>2
    <3>6. /\ t.tcp # "none" /\ t.head # "none" /\ t.finished /\ t.queue = <<>> /\ t.pending = 0
      BY <1>3, <1>4, <2>2, <2>3
    <3>7. /\ Right(Srv!Put(t, Srv!Item("last", 0)), g, slips)
          /\ Srv!Put(t, Srv!Item("last", 0)).tcp = t.tcp
          /\ t.head # "chunked" => Right(t, g, slips)
      BY <2>2, <3>3, <3>4, <3>5, <3>6, LastIsPut
    <3>8. Right(v, g, slips) /\ v.tcp # "none"
      BY <3>1, <3>6, <3>7 DEF Srv!LastFrame
    <3> HIDE DEF v
    <3> QED BY <1>2, <3>8, CloseIsRight
  <2>4. CASE ~(s.finished /\ s.queue = <<>> /\ r.pending = 0)
    <3>1. v = t
      BY <1>4, <1>5, <2>2, <2>4 DEF Srv!InFlight
    <3>2. Right(t, g, slips)
      BY <1>8, <1>9, <2>1, <2>4, BlockedIsFree
    <3> HIDE DEF v
    <3> QED BY <1>2, <1>4, <2>2, <3>1, <3>2, CloseIsRight
  <2> QED BY <2>3, <2>4
<1>10. CASE ~(s.finished \/ s.queue = <<>>)
  <2> DEFINE p == Passed(s, g)
             d == [r EXCEPT !.queue = <<>>]
             x == Srv!Item("chunk", p + 1)
             u == Srv!Put([d EXCEPT !.pending = @ + 1], x)
             q == Tail(s.queue)
  <2>1. s.pending = MaxPending /\ Len(s.queue) \in Nat /\ Len(s.queue) <= g
    BY <1>0, <1>10 DEF InLine
  <2>2. p \in Nat /\ s.queue[1] = p + 1 /\ p + Len(s.queue) = g
    <3>1. 1 \in DOMAIN s.queue /\ s.queue[1] = Passed(s, g) + 1
      BY <1>0, <1>10 DEF InLine
    <3> QED BY <2>1, <3>1 DEF Passed
  <2>3. q \in Seq(Nat) /\ p + 1 + Len(q) = g /\ \A i \in DOMAIN q : q[i] = p + 1 + i
    <3>1. q \in Seq(Nat) /\ Shorter(s.queue, q)
      BY <1>0, <1>10, TailIsShorter
    <3>2. Len(q) \in Nat /\ Len(s.queue) = Len(q) + 1
      BY <3>1 DEF Shorter
    <3>3. \A i \in DOMAIN q : i \in Nat /\ i + 1 \in DOMAIN s.queue /\ q[i] = s.queue[i + 1]
      BY <1>0, <3>1 DEF Shorter
    <3>4. \A i \in DOMAIN q : q[i] = p + (i + 1)
      BY <1>0, <3>3 DEF InLine
    <3>5. \A i \in DOMAIN q : p + (i + 1) = p + 1 + i
      BY <2>2, <3>3
    <3>6. p + 1 + Len(q) = g
      BY <2>2, <3>2
    <3> QED BY <3>1, <3>4, <3>5, <3>6
  <2>4. PICK b \in BOOLEAN :
          t = [Srv!Put([r EXCEPT !.pending = @ + 1], x) EXCEPT !.queue = q, !.blocked = b]
    <3>1. r.queue[1] = p + 1 /\ Tail(r.queue) = q /\ ~r.finished /\ r.queue # <<>> /\ r.pending + 1 = MaxPending
      BY <1>3, <1>4, <1>10, <2>1, <2>2
    <3>2. \E b \in BOOLEAN : t =
            [Srv!Put([r EXCEPT !.pending = @ + 1], Srv!Item("chunk", r.queue[1]))
               EXCEPT !.queue = Tail(r.queue), !.blocked = b]
      BY <1>3, <3>1, FillIs
    <3> QED BY <3>1, <3>2
  <2> HIDE DEF t
  <2>5. /\ d \in Responses /\ d.out = r.out /\ d.tcp = r.tcp /\ d.head = r.head /\ d.length = r.length
        /\ d.finished = r.finished /\ d.pending = r.pending /\ d.queue = <<>> /\ d.file = r.file
        /\ d.callback = r.callback /\ d.wire = r.wire
    <3>1. <<>> \in Seq(Nat)
      OBVIOUS
    <3> QED BY <1>3, <3>1 DEF Responses
  <2> HIDE DEF d, p, q
  <2>6. Passed(d, p) = p /\ Passed(r, g) = p
    BY <1>5, <2>2, <2>5 DEF Passed, p
  <2>7. (\A i : AChunk(d, i) = AChunk(r, i)) /\ AllPassed(d, p) = AllPassed(r, g)
    BY <2>5, <2>6 DEF AChunk, AllPassed
  <2>8. Right(d, p, slips)
    <3>1. InLine(d, p)
      <4>1. d.head # "none" /\ d.tcp # "none" /\ (d.head = "length" => d.length)
        BY <1>0, <1>3, <1>4, <2>5 DEF InLine
      <4>2. d.pending <= MaxPending
        BY <1>0, <1>3, <1>5, <2>5
      <4>3. Len(d.queue) = 0 /\ DOMAIN d.queue = {} /\ d.queue = <<>>
        BY <2>5
      <4> QED BY <2>2, <4>1, <4>2, <4>3 DEF InLine
    <3>2. OnTheWay(d, p)
      BY <1>3, <2>5, <2>6 DEF OnTheWay
    <3>3. ASSUME "file" \notin slips
          PROVE  Laid(d, p) /\ FileLaid(d)
      <4>1. Begun(r, g) /\ FileLaid(r)
        BY <1>3, <3>3
      <4>2. Begun(d, p)
        BY <2>5, <2>6, <2>7, <4>1 DEF Begun
      <4>3. Ended(d) /\ FileLaid(d)
        BY <1>4, <1>10, <2>5, <4>1 DEF Ended, FileLaid
      <4> QED BY <4>2, <4>3 DEF Laid
    <3> QED BY <2>5, <3>1, <3>2, <3>3 DEF Right
  <2>9. ~d.finished /\ d.head # "none" /\ d.tcp # "none" /\ d.pending < MaxPending
        /\ ("file" \notin slips => ~d.file)
    <3>1. "file" \notin slips => FileLaid(s)
      BY DEF Right
    <3> QED BY <1>3, <1>4, <1>10, <2>5, <3>1 DEF FileLaid
  <2>10. Right(u, p + 1, slips)
    BY <2>2, <2>5, <2>8, <2>9, ChunkIsPut
  <2>11. /\ [d EXCEPT !.pending = @ + 1] \in Responses
         /\ u.queue = <<>> /\ ~u.finished /\ u.head # "none" /\ u.pending = MaxPending
         /\ u.tcp = s.tcp /\ u.file = s.file
    <3>1. d.pending + 1 \in Nat /\ d.pending + 1 = MaxPending
      BY <1>3, <1>5, <2>1, <2>5
    <3>2. /\ [d EXCEPT !.pending = @ + 1] \in Responses
          /\ [d EXCEPT !.pending = @ + 1].pending = MaxPending
          /\ [d EXCEPT !.pending = @ + 1].queue = <<>> /\ ~[d EXCEPT !.pending = @ + 1].finished
          /\ [d EXCEPT !.pending = @ + 1].head # "none"
          /\ [d EXCEPT !.pending = @ + 1].tcp = d.tcp /\ [d EXCEPT !.pending = @ + 1].file = d.file
      BY <2>5, <2>9, <3>1 DEF Responses
    <3>3. x \in Outs
      BY <2>2, ItemIs
    <3> DEFINE f == [d EXCEPT !.pending = @ + 1]
    <3> HIDE DEF x, f
    <3>4. Alike(f, u) /\ u.head = f.head
      <4>1. f \in Responses
        BY <3>2 DEF f
      <4>2. u = Srv!Put(f, x)
        BY DEF f
      <4> HIDE DEF u
      <4> QED BY <3>3, <4>1, <4>2, PutIs
    <3>5. /\ f \in Responses /\ f.pending = MaxPending /\ f.queue = <<>> /\ ~f.finished
          /\ f.head # "none" /\ f.tcp = d.tcp /\ f.file = d.file
      BY <3>2 DEF f
    <3> HIDE DEF u
    <3>6. /\ u.queue = <<>> /\ ~u.finished /\ u.head # "none" /\ u.pending = MaxPending
          /\ u.tcp = s.tcp /\ u.file = s.file
      BY <1>4, <2>5, <3>4, <3>5 DEF Alike
    <3> QED BY <3>5, <3>6 DEF f
  <2>12. Right([u EXCEPT !.queue = q], g, slips)
    <3>1. q # <<>> => u.head # "none" /\ u.pending = MaxPending /\ ("file" \notin slips => ~u.file)
      BY <1>4, <2>5, <2>9, <2>11
    <3>2. p + 1 \in Nat
      BY <2>2
    <3> HIDE DEF u
    <3>3. Right([u EXCEPT !.queue = q], p + 1 + Len(q), slips)
      BY <2>3, <2>10, <2>11, <3>1, <3>2, Requeued
    <3> QED BY <2>3, <3>3
  <2>13. [u EXCEPT !.queue = q] = [Srv!Put([r EXCEPT !.pending = @ + 1], x) EXCEPT !.queue = q]
    <3>1. /\ d = [r EXCEPT !.queue = <<>>]
      BY DEF d
    <3> HIDE DEF x
    <3> QED BY <1>3, <3>1 DEF Srv!Put, Responses
  <2>14. t = [[u EXCEPT !.queue = q] EXCEPT !.blocked = b]
    <3>1. t = [[Srv!Put([r EXCEPT !.pending = @ + 1], x) EXCEPT !.queue = q] EXCEPT !.blocked = b]
      BY <2>4
    <3> QED BY <2>13, <3>1
  <2>15. Right(t, g, slips)
    BY <2>12, <2>14, BlockedIsFree
  <2>16. ~t.finished /\ t.tcp # "none"
    <3>1. u \in Responses
      BY <2>10 DEF Right
    <3> HIDE DEF u
    <3> QED BY <2>11, <2>14, <3>1 DEF Responses
  <2> QED BY <1>2, <2>15, <2>16, CloseIsRight
<1> QED BY <1>9, <1>10

\* sendFile and its chunks.
NoFile(s) == \A i \in DOMAIN s.out : s.out[i].kind # "file"

\* A piece of the file is handed to uv.
LEMMA FilePut ==
  ASSUME HttpConstants, NEW s \in Responses, NEW g \in Nat, NEW slips, s.tcp # "none", s.head # "none",
         InLine(s, g), OnTheWay(s, g), slips \cap {"file", "cut"} = {} => (s.finished => s.queue = <<>>),
         s.left # 0,
         "file" \notin slips =>
           /\ Begun(s, g) /\ s.file /\ ~s.finished /\ s.head = "chunked" /\ s.queue = <<>>
           /\ NoFile(s)
  PROVE  /\ Right(Srv!Put([s EXCEPT !.left = @ - 1], Srv!Item("file", s.left)), g, slips)
         /\ Srv!Put([s EXCEPT !.left = @ - 1], Srv!Item("file", s.left)).tcp = s.tcp
<1> DEFINE r == [s EXCEPT !.left = @ - 1]
           y == Srv!Item("file", s.left)
           t == Srv!Put(r, y)
<1>1. s.left \in Nat /\ s.left - 1 \in Nat
  BY DEF Responses
<1>2. y \in Outs /\ y.kind = "file"
  BY <1>1, ItemIs
<1>3. /\ r \in Responses /\ r.out = s.out /\ r.tcp = s.tcp /\ r.head = s.head /\ r.length = s.length
      /\ r.finished = s.finished /\ r.pending = s.pending /\ r.queue = s.queue /\ r.file = s.file
      /\ r.callback = s.callback /\ r.wire = s.wire
  BY <1>1 DEF Responses
<1> HIDE DEF r, y
<1>4. /\ t \in Responses /\ Alike(r, t) /\ t.head = r.head /\ t.length = r.length
      /\ r.tcp # "open" => t = r
      /\ r.tcp = "open" => Longer(r.out, y, t.out) /\ Longer(r.wire, y, t.wire)
  BY <1>2, <1>3, PutIs
<1> HIDE DEF t
<1>5. /\ t.tcp = s.tcp /\ t.pending = s.pending /\ t.queue = s.queue /\ t.finished = s.finished
      /\ t.file = s.file /\ t.callback = s.callback /\ t.head = s.head /\ t.length = s.length
      /\ s.tcp # "open" => t.out = s.out /\ t.wire = s.wire
      /\ s.tcp = "open" => Longer(s.out, y, t.out) /\ Longer(s.wire, y, t.wire)
  BY <1>3, <1>4 DEF Alike
<1>6. Passed(t, g) = Passed(s, g)
  BY <1>5 DEF Passed
<1>7. s.out \in Seq(Outs) /\ s.wire \in Seq(Outs)
  BY DEF Responses
<1>8. InLine(t, g)
  BY <1>5, <1>6 DEF InLine
<1>9. /\ \A i \in DOMAIN t.out : (i \in DOMAIN s.out /\ t.out[i] = s.out[i]) \/ (i = Len(s.out) + 1 /\ t.out[i] = y)
      /\ \A i \in DOMAIN s.out : i \in DOMAIN t.out /\ t.out[i] = s.out[i]
  BY <1>5, <1>7 DEF Longer
<1>10. OnTheWay(t, g)
  <2>1. \A i \in DOMAIN t.out : t.out[i].kind = "chunk" => i \in DOMAIN s.out /\ t.out[i] = s.out[i]
    BY <1>2, <1>9
  <2>2. \A i \in DOMAIN t.out : t.out[i].kind = "chunk" =>
          Passed(s, g) - s.pending < t.out[i].n /\ t.out[i].n <= Passed(s, g)
    BY <2>1 DEF OnTheWay
  <2>3. \A i, j \in DOMAIN t.out :
          t.out[i].kind = "chunk" /\ t.out[j].kind = "chunk" /\ i < j => t.out[i].n < t.out[j].n
    BY <2>1 DEF OnTheWay
  <2>4. s.tcp = "open" => \A n \in (Passed(s, g) - s.pending + 1)..Passed(s, g) :
          \E i \in DOMAIN t.out : t.out[i].kind = "chunk" /\ t.out[i].n = n
    BY <1>9 DEF OnTheWay
  <2> QED BY <1>5, <1>6, <2>2, <2>3, <2>4 DEF OnTheWay
<1>11. ASSUME "file" \notin slips
       PROVE  Laid(t, g) /\ FileLaid(t)
  <2>1. Begun(s, g) /\ s.file /\ ~s.finished /\ s.head = "chunked" /\ s.queue = <<>> /\ NoFile(s)
    BY <1>11
  <2>2. FileLaid(t)
    <3>1. \A i \in DOMAIN t.out : t.out[i].kind = "file" => i = Len(s.out) + 1
      BY <1>9, <2>1 DEF NoFile
    <3> QED BY <1>5, <2>1, <3>1 DEF FileLaid
  <2>3. Ended(t)
    BY <1>5, <2>1 DEF Ended
  <2>4. CASE s.tcp # "open"
    <3>1. (\A i : AChunk(t, i) = AChunk(s, i)) /\ AllPassed(t, g) = AllPassed(s, g)
      BY <1>5, <1>6, <2>4 DEF AChunk, AllPassed
    <3>2. Begun(t, g)
      BY <1>5, <1>6, <2>1, <2>4, <3>1 DEF Begun
    <3> QED BY <2>2, <2>3, <3>2 DEF Laid
  <2>5. CASE s.tcp = "open"
    <3> DEFINE p == Passed(s, g)
    <3>1. /\ Len(s.wire) >= p + 1 /\ \A i \in 2..(p + 1) : AChunk(s, i)
          /\ Len(s.wire) \in Nat /\ DOMAIN s.wire = 1..Len(s.wire) /\ p \in Nat
      <4>1. AllPassed(s, g)
        BY <2>1, <2>5 DEF Begun
      <4>2. p \in Nat
        BY <2>1 DEF Passed
      <4> QED BY <1>7, <4>1, <4>2 DEF AllPassed
    <3>2. /\ Len(t.wire) = Len(s.wire) + 1 /\ DOMAIN t.wire = 1..(Len(s.wire) + 1)
          /\ t.wire[Len(s.wire) + 1] = y /\ \A i \in 1..Len(s.wire) : t.wire[i] = s.wire[i]
      BY <1>5, <2>5, <3>1 DEF Longer
    <3>3. \A i \in 2..(p + 1) : i \in 1..Len(s.wire)
      <4> HIDE DEF p
      <4> QED BY <3>1
    <3>4. AllPassed(t, g)
      <4>1. \A i \in 2..(p + 1) : t.wire[i].kind \in {"chunk", "final"}
        BY <3>1, <3>2, <3>3 DEF AChunk
      <4>2. Len(t.wire) >= p + 1
        <5> HIDE DEF p
        <5> QED BY <3>1, <3>2
      <4> QED BY <1>6, <4>1, <4>2 DEF AllPassed, AChunk
    <3>5. ASSUME NEW i \in DOMAIN t.wire
          PROVE  /\ t.wire[i].kind = "head" <=> i = 1
                 /\ AChunk(t, i) => t.wire[i].n = i - 1 /\ i - 1 <= p
                 /\ t.wire[i].kind # "last"
      <4>1. CASE i \in 1..Len(s.wire)
        <5>1. t.wire[i] = s.wire[i] /\ i \in DOMAIN s.wire
          BY <3>1, <3>2, <4>1
        <5> QED BY <2>1, <5>1 DEF Begun, AChunk
      <4>2. CASE i = Len(s.wire) + 1
        <5>1. t.wire[i] = y /\ i # 1
          <6> HIDE DEF p
          <6> QED BY <3>1, <3>2, <4>2
        <5> QED BY <1>2, <5>1 DEF AChunk
      <4> QED BY <3>1, <3>2, <4>1, <4>2
    <3>6. Begun(t, g)
      BY <1>5, <1>6, <2>1, <3>4, <3>5 DEF Begun
    <3> QED BY <2>2, <2>3, <3>6 DEF Laid
  <2> QED BY <2>4, <2>5
<1>12. Right(t, g, slips)
  BY <1>4, <1>5, <1>8, <1>10, <1>11 DEF Right
<1> QED BY <1>5, <1>12 DEF t, r, y

\* The file ends, and with it the response.
LEMMA FileEnds ==
  ASSUME HttpConstants, NEW s \in Responses, NEW g \in Nat, NEW slips, s.tcp # "none", s.head # "none",
         InLine(s, g), OnTheWay(s, g), slips \cap {"file", "cut"} = {} => (s.finished => s.queue = <<>>),
         "file" \notin slips =>
           /\ Begun(s, g) /\ s.file /\ ~s.finished /\ s.head = "chunked" /\ s.queue = <<>>
           /\ NoFile(s)
  PROVE  Right(Srv!FinishFile(s), g, slips) /\ Srv!FinishFile(s).tcp # "none"
<1> DEFINE t == [s EXCEPT !.file = FALSE, !.callback = FALSE, !.finished = TRUE]
           y == Srv!Item("last", 0)
<1>1. /\ t \in Responses /\ t.out = s.out /\ t.tcp = s.tcp /\ t.head = s.head /\ t.length = s.length
      /\ t.finished /\ t.pending = s.pending /\ t.queue = s.queue /\ ~t.file
      /\ ~t.callback /\ t.wire = s.wire
  BY DEF Responses
<1>2. Srv!FinishFile(s) = IF Srv!InFlight(t) THEN t ELSE Srv!CloseIfDrained(Srv!Put(t, y))
  BY DEF Srv!FinishFile
<1> HIDE DEF t
<1>3. /\ Passed(t, g) = Passed(s, g) /\ (\A i : AChunk(t, i) = AChunk(s, i))
      /\ AllPassed(t, g) = AllPassed(s, g)
  BY <1>1 DEF Passed, AChunk, AllPassed
<1>4. InLine(t, g)
  BY <1>1, <1>3 DEF InLine
<1>5. OnTheWay(t, g)
  BY <1>1, <1>3 DEF OnTheWay
<1>6. "file" \notin slips =>
        /\ Begun(t, g) /\ FileLaid(t) /\ t.queue = <<>>
        /\ \A i \in DOMAIN t.wire : t.wire[i].kind # "last"
  <2> SUFFICES ASSUME "file" \notin slips
               PROVE  /\ Begun(t, g) /\ FileLaid(t) /\ t.queue = <<>>
                      /\ \A i \in DOMAIN t.wire : t.wire[i].kind # "last"
    OBVIOUS
  <2>1. Begun(s, g) /\ s.file /\ ~s.finished /\ s.head = "chunked" /\ s.queue = <<>> /\ NoFile(s)
    OBVIOUS
  <2>2. \A i \in DOMAIN t.wire : t.wire[i].kind # "last"
    BY <1>1, <2>1 DEF Begun
  <2>3. FileLaid(t)
    BY <1>1, <2>1 DEF FileLaid, NoFile
  <2>4. Begun(t, g)
    BY <1>1, <1>3, <2>1, <2>2 DEF Begun
  <2> QED BY <1>1, <2>1, <2>2, <2>3, <2>4
<1>7. t.pending \in Nat
  BY <1>1 DEF Responses
<1>8. CASE Srv!InFlight(t)
  <2>1. Ended(t)
    BY <1>7, <1>8 DEF Ended, Srv!InFlight
  <2>2. Right(t, g, slips)
    BY <1>1, <1>4, <1>5, <1>6, <2>1 DEF Right, Laid
  <2> QED BY <1>1, <1>2, <1>8, <2>2
<1>9. CASE ~Srv!InFlight(t)
  <2>1. t.queue = <<>> /\ t.pending = 0
    BY <1>7, <1>9 DEF Srv!InFlight
  <2>2. Right(Srv!Put(t, y), g, slips) /\ Srv!Put(t, y).tcp = t.tcp
    BY <1>1, <1>4, <1>5, <1>6, <2>1, LastIsPut
  <2> QED BY <1>1, <1>2, <1>9, <2>2, CloseIsRight
<1> QED BY <1>8, <1>9

\* The callback of a write of the file.
LEMMA FileWrittenIsRight ==
  ASSUME HttpConstants, NEW s, NEW g \in Nat, NEW slips, Right(s, g, slips), s.tcp # "none",
         s.out # <<>>, Head(s.out).kind = "file", NEW ok \in BOOLEAN
  PROVE  LET t == Srv!FileWritten([s EXCEPT !.out = Tail(@)], ok) IN
         Right(t, g, slips) /\ t.tcp # "none"
<1> DEFINE r == [s EXCEPT !.out = Tail(@)]
<1>1. Right(r, g, slips)
      /\ ("file" \notin slips => \A i \in DOMAIN Tail(s.out) : Tail(s.out)[i].kind # "file")
  BY OthersTaken
<1>2. s \in Responses /\ s.out \in Seq(Outs) /\ s.head # "none"
  BY DEF Right, Responses, InLine
<1>3. /\ r \in Responses /\ r.out = Tail(s.out) /\ r.tcp = s.tcp /\ r.head = s.head
      /\ r.finished = s.finished /\ r.queue = s.queue /\ r.file = s.file /\ r.left \in Nat
  BY <1>1, <1>2 DEF Responses, Right
<1>4. InLine(r, g) /\ OnTheWay(r, g) /\ (slips \cap {"file", "cut"} = {} => (r.finished => r.queue = <<>>))
  BY <1>1 DEF Right
<1>5. "file" \notin slips =>
        /\ Begun(r, g) /\ r.file /\ ~r.finished /\ r.head = "chunked" /\ r.queue = <<>> /\ NoFile(r)
  <2> SUFFICES ASSUME "file" \notin slips
               PROVE  /\ Begun(r, g) /\ r.file /\ ~r.finished /\ r.head = "chunked" /\ r.queue = <<>>
                      /\ NoFile(r)
    OBVIOUS
  <2>1. s.file
    <3>1. 1 \in DOMAIN s.out /\ Head(s.out) = s.out[1]
      BY <1>2
    <3> QED BY <3>1 DEF Right, FileLaid
  <2>2. Begun(r, g) /\ FileLaid(r)
    BY <1>1 DEF Right, Laid
  <2>3. NoFile(r)
    BY <1>1, <1>3 DEF NoFile
  <2> QED BY <1>3, <2>1, <2>2, <2>3 DEF FileLaid
<1>6. Srv!FileWritten(r, ok) =
        IF ok /\ ~r.finished /\ r.left > 0 THEN Srv!Put([r EXCEPT !.left = @ - 1], Srv!Item("file", r.left))
        ELSE Srv!FinishFile(r)
  BY <1>3 DEF Srv!FileWritten, Srv!StreamFile
<1>7. r.left > 0 => r.left # 0
  BY <1>3
<1> HIDE DEF r
<1>8. r.left > 0 => /\ Right(Srv!Put([r EXCEPT !.left = @ - 1], Srv!Item("file", r.left)), g, slips)
                    /\ Srv!Put([r EXCEPT !.left = @ - 1], Srv!Item("file", r.left)).tcp = r.tcp
  BY <1>2, <1>3, <1>4, <1>5, <1>7, FilePut
<1>9. Right(Srv!FinishFile(r), g, slips) /\ Srv!FinishFile(r).tcp # "none"
  BY <1>2, <1>3, <1>4, <1>5, FileEnds
<1>10. Right(Srv!FileWritten(r, ok), g, slips) /\ Srv!FileWritten(r, ok).tcp # "none"
  BY <1>3, <1>6, <1>8, <1>9
<1> QED BY <1>10 DEF r

\* A length is announced.
LEMMA LengthIsRight ==
  ASSUME NEW s, NEW g, NEW slips, Right(s, g, slips)
  PROVE  LET t == [s EXCEPT !.length = TRUE] IN
         /\ Right(t, g, slips) /\ t.tcp = s.tcp /\ t.queue = s.queue /\ t.pending = s.pending
         /\ t.finished = s.finished /\ t.file = s.file
<1> DEFINE t == [s EXCEPT !.length = TRUE]
<1>0. s \in Responses
  BY DEF Right
<1>1. /\ t \in Responses /\ t.out = s.out /\ t.tcp = s.tcp /\ t.head = s.head /\ t.length
      /\ t.finished = s.finished /\ t.pending = s.pending /\ t.queue = s.queue /\ t.file = s.file
      /\ t.callback = s.callback /\ t.wire = s.wire
  BY <1>0 DEF Responses
<1> HIDE DEF t
<1>2. /\ Passed(t, g) = Passed(s, g) /\ (\A i : AChunk(t, i) = AChunk(s, i))
      /\ AllPassed(t, g) = AllPassed(s, g)
  BY <1>1 DEF Passed, AChunk, AllPassed
<1>3. InLine(s, g) => InLine(t, g)
  BY <1>1, <1>2 DEF InLine
<1>4. OnTheWay(s, g) => OnTheWay(t, g)
  BY <1>1, <1>2 DEF OnTheWay
<1>5. Begun(s, g) => Begun(t, g)
  BY <1>1, <1>2 DEF Begun
<1>6. (Ended(s) => Ended(t)) /\ (FileLaid(s) => FileLaid(t))
  BY <1>1 DEF Ended, FileLaid
<1>7. Right(t, g, slips)
  BY <1>1, <1>3, <1>4, <1>5, <1>6 DEF Right, Laid
<1> QED BY <1>1, <1>7 DEF t

\* end_response. What is left to the completion of a write is cut unless nothing
\* waits.
LEMMA EndIsRight ==
  ASSUME HttpConstants, NEW s, NEW g \in Nat, NEW slips, Right(s, g, slips), s.tcp # "none",
         NEW n \in {0, g + 1},
         ~Srv!Refuses(s) /\ Srv!InFlight(s) /\ (n # 0 \/ s.queue # <<>>) => "cut" \in slips
  PROVE  LET t == Srv!EndResponse(s, n) IN
         /\ Right(t, IF n = 0 \/ Srv!Refuses(s) THEN g ELSE g + 1, slips)
         /\ t.tcp # "none"
<1> DEFINE t == Srv!EndResponse(s, n)
           G == IF n = 0 \/ Srv!Refuses(s) THEN g ELSE g + 1
<1>0. s \in Responses /\ InLine(s, g) /\ OnTheWay(s, g) /\ s.queue \in Seq(Nat) /\ s.pending \in Nat
  BY DEF Right, Responses
<1>1. CASE Srv!Refuses(s)
  BY <1>1 DEF Srv!EndResponse
<1>2. CASE ~Srv!Refuses(s) /\ Srv!InFlight(s)
  <2> DEFINE q == IF n = 0 THEN s.queue ELSE Append(s.queue, n)
             w == [s EXCEPT !.finished = TRUE, !.queue = q]
  <2>1. s.head # "none" /\ ~s.finished /\ ~s.file
    BY <1>0, <1>2 DEF InLine, Srv!InFlight, Srv!Refuses
  <2>2. n \in Nat
    OBVIOUS
  <2>3. q \in Seq(Nat)
    BY <1>0, <2>2
  <2>4. t = w
    BY <1>0, <1>2, <2>1 DEF Srv!EndResponse, Srv!Finished, Responses
  <2>5. /\ w \in Responses /\ w.out = s.out /\ w.tcp = s.tcp /\ w.head = s.head /\ w.length = s.length
        /\ w.finished /\ w.pending = s.pending /\ w.queue = q /\ w.file = s.file
        /\ w.callback = s.callback /\ w.wire = s.wire
    <3> HIDE DEF q
    <3> QED BY <1>0, <2>3 DEF Responses
  <2>6. /\ Passed(w, G) = Passed(s, g) /\ G \in Nat /\ Len(q) <= G
        /\ \A i \in DOMAIN q : q[i] = Passed(s, g) + i
    <3>1. Len(s.queue) <= g /\ \A i \in DOMAIN s.queue : s.queue[i] = Passed(s, g) + i
      BY <1>0 DEF InLine
    <3>2. CASE n = 0
      BY <1>2, <2>5, <3>1, <3>2 DEF Passed
    <3>3. CASE n # 0
      <4>1. n = g + 1 /\ G = g + 1 /\ q = Append(s.queue, n)
        BY <1>2, <3>3
      <4>2. Longer(s.queue, n, q)
        BY <1>0, <2>2, <4>1, AppendIsLonger
      <4>3. Len(q) = Len(s.queue) + 1 /\ Len(s.queue) \in Nat
        BY <1>0, <4>2 DEF Longer
      <4>4. Passed(w, G) = Passed(s, g)
        BY <2>5, <4>1, <4>3 DEF Passed
      <4>5. q[Len(s.queue) + 1] = Passed(s, g) + (Len(s.queue) + 1)
        BY <4>1, <4>2, <4>3 DEF Longer, Passed
      <4>6. \A i \in DOMAIN q : i \in DOMAIN s.queue \/ i = Len(s.queue) + 1
        BY <1>0, <4>2, <4>3 DEF Longer
      <4>7. \A i \in DOMAIN s.queue : q[i] = s.queue[i]
        BY <4>2 DEF Longer
      <4> HIDE DEF q, G
      <4>8. \A i \in DOMAIN q : q[i] = Passed(s, g) + i
        BY <3>1, <4>5, <4>6, <4>7
      <4> QED BY <3>1, <4>1, <4>3, <4>4, <4>8
    <3> QED BY <3>2, <3>3
  <2>7. Srv!InFlight(s) => q # <<>> \/ s.pending # 0
    <3>1. Append(s.queue, n) # <<>>
      BY <1>0, <2>2
    <3> QED BY <1>0, <3>1 DEF Srv!InFlight
  <2>8. slips \cap {"file", "cut"} = {} => q = <<>>
    BY <1>2
  <2> HIDE DEF q, w, G
  <2>9. (\A i : AChunk(w, i) = AChunk(s, i)) /\ AllPassed(w, G) = AllPassed(s, g)
    BY <2>5, <2>6 DEF AChunk, AllPassed
  <2>10. InLine(w, G)
    <3>1. w.pending <= MaxPending /\ (w.tcp = "none" => w.head = "none") /\ (w.head = "length" => w.length)
      BY <1>0, <2>5 DEF InLine
    <3> QED BY <2>1, <2>5, <2>6, <3>1 DEF InLine
  <2>11. OnTheWay(w, G)
    BY <1>0, <2>5, <2>6 DEF OnTheWay
  <2>12. ASSUME "file" \notin slips
         PROVE  Laid(w, G) /\ FileLaid(w)
    <3>1. Begun(s, g) /\ FileLaid(s)
      BY <2>12 DEF Right, Laid
    <3>2. Begun(w, G)
      BY <2>1, <2>5, <2>6, <2>9, <3>1 DEF Begun
    <3>3. FileLaid(w)
      BY <2>1, <2>5, <3>1 DEF FileLaid
    <3>4. Ended(w)
      BY <1>2, <2>5, <2>7 DEF Ended
    <3> QED BY <3>2, <3>3, <3>4 DEF Laid
  <2>13. Right(w, G, slips)
    BY <2>5, <2>8, <2>10, <2>11, <2>12 DEF Right
  <2> QED BY <2>4, <2>5, <2>13 DEF G
<1>3. CASE ~Srv!Refuses(s) /\ ~Srv!InFlight(s)
  <2>1. s.queue = <<>> /\ s.pending = 0 /\ ~s.finished /\ ~s.file
    BY <1>0, <1>3 DEF Srv!InFlight, Srv!Refuses
  <2> DEFINE a == [s EXCEPT !.length = TRUE]
             u == IF s.head = "none" THEN Srv!Flush(a) ELSE s
             w == Srv!LastFrame(Srv!Final([u EXCEPT !.finished = TRUE], n))
  <2>2. Right(a, g, slips) /\ a.tcp = s.tcp /\ a.queue = s.queue /\ a.pending = s.pending
        /\ a.finished = s.finished /\ a.file = s.file
    BY LengthIsRight
  <2>3. Srv!Finished(s) = [u EXCEPT !.finished = TRUE]
    <3>1. CASE s.head # "none"
      BY <3>1 DEF Srv!Finished
    <3>2. CASE s.head = "none"
      <4>1. Srv!Finished(s) = Srv!Flush([[s EXCEPT !.finished = TRUE] EXCEPT !.length = TRUE])
        BY <1>0, <3>2 DEF Srv!Finished, Responses
      <4>2. Srv!Flush([[s EXCEPT !.finished = TRUE] EXCEPT !.length = TRUE])
              = [Srv!Flush(a) EXCEPT !.finished = TRUE]
        BY <1>0, <3>2 DEF Srv!Flush, Srv!Put, Responses
      <4> QED BY <3>2, <4>1, <4>2
    <3> QED BY <3>1, <3>2
  <2>4. /\ Right(u, g, slips) /\ u.head # "none" /\ u.tcp = s.tcp /\ u.queue = <<>> /\ u.pending = 0
        /\ ~u.finished /\ ~u.file
    <3>1. CASE s.head # "none"
      BY <2>1, <3>1
    <3>2. CASE s.head = "none"
      <4>1. a \in Responses
        BY <2>2 DEF Right
      <4> HIDE DEF a
      <4>2. Right(Srv!Flush(a), g, slips) /\ Alike(a, Srv!Flush(a)) /\ Srv!Flush(a).head # "none"
        BY <2>2, <4>1, FlushIs
      <4> QED BY <2>1, <2>2, <3>2, <4>2 DEF Alike
    <3> QED BY <3>1, <3>2
  <2>5. t = Srv!CloseIfDrained(w)
    BY <1>3, <2>3 DEF Srv!EndResponse
  <2> HIDE DEF u, t
  <2>6. Right(w, IF n = 0 THEN g ELSE g + 1, slips) /\ w.tcp = u.tcp
    BY <2>4, TailIsPut DEF Srv!Refuses
  <2> HIDE DEF w
  <2>7. (IF n = 0 THEN g ELSE g + 1) = G /\ G \in Nat
    BY <1>3
  <2> HIDE DEF G
  <2>8. Right(t, G, slips) /\ t.tcp # "none"
    BY <2>4, <2>5, <2>6, <2>7, CloseIsRight
  <2> QED BY <2>8 DEF t, G
<1> QED BY <1>1, <1>2, <1>3

\* send_file. Over a chunk that waits, an announced length, another file or the end
\* the order is not kept.
LEMMA SendIsRight ==
  ASSUME HttpConstants, NEW s, NEW g \in Nat, NEW slips, Right(s, g, slips), s.tcp # "none",
         NEW k \in Nat,
         "file" \notin slips => s.queue = <<>> /\ ~s.length /\ ~s.file /\ ~s.finished
  PROVE  Right(Srv!SendFile(s, k), g, slips) /\ Srv!SendFile(s, k).tcp # "none"
<1> DEFINE f == Srv!Flush(s)
           h == IF s.head = "length" THEN "chunked" ELSE f.head
           a == [s EXCEPT !.file = TRUE, !.callback = TRUE, !.left = k,
                          !.head = IF @ = "length" THEN "chunked" ELSE @]
           r == [f EXCEPT !.file = TRUE, !.callback = TRUE, !.left = k, !.head = h]
<1>0. s \in Responses /\ InLine(s, g)
  BY DEF Right
<1>1. Srv!Flush(a) = r
  BY <1>0 DEF Srv!Flush, Srv!Put, Responses
<1>2. Right(f, g, slips) /\ Alike(s, f) /\ f.head # "none" /\ f.length = s.length
      /\ (s.head # "none" => f.head = s.head)
      /\ (s.head = "none" => f.head = IF s.length THEN "length" ELSE "chunked")
  BY <1>0, FlushIs
<1>3. f \in Responses /\ InLine(f, g) /\ OnTheWay(f, g)
      /\ (slips \cap {"file", "cut"} = {} => (f.finished => f.queue = <<>>))
  BY <1>2 DEF Right
<1> HIDE DEF f
<1>4. h \in {"length", "chunked"} /\ (h = "length" => f.head = "length")
      /\ (~s.length => h = "chunked")
  BY <1>0, <1>2, <1>3 DEF Responses, InLine
<1> HIDE DEF h
<1>5. /\ r \in Responses /\ r.out = f.out /\ r.tcp = f.tcp /\ r.head = h /\ r.length = f.length
      /\ r.finished = f.finished /\ r.pending = f.pending /\ r.queue = f.queue /\ r.file
      /\ r.callback /\ r.left = k /\ r.wire = f.wire
  BY <1>3, <1>4 DEF Responses
<1>6. Srv!SendFile(s, k) = Srv!StreamFile(r)
  BY <1>1 DEF Srv!SendFile
<1> HIDE DEF r
<1>7. /\ Passed(r, g) = Passed(f, g) /\ (\A i : AChunk(r, i) = AChunk(f, i))
      /\ AllPassed(r, g) = AllPassed(f, g)
  BY <1>5 DEF Passed, AChunk, AllPassed
<1>8. r.tcp # "none" /\ r.head # "none" /\ f.tcp # "none"
  BY <1>2, <1>4, <1>5 DEF Alike
<1>9. InLine(r, g)
  <2>1. r.head = "length" => r.length
    BY <1>3, <1>4, <1>5 DEF InLine
  <2> QED BY <1>3, <1>5, <1>7, <1>8, <2>1 DEF InLine
<1>10. OnTheWay(r, g) /\ (slips \cap {"file", "cut"} = {} => (r.finished => r.queue = <<>>))
  BY <1>3, <1>5, <1>7 DEF OnTheWay
<1>11. ASSUME "file" \notin slips
       PROVE  /\ Begun(r, g) /\ r.file /\ ~r.finished /\ r.head = "chunked" /\ r.queue = <<>>
              /\ NoFile(r)
  <2>1. Begun(f, g) /\ FileLaid(f) /\ ~f.file
    BY <1>2, <1>11 DEF Right, Laid, Alike
  <2>2. Begun(r, g)
    BY <1>2, <1>5, <1>7, <1>8, <2>1 DEF Begun
  <2>3. NoFile(r)
    BY <1>5, <2>1 DEF NoFile, FileLaid
  <2> QED BY <1>2, <1>4, <1>5, <1>11, <2>2, <2>3 DEF Alike
<1>12. CASE r.finished
  <2> DEFINE v == [r EXCEPT !.callback = FALSE]
  <2>1. /\ v \in Responses /\ v.out = r.out /\ v.tcp = r.tcp /\ v.head = r.head /\ v.length = r.length
        /\ v.finished = r.finished /\ v.pending = r.pending /\ v.queue = r.queue /\ v.file = r.file
        /\ v.wire = r.wire
    BY <1>5 DEF Responses
  <2>2. Srv!SendFile(s, k) = v
    BY <1>6, <1>12 DEF Srv!StreamFile
  <2>3. Passed(v, g) = Passed(r, g)
    BY <2>1 DEF Passed
  <2> HIDE DEF v
  <2>4. InLine(v, g) /\ OnTheWay(v, g)
    BY <1>9, <1>10, <2>1, <2>3 DEF InLine, OnTheWay
  <2>5. "file" \in slips
    BY <1>11, <1>12
  <2> QED BY <1>8, <1>10, <2>1, <2>2, <2>4, <2>5 DEF Right
<1>13. CASE ~r.finished /\ r.left = 0
  <2>1. Srv!SendFile(s, k) = Srv!FinishFile(r)
    BY <1>6, <1>13 DEF Srv!StreamFile
  <2> QED BY <1>5, <1>8, <1>9, <1>10, <1>11, <2>1, FileEnds
<1>14. CASE ~r.finished /\ r.left # 0
  <2>1. Srv!SendFile(s, k) = Srv!Put([r EXCEPT !.left = @ - 1], Srv!Item("file", r.left))
    BY <1>6, <1>14 DEF Srv!StreamFile
  <2> QED BY <1>5, <1>8, <1>9, <1>10, <1>11, <1>14, <2>1, FilePut
<1> QED BY <1>12, <1>13, <1>14

-----------------------------------------------------------------------------
\* What the peer sends, and what the listeners hear. What is left of it comes in
\* its order: the head, the body behind the b pieces that came, one end of it, and
\* how the peer leaves.
Left(r) == r.todo \o r.input
Ins == {i \in [kind : {"head", "body", "end", "bad", "eof", "reset"}, n : 0..Body] :
          i.kind = "body" => i.n # 0}
Requests ==
  [called : BOOLEAN, data : BOOLEAN, end : BOOLEAN, buffered : Seq(1..Body),
   complete : BOOLEAN, paused : BOOLEAN, todo : Seq(Ins), input : Seq(Ins)]
Before(r) == IF r.called THEN 0 ELSE 1
InOrder(r, q, b) ==
  /\ ~r.called => b = 0 /\ ~r.complete
  /\ \A i \in DOMAIN q :
       /\ q[i].kind = "head" <=> i = 1 /\ ~r.called
       /\ q[i].kind = "body" => q[i].n = b + i - Before(r)
       /\ r.complete => q[i].kind \notin {"body", "end"}
  /\ \A i, j \in DOMAIN q :
       q[i].kind \in {"end", "bad", "eof", "reset"} /\ q[j].kind \in {"end", "body"} => j <= i
\* The listeners have heard the pieces up to a, and the end if that came; the next
\* ones wait in the buffer.
Listened(r, h, a) ==
  /\ Len(h) \in {a, a + 1} /\ \A i \in 1..a : h[i] = i
  /\ Len(h) = a + 1 => h[a + 1] = 0 /\ r.complete /\ r.end
  /\ r.complete /\ r.end => r.buffered # <<>> \/ Len(h) = a + 1
  /\ \A i \in DOMAIN r.buffered : r.buffered[i] = a + i
  /\ r.data => r.buffered = <<>>
  /\ ~r.called => h = <<>> /\ r.buffered = <<>> /\ ~r.data /\ ~r.end /\ ~r.complete
Heeded(r, h, slips) ==
  \E b \in 0..Body :
    /\ InOrder(r, Left(r), b)
    /\ "late" \notin slips => \E a \in 0..Body : Listened(r, h, a) /\ b = a + Len(r.buffered)

Servers ==
  [handle : {"null", "open", "closed"}, closed : BOOLEAN, tasks : Seq({"listen", "close"}),
   listened : BOOLEAN]
Histories ==
  [given : Seq(Nat), heard : Seq(0..Body), calls : 0..HttpCalls,
   slips : SUBSET {"cut", "file", "late"}]
ServerInv ==
  /\ server \in Servers /\ req \in Requests /\ hs \in Histories
  /\ code \in {"loop", "handler", "script"} /\ (code = "handler" => req.called)
  /\ res.tcp = "none" => ~req.called /\ Left(req) = <<>>
  /\ Right(res, Len(hs.given), hs.slips)
  /\ \A i \in DOMAIN hs.given : hs.given[i] = i
  /\ Heeded(req, hs.heard, hs.slips)

\* Steps of the request.
LEMMA LeftIs ==
  ASSUME NEW r \in Requests
  PROVE  /\ r.todo \in Seq(Ins) /\ r.input \in Seq(Ins) /\ Left(r) \in Seq(Ins)
         /\ r.called \in BOOLEAN /\ r.complete \in BOOLEAN /\ r.end \in BOOLEAN /\ r.data \in BOOLEAN
         /\ r.buffered \in Seq(1..Body)
         /\ r.todo = <<>> => Left(r) = r.input
         /\ r.todo # <<>> => /\ Left(r) # <<>> /\ Left(r)[1] = Head(r.todo)
                             /\ Tail(r.todo) \o r.input = Tail(Left(r))
<1>1. /\ r.todo \in Seq(Ins) /\ r.input \in Seq(Ins)
      /\ r.called \in BOOLEAN /\ r.complete \in BOOLEAN /\ r.end \in BOOLEAN /\ r.data \in BOOLEAN
      /\ r.buffered \in Seq(1..Body)
  BY DEF Requests
<1> DEFINE x == r.todo
           y == r.input
<1> HIDE DEF x, y
<1>2. x \in Seq(Ins) /\ y \in Seq(Ins)
  BY <1>1 DEF x, y
<1>3. x \o y \in Seq(Ins)
  BY <1>2
<1>4. x = <<>> => x \o y = y
  BY <1>2
<1>5. x # <<>> => x \o y # <<>> /\ (x \o y)[1] = Head(x)
  BY <1>2
<1>6. ASSUME x # <<>>
      PROVE  Tail(x) \o y = Tail(x \o y)
  <2>1. Tail(x) \o y \in Seq(Ins) /\ Tail(x \o y) \in Seq(Ins) /\ Tail(x) \in Seq(Ins)
    BY <1>2, <1>3, <1>5, <1>6
  <2>2. Len(x) \in Nat /\ Len(x) # 0 /\ Len(y) \in Nat /\ Len(x \o y) = Len(x) + Len(y)
        /\ Len(Tail(x)) = Len(x) - 1 /\ Len(Tail(x \o y)) = Len(x) + Len(y) - 1
        /\ Len(Tail(x) \o y) = Len(x) - 1 + Len(y)
    BY <1>2, <1>3, <1>5, <1>6, <2>1
  <2>3. ASSUME NEW i \in 1..(Len(x) + Len(y) - 1)
        PROVE  (Tail(x) \o y)[i] = Tail(x \o y)[i]
    <3>1. Tail(x \o y)[i] = (x \o y)[i + 1]
      BY <1>2, <1>3, <1>5, <1>6, <2>2
    <3>2. CASE i <= Len(x) - 1
      BY <1>2, <1>6, <2>1, <2>2, <3>1, <3>2
    <3>3. CASE ~(i <= Len(x) - 1)
      <4>1. (Tail(x) \o y)[i] = y[i - (Len(x) - 1)]
        BY <1>2, <2>1, <2>2, <3>3
      <4>2. (x \o y)[i + 1] = y[i + 1 - Len(x)]
        BY <1>2, <2>2, <3>3
      <4>3. i - (Len(x) - 1) = i + 1 - Len(x)
        BY <2>2
      <4> QED BY <3>1, <4>1, <4>2, <4>3
    <3> QED BY <3>2, <3>3
  <2>4. Len(Tail(x) \o y) = Len(Tail(x \o y)) /\ Len(Tail(x \o y)) = Len(x) + Len(y) - 1
    BY <2>2
  <2> QED BY <2>1, <2>3, <2>4, SeqEqual
<1> QED BY <1>1, <1>3, <1>4, <1>5, <1>6 DEF x, y, Left

\* What comes next is taken.
LEMMA NextIsTaken ==
  ASSUME NEW r \in Requests, NEW q \in Seq(Ins), q # <<>>, NEW b \in Nat, InOrder(r, q, b),
         NEW c \in Requests, c.called, c.complete => r.complete \/ q[1].kind = "end",
         q[1].kind = "head" \/ r.called
  PROVE  /\ Tail(q) \in Seq(Ins)
         /\ InOrder(c, Tail(q), IF q[1].kind = "body" THEN b + 1 ELSE b)
         /\ (q[1].kind = "head") = ~r.called
         /\ q[1].kind = "body" => q[1].n = b + 1
<1> DEFINE d == IF q[1].kind = "body" THEN b + 1 ELSE b
           p == Tail(q)
<1>1. /\ p \in Seq(Ins) /\ Shorter(q, p) /\ 1 \in DOMAIN q
  BY TailIsShorter
<1>2. \A i \in DOMAIN p : i \in Nat /\ i # 0 /\ i + 1 \in DOMAIN q /\ p[i] = q[i + 1] /\ i + 1 # 1
  BY <1>1 DEF Shorter
<1>3. (q[1].kind = "head") = ~r.called
  BY <1>1 DEF InOrder, Requests
<1>4. ASSUME q[1].kind = "body"
      PROVE  q[1].n = b + 1
  <2>1. r.called
    BY <1>3, <1>4
  <2>2. q[1].n = b + 1 - Before(r)
    BY <1>1, <1>4 DEF InOrder
  <2> QED BY <2>1, <2>2 DEF Before
<1> HIDE DEF p
<1>5. ASSUME NEW i \in DOMAIN p
      PROVE  /\ p[i].kind # "head"
             /\ p[i].kind = "body" => p[i].n = d + i - Before(c)
             /\ c.complete => p[i].kind \notin {"body", "end"}
  <2>1. p[i].kind # "head"
    BY <1>2, <1>5 DEF InOrder
  <2>2. ASSUME p[i].kind = "body"
        PROVE  p[i].n = d + i - Before(c)
    <3>1. q[i + 1].n = b + (i + 1) - Before(r)
      BY <1>2, <1>5, <2>2 DEF InOrder
    <3>2. q[1].kind \in {"head", "body"}
      <4>1. q[1].kind \in {"end", "bad", "eof", "reset"} => i + 1 <= 1
        BY <1>1, <1>2, <1>5, <2>2 DEF InOrder
      <4>2. q[1] \in Ins
        BY <1>1
      <4>3. q[1].kind \in {"head", "body", "end", "bad", "eof", "reset"}
        BY <4>2 DEF Ins
      <4> QED BY <1>2, <1>5, <4>1, <4>3
    <3>3. d - Before(c) = b + 1 - Before(r)
      BY <1>3, <3>2 DEF Before
    <3>4. d \in Nat /\ Before(c) \in Nat /\ Before(r) \in Nat /\ i \in Nat
      BY <1>2, <1>5 DEF Before
    <3> DEFINE u == Before(r)
               v == Before(c)
    <3>5. d - v = b + 1 - u /\ d \in Nat /\ v \in Nat /\ u \in Nat /\ i \in Nat
      BY <3>3, <3>4
    <3> HIDE DEF u, v, d
    <3>6. \A b1, d1, u1, v1, i1 \in Int :
            d1 - v1 = b1 + 1 - u1 => b1 + (i1 + 1) - u1 = d1 + i1 - v1
      OBVIOUS
    <3>7. b \in Int /\ d \in Int /\ u \in Int /\ v \in Int /\ i \in Int
      BY <3>5
    <3>8. b + (i + 1) - u = d + i - v
      BY <3>5, <3>6, <3>7
    <3> QED BY <1>2, <1>5, <3>1, <3>8 DEF u, v
  <2>3. c.complete => p[i].kind \notin {"body", "end"}
    <3>1. r.complete => q[i + 1].kind \notin {"body", "end"}
      BY <1>2, <1>5 DEF InOrder
    <3>2. q[1].kind = "end" => q[i + 1].kind \notin {"body", "end"}
      <4>1. q[1].kind = "end" /\ q[i + 1].kind \in {"end", "body"} => i + 1 <= 1
        BY <1>1, <1>2, <1>5 DEF InOrder
      <4> QED BY <1>2, <1>5, <4>1
    <3> QED BY <1>2, <1>5, <3>1, <3>2
  <2> QED BY <2>1, <2>2, <2>3
<1>6. ASSUME NEW i \in DOMAIN p, NEW j \in DOMAIN p,
             p[i].kind \in {"end", "bad", "eof", "reset"}, p[j].kind \in {"end", "body"}
      PROVE  j <= i
  <2>1. q[i + 1].kind \in {"end", "bad", "eof", "reset"} /\ q[j + 1].kind \in {"end", "body"}
    BY <1>2, <1>6
  <2>2. j + 1 <= i + 1
    BY <1>2, <1>6, <2>1 DEF InOrder
  <2> QED BY <1>2, <1>6, <2>2
<1>7. InOrder(c, p, d)
  BY <1>5, <1>6 DEF InOrder
<1> QED BY <1>1, <1>3, <1>4, <1>7 DEF p

\* Fields that matter to what is left are the same.
LEMMA OrderStays ==
  ASSUME NEW r, NEW c, NEW q, NEW b, InOrder(r, q, b), c.called = r.called, c.complete = r.complete
  PROVE  InOrder(c, q, b)
BY DEF InOrder, Before

\* After a part that ends the parsing, what has not been parsed is dropped.
LEMMA RestIsDropped ==
  ASSUME NEW r \in Requests, r.todo # <<>>, Head(r.todo).kind = "bad", NEW b \in Nat,
         InOrder(r, Left(r), b)
  PROVE  InOrder(r, r.input, b)
<1> DEFINE q == Left(r)
<1>1. /\ q \in Seq(Ins) /\ q # <<>> /\ q[1] = Head(r.todo) /\ r.todo \in Seq(Ins) /\ r.input \in Seq(Ins)
  BY LeftIs
<1>2. \A i \in DOMAIN r.input : Len(r.todo) + i \in DOMAIN q /\ q[Len(r.todo) + i] = r.input[i]
  <2>1. q = r.todo \o r.input
    BY DEF Left
  <2> HIDE DEF q
  <2> DEFINE x == r.todo
             y == r.input
  <2>2. x \in Seq(Ins) /\ y \in Seq(Ins) /\ q = x \o y
    BY <1>1, <2>1
  <2> HIDE DEF x, y
  <2>3. \A i \in DOMAIN y : Len(x) + i \in DOMAIN q /\ q[Len(x) + i] = y[i]
    BY <2>2
  <2> QED BY <2>3 DEF x, y
<1>a. r.called \in BOOLEAN
  BY LeftIs
<1> HIDE DEF q
<1>3. 1 \in DOMAIN q /\ r.called \in BOOLEAN
  BY <1>1, <1>a
<1>4. r.called
  BY <1>1, <1>3 DEF InOrder, q
<1>5. \A i \in DOMAIN q : i # 1 => q[i].kind \notin {"head", "body", "end"}
  <2>1. \A j \in DOMAIN q : q[j].kind \in {"end", "body"} => j <= 1
    BY <1>1, <1>3 DEF InOrder, q
  <2>2. \A j \in DOMAIN q : j <= 1 => j = 1
    BY <1>1
  <2> QED BY <2>1, <2>2 DEF InOrder, q
<1>6. \A i \in DOMAIN r.input : r.input[i].kind \notin {"head", "body", "end"}
  <2>1. \A i \in DOMAIN r.input : Len(r.todo) + i # 1
    BY <1>1
  <2> QED BY <1>2, <1>5, <2>1
<1> QED BY <1>4, <1>6 DEF InOrder

Joined(x, y, z) ==
  /\ Len(z) = Len(x) + Len(y) /\ Len(x) \in Nat /\ Len(y) \in Nat
  /\ \A i \in 1..Len(x) : z[i] = x[i]
  /\ \A i \in 1..Len(y) : z[Len(x) + i] = y[i]
  /\ \A i \in 1..Len(z) : i \in 1..Len(x) \/ (i - Len(x) \in 1..Len(y) /\ Len(x) + (i - Len(x)) = i)

\* Two sequences, one behind the other; and a sequence of one.
LEMMA ConcatIs ==
  ASSUME NEW S, NEW x \in Seq(S), NEW y \in Seq(S)
  PROVE  x \o y \in Seq(S) /\ Joined(x, y, x \o y)
BY DEF Joined

LEMMA SingleIs ==
  ASSUME NEW S, NEW x \in S
  PROVE  <<x>> \in Seq(S) /\ Len(<<x>>) = 1 /\ <<x>>[1] = x
OBVIOUS

\* What a peer sends is in order.
LEMMA InputIsInOrder ==
  ASSUME HttpConstants, NEW q \in Srv!Inputs, NEW r \in Requests, ~r.called, ~r.complete
  PROVE  q \in Seq(Ins) /\ InOrder(r, q, 0)
<1>0. Body \in Nat
  BY DEF HttpConstants, Srv!HttpAssumption
<1> DEFINE x == <<Srv!Item("head", 0)>>
           p == Srv!Pieces(Body)
           a == x \o p
           I(k) == [kind |-> k, n |-> 0]
<1>1. \A k \in {"head", "end", "bad", "eof", "reset"} :
        Srv!Item(k, 0) \in Ins /\ Srv!Item(k, 0).kind = k
  BY <1>0 DEF Ins, Srv!Item
<1>2. p \in Seq(Ins) /\ Len(p) = Body /\ \A k \in 1..Body : p[k].kind = "body" /\ p[k].n = k
  <2>1. \A k \in 1..Body : Srv!Item("body", k) \in Ins /\ Srv!Item("body", k).kind = "body" /\ Srv!Item("body", k).n = k
    BY <1>0 DEF Ins, Srv!Item
  <2>2. p = [k \in 1..Body |-> Srv!Item("body", k)]
    BY DEF Srv!Pieces
  <2> QED BY <1>0, <2>1, <2>2
<1> HIDE DEF p
<1>3. a \in Seq(Ins) /\ Len(a) = Body + 1 /\ a[1].kind = "head"
      /\ \A k \in 2..(Body + 1) : a[k].kind = "body" /\ a[k].n = k - 1
  <2>1. x \in Seq(Ins) /\ Len(x) = 1 /\ x[1].kind = "head"
    BY <1>1, SingleIs
  <2> HIDE DEF x
  <2>a. /\ a \in Seq(Ins) /\ Len(a) = Len(x) + Len(p)
        /\ \A i \in 1..Len(x) : a[i] = x[i]
        /\ \A i \in 1..Len(p) : a[Len(x) + i] = p[i]
    <3>1. a \in Seq(Ins) /\ Joined(x, p, a)
      BY <1>2, <2>1, ConcatIs
    <3> HIDE DEF a
    <3> QED BY <3>1 DEF Joined
  <2> HIDE DEF a
  <2>2. a \in Seq(Ins) /\ Len(a) = Body + 1 /\ a[1] = x[1]
    BY <1>0, <1>2, <2>1, <2>a
  <2>3. \A k \in 2..(Body + 1) : a[k] = p[k - 1] /\ k - 1 \in 1..Body
    <3>1. \A k \in 2..(Body + 1) : k - 1 \in 1..Body /\ 1 + (k - 1) = k
      BY <1>0
    <3> QED BY <1>2, <2>1, <2>a, <3>1
  <2> QED BY <1>2, <2>1, <2>2, <2>3
<1> DEFINE T == {<<Srv!Item("end", 0), Srv!Item("eof", 0)>>, <<Srv!Item("end", 0), Srv!Item("reset", 0)>>,
                 <<Srv!Item("bad", 0), Srv!Item("eof", 0)>>, <<Srv!Item("eof", 0)>>}
<1>4. PICK t \in T : q = a \o t
  <2>1. \E t \in T : q = <<Srv!Item("head", 0)>> \o Srv!Pieces(Body) \o t
    BY DEF Srv!Inputs
  <2> HIDE DEF T
  <2> QED BY <2>1 DEF a, p
<1> HIDE DEF a
<1>5. t \in Seq(Ins) /\ \A k \in DOMAIN t : t[k].kind \notin {"head", "body"} /\ (t[k].kind = "end" => k = 1)
  <2>1. \A u, v \in Ins : <<u, v>> \in Seq(Ins) /\ Len(<<u, v>>) = 2 /\ <<u, v>>[1] = u /\ <<u, v>>[2] = v
    OBVIOUS
  <2>2. \A u \in Ins : <<u>> \in Seq(Ins) /\ Len(<<u>>) = 1 /\ <<u>>[1] = u
    OBVIOUS
  <2> DEFINE f == Srv!Item("end", 0)
             g == Srv!Item("bad", 0)
             l == Srv!Item("eof", 0)
             o == Srv!Item("reset", 0)
  <2>3. /\ f \in Ins /\ g \in Ins /\ l \in Ins /\ o \in Ins
        /\ f.kind = "end" /\ g.kind = "bad" /\ l.kind = "eof" /\ o.kind = "reset"
    BY <1>1
  <2>4. t \in {<<f, l>>, <<f, o>>, <<g, l>>, <<l>>}
    BY <1>4
  <2> HIDE DEF f, g, l, o, T
  <2>5. \A u, v \in Ins : t = <<u, v>> /\ u.kind \notin {"head", "body"} /\ v.kind \notin {"head", "body", "end"} =>
          t \in Seq(Ins) /\ \A k \in DOMAIN t : t[k].kind \notin {"head", "body"} /\ (t[k].kind = "end" => k = 1)
    <3> SUFFICES ASSUME NEW u \in Ins, NEW v \in Ins, t = <<u, v>>, u.kind \notin {"head", "body"},
                        v.kind \notin {"head", "body", "end"}, t \in Seq(Ins), Len(t) = 2, NEW k \in DOMAIN t
                 PROVE  t[k].kind \notin {"head", "body"} /\ (t[k].kind = "end" => k = 1)
      BY <2>1
    <3>1. t[1] = u /\ t[2] = v
      BY <2>1
    <3>2. k = 1 \/ k = 2
      OBVIOUS
    <3> QED BY <3>1, <3>2
  <2>6. t = <<l>> => t \in Seq(Ins) /\ \A k \in DOMAIN t : t[k].kind \notin {"head", "body"} /\ (t[k].kind = "end" => k = 1)
    BY <2>2, <2>3
  <2> QED BY <2>3, <2>4, <2>5, <2>6
<1>b. /\ q \in Seq(Ins) /\ Len(q) = Len(a) + Len(t) /\ Len(t) \in Nat
      /\ \A i \in 1..Len(a) : q[i] = a[i]
      /\ \A i \in 1..Len(t) : q[Len(a) + i] = t[i]
      /\ \A i \in 1..Len(q) : i \in 1..Len(a) \/ (i - Len(a) \in 1..Len(t) /\ Len(a) + (i - Len(a)) = i)
  <2> HIDE DEF T
  <2>1. q \in Seq(Ins) /\ Joined(a, t, q)
    BY <1>3, <1>4, <1>5, ConcatIs
  <2> QED BY <2>1 DEF Joined
<1> HIDE DEF T
<1>6. q \in Seq(Ins) /\ Len(q) = Body + 1 + Len(t) /\ Len(t) \in Nat
  BY <1>0, <1>3, <1>b
<1>7. ASSUME NEW k \in DOMAIN q
      PROVE  /\ k \in Nat
             /\ q[k].kind = "head" <=> k = 1
             /\ q[k].kind = "body" => q[k].n = k - 1
             /\ q[k].kind \in {"end", "body"} => k <= Body + 2
             /\ q[k].kind \in {"end", "bad", "eof", "reset"} => k > Body + 1
  <2>0. k \in 1..(Body + 1 + Len(t))
    BY <1>6
  <2>1. CASE k <= Body + 1
    <3>1. q[k] = a[k]
      BY <1>0, <1>3, <1>b, <2>0, <2>1
    <3>2. k = 1 \/ k \in 2..(Body + 1)
      BY <1>0, <2>0, <2>1
    <3>3. k = 1 => q[k].kind = "head"
      BY <1>3, <3>1
    <3>4. k # 1 => q[k].kind = "body" /\ q[k].n = k - 1
      BY <1>3, <3>1, <3>2
    <3>5. k <= Body + 2 /\ ~(k > Body + 1) /\ k \in Nat
      BY <1>0, <2>0, <2>1
    <3> QED BY <3>3, <3>4, <3>5
  <2>2. CASE ~(k <= Body + 1)
    <3>a. Len(a) = Body + 1 /\ k \in 1..Len(q) /\ k \notin 1..Len(a)
      BY <1>0, <1>3, <1>6, <2>0, <2>2
    <3>b. k - Len(a) \in 1..Len(t) /\ Len(a) + (k - Len(a)) = k
      BY <1>b, <3>a
    <3>c. q[Len(a) + (k - Len(a))] = t[k - Len(a)] /\ DOMAIN t = 1..Len(t)
      BY <1>5, <1>b, <3>b
    <3>1. q[k] = t[k - (Body + 1)] /\ k - (Body + 1) \in DOMAIN t
      BY <3>a, <3>b, <3>c
    <3>2. q[k].kind \notin {"head", "body"} /\ (q[k].kind = "end" => k - (Body + 1) = 1)
      BY <1>5, <3>1
    <3>3. k # 1 /\ k > Body + 1 /\ (k - (Body + 1) = 1 => k <= Body + 2) /\ k \in Nat
      BY <1>0, <2>0, <2>2
    <3> QED BY <3>2, <3>3
  <2> QED BY <2>1, <2>2
<1>8. \A i, j \in DOMAIN q :
        q[i].kind \in {"end", "bad", "eof", "reset"} /\ q[j].kind \in {"end", "body"} => j <= i
  <2> SUFFICES ASSUME NEW i \in DOMAIN q, NEW j \in DOMAIN q,
                 q[i].kind \in {"end", "bad", "eof", "reset"}, q[j].kind \in {"end", "body"}
               PROVE  j <= i
    OBVIOUS
  <2>1. i \in Nat /\ j \in Nat /\ j <= Body + 2 /\ i > Body + 1
    BY <1>7
  <2> QED BY <1>0, <2>1
<1>9. \A k \in DOMAIN q : q[k].kind = "body" => q[k].n = 0 + k - Before(r)
  <2> SUFFICES ASSUME NEW k \in DOMAIN q, q[k].kind = "body"
               PROVE  q[k].n = 0 + k - Before(r)
    OBVIOUS
  <2>1. q[k].n = k - 1 /\ k \in Nat /\ Before(r) = 1
    BY <1>7 DEF Before
  <2> QED BY <2>1
<1> QED BY <1>6, <1>7, <1>8, <1>9 DEF InOrder

\* What the listeners have heard does not change.
LEMMA StillListened ==
  ASSUME NEW r, NEW c, NEW h, NEW a, Listened(r, h, a), c.complete = r.complete, c.end = r.end,
         c.buffered = r.buffered, c.data = r.data, r.called => c.called
  PROVE  Listened(c, h, a)
BY DEF Listened

\* A piece of the body is heard, or buffered.
LEMMA PieceIsHeard ==
  ASSUME NEW r \in Requests, NEW h \in Seq(0..Body), NEW a \in Nat, Listened(r, h, a),
         a + Len(r.buffered) + 1 \in 1..Body, ~r.complete, r.data,
         NEW c \in Requests, c.called, ~c.complete, c.end = r.end, c.data = r.data, c.buffered = r.buffered,
         NEW n, n = a + Len(r.buffered) + 1
  PROVE  Append(h, n) \in Seq(0..Body) /\ Listened(c, Append(h, n), a + 1) /\ r.buffered = <<>>
<1>1. Len(h) = a /\ \A i \in 1..a : h[i] = i
  BY DEF Listened
<1>2. r.buffered = <<>> /\ n = a + 1 /\ n \in 0..Body
  BY DEF Listened
<1> DEFINE k == Append(h, a + 1)
<1>3. k \in Seq(0..Body) /\ Len(k) = a + 1 /\ \A i \in 1..(a + 1) : k[i] = i
  BY <1>1, <1>2
<1> HIDE DEF k
<1>4. Listened(c, k, a + 1)
  <2>1. c.buffered = <<>> /\ a + 1 # a + 1 + 1
    BY <1>2
  <2> QED BY <1>3, <2>1 DEF Listened
<1> QED BY <1>2, <1>3, <1>4 DEF k

\* A piece that comes before its listener waits in the buffer.
LEMMA PieceIsKept ==
  ASSUME NEW r \in Requests, NEW h \in Seq(0..Body), NEW a \in Nat, Listened(r, h, a),
         ~r.complete, ~r.data,
         NEW c \in Requests, c.called, ~c.complete, c.end = r.end, c.data = r.data,
         NEW n \in 1..Body, n = a + Len(r.buffered) + 1, c.buffered = Append(r.buffered, n)
  PROVE  Listened(c, h, a) /\ n = a + Len(c.buffered)
<1>0. r.buffered \in Seq(1..Body)
  BY LeftIs
<1>1. Len(h) = a /\ (\A i \in 1..a : h[i] = i) /\ \A i \in DOMAIN r.buffered : r.buffered[i] = a + i
  BY DEF Listened
<1> DEFINE w == r.buffered
           v == Append(w, n)
<1>2. w \in Seq(1..Body) /\ (\A i \in DOMAIN w : w[i] = a + i) /\ n = a + Len(w) + 1 /\ Len(w) \in Nat
  BY <1>0, <1>1
<1> HIDE DEF w
<1>3. v \in Seq(1..Body) /\ Longer(w, n, v)
  BY <1>2, AppendIsLonger
<1>4. c.buffered = v
  BY DEF w
<1> HIDE DEF v
<1>5. \A i \in DOMAIN v : i \in Nat /\ (i \in DOMAIN w \/ i = Len(w) + 1)
  BY <1>2, <1>3 DEF Longer
<1>6. n = a + (Len(w) + 1) /\ a # a + 1
  BY <1>2
<1>7. \A i \in DOMAIN v : v[i] = a + i
  BY <1>2, <1>3, <1>5, <1>6 DEF Longer
<1>8. n = a + Len(v)
  BY <1>2, <1>3 DEF Longer
<1> QED BY <1>1, <1>4, <1>6, <1>7, <1>8 DEF Listened

\* The message is complete, or an end listener comes.
LEMMA EndIsHeard ==
  ASSUME NEW r \in Requests, NEW h \in Seq(0..Body), NEW a \in Nat, Listened(r, h, a), 0 \in 0..Body,
         NEW c \in Requests, c.called, c.data = r.data, c.buffered = r.buffered,
         r.complete => c.complete, r.end => c.end, ~(r.complete /\ r.end)
  PROVE  /\ c.complete /\ c.end =>
              Append(h, 0) \in Seq(0..Body) /\ Listened(c, Append(h, 0), a)
         /\ ~(c.complete /\ c.end) \/ c.buffered # <<>> => Listened(c, h, a)
<1>1. Len(h) = a /\ \A i \in 1..a : h[i] = i
  BY DEF Listened
<1>2. a # a + 1
  OBVIOUS
<1>3. Append(h, 0) \in Seq(0..Body) /\ Len(Append(h, 0)) = a + 1 /\ Append(h, 0)[a + 1] = 0
      /\ \A i \in 1..a : Append(h, 0)[i] = i
  BY <1>1
<1>4. /\ \A i \in DOMAIN r.buffered : r.buffered[i] = a + i
      /\ r.data => r.buffered = <<>>
  BY DEF Listened
<1> DEFINE k == Append(h, 0)
<1> HIDE DEF k
<1>5. c.complete /\ c.end => Listened(c, k, a)
  BY <1>3, <1>4 DEF Listened, k
<1>6. ~(c.complete /\ c.end) \/ c.buffered # <<>> => Listened(c, h, a)
  BY <1>1, <1>2, <1>4 DEF Listened
<1> QED BY <1>3, <1>5, <1>6 DEF k

\* A data listener is told what waits, and the end if that was told to nobody.
LEMMA BufferIsHeard ==
  ASSUME Body \in Nat, NEW r \in Requests, NEW h \in Seq(0..Body), NEW a \in Nat, Listened(r, h, a), a + Len(r.buffered) \in 0..Body,
         ~(r.complete /\ r.buffered # <<>> /\ Len(h) = a + 1), r.called,
         NEW c \in Requests, c.called, c.data, c.buffered = <<>>, c.complete = r.complete, c.end = r.end
  PROVE  LET k == h \o r.buffered
                 \o IF r.buffered # <<>> /\ r.complete /\ r.end THEN <<0>> ELSE <<>> IN
         k \in Seq(0..Body) /\ Listened(c, k, a + Len(r.buffered)) /\ a + Len(r.buffered) = a + Len(r.buffered) + Len(c.buffered)
<1> DEFINE w == r.buffered
           z == IF w # <<>> /\ r.complete /\ r.end THEN <<0>> ELSE <<>>
           reach == a + Len(w)
           m == h \o w
           k == m \o z
<1>0. w \in Seq(1..Body) /\ w \in Seq(0..Body) /\ Len(w) \in Nat
  <2>1. w \in Seq(1..Body)
    BY LeftIs
  <2> HIDE DEF w
  <2> QED BY <2>1
<1>1. z \in Seq(0..Body) /\ Len(z) \in {0, 1} /\ (Len(z) = 1 => z[1] = 0 /\ w # <<>> /\ r.complete /\ r.end)
      /\ (Len(z) = 0 => ~(w # <<>> /\ r.complete /\ r.end))
  <2>1. <<0>> \in Seq(0..Body) /\ Len(<<0>>) = 1 /\ <<0>>[1] = 0
    BY SingleIs
  <2>2. <<>> \in Seq(0..Body) /\ Len(<<>>) = 0
    OBVIOUS
  <2>3. CASE w # <<>> /\ r.complete /\ r.end
    <3>1. z = <<0>>
      BY <2>3
    <3> HIDE DEF z, w
    <3> QED BY <2>1, <2>3, <3>1
  <2>4. CASE ~(w # <<>> /\ r.complete /\ r.end)
    <3>1. z = <<>>
      BY <2>4
    <3> HIDE DEF z, w
    <3> QED BY <2>2, <2>4, <3>1
  <2> QED BY <2>3, <2>4
<1>2. \A i \in DOMAIN w : w[i] = a + i
  BY DEF Listened
<1>a. w # <<>> => Len(h) = a
  BY DEF Listened
<1> HIDE DEF w, z
<1>3. /\ m \in Seq(0..Body) /\ Len(m) = Len(h) + Len(w)
      /\ (\A i \in DOMAIN h : m[i] = h[i])
      /\ (\A i \in DOMAIN w : m[Len(h) + i] = w[i])
  BY <1>0
<1> HIDE DEF m
<1>b. \A i \in 1..Len(m) : i \in DOMAIN m
  BY <1>3
<1>4. /\ k \in Seq(0..Body) /\ Len(k) = Len(m) + Len(z) /\ (\A i \in DOMAIN m : k[i] = m[i])
      /\ (Len(z) = 1 => k[Len(m) + 1] = z[1])
  <2>1. /\ k \in Seq(0..Body) /\ Len(k) = Len(m) + Len(z)
        /\ (\A i \in 1..Len(m) : k[i] = m[i]) /\ (\A i \in 1..Len(z) : k[Len(m) + i] = z[i])
    <3>1. k \in Seq(0..Body) /\ Joined(m, z, k)
      BY <1>1, <1>3, ConcatIs
    <3> HIDE DEF k
    <3> QED BY <3>1 DEF Joined
  <2>2. DOMAIN m = 1..Len(m) /\ (Len(z) = 1 => 1 \in 1..Len(z))
    BY <1>1, <1>3
  <2> HIDE DEF k
  <2> QED BY <2>1, <2>2
<1> HIDE DEF k
<1>5. c.buffered = <<>> /\ Len(c.buffered) = 0 /\ DOMAIN c.buffered = {}
  OBVIOUS
<1>6. CASE w = <<>>
  <2>1. Len(w) = 0 /\ Len(z) = 0 /\ reach = a
    BY <1>1, <1>6
  <2>2. k = h
    <3>1. Len(k) = Len(m) /\ Len(m) = Len(h) /\ Len(h) \in Nat /\ DOMAIN m = 1..Len(h) /\ DOMAIN h = 1..Len(h)
      BY <1>3, <1>4, <2>1
    <3>2. Len(k) = Len(h) /\ \A i \in 1..Len(h) : k[i] = h[i]
      BY <1>3, <1>4, <3>1
    <3> QED BY <1>4, <3>2, SeqEqual
  <2>3. r.complete /\ r.end => Len(h) = a + 1
    BY <1>6 DEF Listened, w
  <2>4. Listened(c, h, a)
    BY <1>5, <2>3 DEF Listened
  <2> QED BY <1>4, <1>5, <2>1, <2>2, <2>4 DEF k, m, z, w
<1>7. CASE w # <<>>
  <2>1. Len(h) = a /\ \A i \in 1..a : h[i] = i
    BY <1>a, <1>7 DEF Listened
  <2>2. Len(m) = reach /\ \A i \in 1..reach : m[i] = i
    <3>1. Len(m) = reach /\ reach \in Nat
      BY <1>0, <1>3, <2>1
    <3>2. ASSUME NEW i \in 1..reach
          PROVE  m[i] = i
      <4>1. CASE i <= a
        <5>1. i \in DOMAIN h /\ i \in 1..a
          BY <2>1, <4>1
        <5> QED BY <1>3, <2>1, <5>1
      <4>2. CASE ~(i <= a)
        <5>1. i - a \in DOMAIN w /\ a + (i - a) = i
          BY <1>0, <4>2
        <5> QED BY <1>2, <1>3, <2>1, <5>1
      <4> QED BY <4>1, <4>2
    <3> QED BY <3>1, <3>2
  <2>3. reach \in Nat /\ reach # reach + 1 /\ DOMAIN m = 1..reach
    <3>1. reach # reach + 1 /\ reach \in Nat
      BY <1>0
    <3> HIDE DEF reach
    <3> QED BY <1>3, <2>2, <3>1
  <2> HIDE DEF reach
  <2>4. Len(k) = reach + Len(z) /\ (\A i \in 1..reach : k[i] = i) /\ (Len(z) = 1 => k[reach + 1] = 0)
    BY <1>1, <1>4, <2>2, <2>3
  <2>5. Len(k) \in {reach, reach + 1} /\ (Len(k) = reach + 1 <=> Len(z) = 1)
    <3>1. CASE Len(z) = 1
      BY <2>3, <2>4, <3>1
    <3>2. CASE Len(z) = 0
      BY <2>3, <2>4, <3>2
    <3> QED BY <1>1, <3>1, <3>2
  <2>6. Listened(c, k, reach)
    BY <1>1, <1>5, <1>7, <2>4, <2>5 DEF Listened
  <2> QED BY <1>4, <1>5, <2>3, <2>6 DEF k, m, z, w, reach
<1> QED BY <1>6, <1>7

\* The invariant of the server is kept.
LEMMA ResponseMoves ==
  ASSUME ServerInv, req' = req, server' \in Servers, hs' \in Histories, hs'.heard = hs.heard,
         "late" \in hs.slips => "late" \in hs'.slips, code' \in {code, "loop", "script"},
         res' = res \/ res'.tcp # "none", Right(res', Len(hs'.given), hs'.slips),
         \A i \in DOMAIN hs'.given : hs'.given[i] = i
  PROVE  ServerInv'
<1>1. Heeded(req, hs.heard, hs.slips) => Heeded(req', hs'.heard, hs'.slips)
  BY DEF Heeded
<1>2. (res'.tcp = "none" => ~req'.called /\ Left(req') = <<>>)
  BY DEF ServerInv
<1>3. code' \in {"loop", "handler", "script"} /\ (code' = "handler" => req'.called)
  BY DEF ServerInv
<1> QED BY <1>1, <1>2, <1>3 DEF ServerInv

\* The request moves on, and what was heard of it; the response stays right.
LEMMA RequestMoves ==
  ASSUME ServerInv, server' = server, req' \in Requests, hs' \in Histories, hs'.given = hs.given,
         hs'.slips \in {hs.slips, hs.slips \cup {"late"}}, code' \in {"loop", "handler", "script"},
         code' = "handler" => req'.called, res'.tcp # "none",
         Right(res', Len(hs.given), hs.slips), Heeded(req', hs'.heard, hs'.slips)
  PROVE  ServerInv'
<1>1. Right(res', Len(hs'.given), hs'.slips)
  BY SlipsGrow
<1>2. \A i \in DOMAIN hs'.given : hs'.given[i] = i
  BY DEF ServerInv
<1> QED BY <1>1, <1>2 DEF ServerInv

\* A call of the script is counted.
LEMMA CountedIs ==
  ASSUME ServerInv, HttpConstants, Srv!HCall
  PROVE  /\ Srv!HCounted(hs) \in Histories /\ Srv!HCounted(hs).given = hs.given
         /\ Srv!HCounted(hs).heard = hs.heard /\ Srv!HCounted(hs).slips = hs.slips
<1>1. hs \in Histories /\ hs.calls \in 0..HttpCalls /\ hs.calls < HttpCalls /\ HttpCalls \in Nat
  BY DEF ServerInv, Srv!HCall, HttpConstants, Srv!HttpAssumption, Histories
<1>2. hs.calls + 1 \in 0..HttpCalls
  BY <1>1
<1> QED BY <1>1, <1>2 DEF Histories, Srv!HCounted

\* A chunk more was given.
LEMMA GivenGrows ==
  ASSUME ServerInv
  PROVE  LET g == Len(hs.given)
             q == Append(hs.given, g + 1) IN
         /\ g \in Nat /\ q \in Seq(Nat) /\ Len(q) = g + 1 /\ \A i \in DOMAIN q : q[i] = i
<1> DEFINE w == hs.given
           q == Append(w, Len(w) + 1)
<1>1. w \in Seq(Nat) /\ \A i \in DOMAIN w : w[i] = i
  BY DEF ServerInv, Histories
<1> HIDE DEF w
<1>2. Len(w) + 1 \in Nat /\ Len(w) \in Nat
  BY <1>1
<1>3. q \in Seq(Nat) /\ Longer(w, Len(w) + 1, q)
  BY <1>1, <1>2, AppendIsLonger
<1> HIDE DEF q
<1>4. \A i \in DOMAIN q : i \in DOMAIN w \/ i = Len(w) + 1
  BY <1>1, <1>3 DEF Longer
<1> QED BY <1>1, <1>2, <1>3, <1>4 DEF Longer, w, q

\* The objects of a request belong to a connection.
LEMMA Connected ==
  ASSUME ServerInv, Srv!HasRequest
  PROVE  /\ res.tcp # "none" /\ req.called /\ Len(hs.given) \in Nat
         /\ Right(res, Len(hs.given), hs.slips) /\ res \in Responses
BY GivenGrows DEF ServerInv, Srv!HasRequest, Right

\* One lemma for each call and callback: ServerInv holds after it. response.write.
LEMMA WriteKeeps ==
  ASSUME ServerInv, HttpConstants, Srv!Write
  PROVE  ServerInv'
<1> DEFINE g == Len(hs.given)
           q == Append(hs.given, g + 1)
           h == Srv!HCounted(hs)
<1>1. /\ Srv!HCall /\ Srv!HasRequest /\ server' = server /\ req' = req /\ code' = code
      /\ IF Srv!Refuses(res) THEN hs' = h /\ res' = res
         ELSE /\ res' = Srv!WriteChunk(res, g + 1)
              /\ hs' = [h EXCEPT !.given = Append(@, g + 1)]
  BY DEF Srv!Write
<1>2. h \in Histories /\ h.given = hs.given /\ h.heard = hs.heard /\ h.slips = hs.slips
  BY <1>1, CountedIs
<1>3. g \in Nat /\ q \in Seq(Nat) /\ Len(q) = g + 1 /\ \A i \in DOMAIN q : q[i] = i
  BY GivenGrows
<1>4. res.tcp # "none" /\ Right(res, g, hs.slips) /\ \A i \in DOMAIN hs.given : hs.given[i] = i
  BY <1>1, Connected DEF ServerInv
<1> HIDE DEF h, g, q
<1>5. CASE Srv!Refuses(res)
  <2>1. Right(res', Len(hs'.given), hs'.slips)
    BY <1>1, <1>2, <1>4, <1>5 DEF g
  <2> QED BY <1>1, <1>2, <1>4, <1>5, <2>1, ResponseMoves DEF ServerInv
<1>6. CASE ~Srv!Refuses(res)
  <2>1. Right(res', g + 1, hs.slips) /\ res'.tcp = res.tcp
    BY <1>1, <1>3, <1>4, <1>6, WriteIsRight
  <2>2. hs' = [h EXCEPT !.given = q]
    BY <1>1, <1>2, <1>6 DEF q
  <2>3. hs' \in Histories /\ hs'.given = q /\ hs'.heard = hs.heard /\ hs'.slips = hs.slips
    BY <1>2, <1>3, <2>2 DEF Histories
  <2>4. Right(res', Len(hs'.given), hs'.slips)
    BY <1>3, <2>1, <2>3
  <2> QED BY <1>1, <1>3, <1>4, <2>1, <2>3, <2>4, ResponseMoves DEF ServerInv
<1> QED BY <1>5, <1>6

\* response.end.
LEMMA EndKeeps ==
  ASSUME ServerInv, HttpConstants, Srv!EndCall
  PROVE  ServerInv'
<1> DEFINE g == Len(hs.given)
           q == Append(hs.given, g + 1)
           h == Srv!HCounted(hs)
<1>1. /\ Srv!HCall /\ Srv!HasRequest /\ server' = server /\ req' = req /\ code' = code
  BY DEF Srv!EndCall
<1>2. h \in Histories /\ h.given = hs.given /\ h.heard = hs.heard /\ h.slips = hs.slips
  BY <1>1, CountedIs
<1>3. g \in Nat /\ q \in Seq(Nat) /\ Len(q) = g + 1 /\ \A i \in DOMAIN q : q[i] = i
  BY GivenGrows
<1>4. res.tcp # "none" /\ Right(res, g, hs.slips) /\ \A i \in DOMAIN hs.given : hs.given[i] = i
  BY <1>1, Connected DEF ServerInv
<1>5. PICK d \in {0, g + 1} :
        /\ res' = Srv!EndResponse(res, d)
        /\ hs' = [h EXCEPT
             !.given = IF d = 0 \/ Srv!Refuses(res) THEN @ ELSE Append(@, g + 1),
             !.slips = IF ~Srv!Refuses(res) /\ Srv!InFlight(res) /\ (d # 0 \/ res.queue # <<>>)
                       THEN @ \cup {"cut"} ELSE @]
  BY DEF Srv!EndCall
<1> DEFINE w == IF d = 0 \/ Srv!Refuses(res) THEN hs.given ELSE q
           cut == ~Srv!Refuses(res) /\ Srv!InFlight(res) /\ (d # 0 \/ res.queue # <<>>)
           sl == IF cut THEN hs.slips \cup {"cut"} ELSE hs.slips
<1>6. hs' = [h EXCEPT !.given = w, !.slips = sl]
  BY <1>2, <1>5
<1>7. w \in Seq(Nat) /\ Len(w) = (IF d = 0 \/ Srv!Refuses(res) THEN g ELSE g + 1)
      /\ \A i \in DOMAIN w : w[i] = i
  <2>1. hs.given \in Seq(Nat)
    BY DEF ServerInv, Histories
  <2> QED BY <1>3, <1>4, <2>1
<1>8. sl \in SUBSET {"cut", "file", "late"} /\ hs.slips \subseteq sl /\ (cut => "cut" \in sl)
  BY DEF ServerInv, Histories
<1> HIDE DEF w, sl, h
<1>9. hs' \in Histories /\ hs'.given = w /\ hs'.heard = hs.heard /\ hs'.slips = sl
  BY <1>2, <1>6, <1>7, <1>8 DEF Histories
<1> HIDE DEF q
<1>10. Right(res, g, sl)
  BY <1>4, <1>8, SlipsGrow
<1> HIDE DEF g
<1>11. LET t == Srv!EndResponse(res, d) IN
         /\ Right(t, IF d = 0 \/ Srv!Refuses(res) THEN g ELSE g + 1, sl)
         /\ t.tcp # "none"
  <2> HIDE DEF cut
  <2>1. ~Srv!Refuses(res) /\ Srv!InFlight(res) /\ (d # 0 \/ res.queue # <<>>) => "cut" \in sl
    BY <1>8 DEF cut
  <2> QED BY <1>3, <1>4, <1>5, <1>10, <2>1, EndIsRight
<1>12. Right(res', Len(hs'.given), hs'.slips) /\ res'.tcp # "none"
  BY <1>5, <1>7, <1>9, <1>11
<1>13. server' \in Servers
  BY <1>1 DEF ServerInv
<1> QED BY <1>1, <1>7, <1>8, <1>9, <1>12, <1>13, ResponseMoves

\* A handler throws.
LEMMA ThrowKeeps ==
  ASSUME ServerInv, HttpConstants, Srv!Throw
  PROVE  ServerInv'
<1> DEFINE g == Len(hs.given)
           q == Append(hs.given, g + 1)
<1>1. server' = server /\ req' = req /\ code' = "loop" /\ code = "handler"
  BY DEF Srv!Throw
<1>2. g \in Nat /\ q \in Seq(Nat) /\ Len(q) = g + 1 /\ \A i \in DOMAIN q : q[i] = i
  BY GivenGrows
<1>3. hs \in Histories /\ server' \in Servers /\ Right(res, g, hs.slips) /\ res.tcp # "none" /\ \A i \in DOMAIN hs.given : hs.given[i] = i
  BY <1>1 DEF ServerInv
<1>4. CASE res' = res /\ hs' = hs
  BY <1>1, <1>3, <1>4, ResponseMoves
<1>5. CASE /\ res.head = "none" /\ ~res.finished /\ res' = Srv!EndResponse(res, g + 1)
           /\ hs' = [hs EXCEPT !.given = IF Srv!Refuses(res) THEN @ ELSE Append(@, g + 1)]
  <2>1. res.pending = 0 /\ res.queue = <<>> /\ ~res.finished /\ ~res.file
    BY <1>3, <1>5 DEF Right, InLine
  <2>2. ~Srv!InFlight(res) /\ ~Srv!Refuses(res)
    BY <2>1 DEF Srv!InFlight, Srv!Refuses
  <2> HIDE DEF g
  <2>3. g + 1 # 0
    BY <1>2
  <2>4. Right(res', g + 1, hs.slips) /\ res'.tcp # "none"
    BY <1>2, <1>3, <1>5, <2>2, <2>3, EndIsRight
  <2>5. hs' = [hs EXCEPT !.given = q]
    BY <1>5, <2>2 DEF q
  <2> HIDE DEF q
  <2>6. hs' \in Histories /\ hs'.given = q /\ hs'.heard = hs.heard /\ hs'.slips = hs.slips
    BY <1>2, <1>3, <2>5 DEF Histories
  <2> QED BY <1>1, <1>2, <1>3, <2>4, <2>6, ResponseMoves
<1> QED BY <1>4, <1>5 DEF Srv!Throw

\* response.sendFile.
LEMMA SendFileKeeps ==
  ASSUME ServerInv, HttpConstants, Srv!SendFileCall
  PROVE  ServerInv'
<1> DEFINE g == Len(hs.given)
           h == Srv!HCounted(hs)
           over == res.queue # <<>> \/ res.length \/ res.file \/ res.finished
           sl == IF over THEN hs.slips \cup {"file"} ELSE hs.slips
<1>1. /\ Srv!HCall /\ Srv!HasRequest /\ server' = server /\ req' = req /\ code' = code
      /\ hs' = [h EXCEPT !.slips = IF over THEN @ \cup {"file"} ELSE @]
  BY DEF Srv!SendFileCall
<1>2. h \in Histories /\ h.given = hs.given /\ h.heard = hs.heard /\ h.slips = hs.slips
  BY <1>1, CountedIs
<1>3. PICK k \in 0..FileChunks : res' = Srv!SendFile(res, k)
  BY DEF Srv!SendFileCall
<1>4. res.tcp # "none" /\ Right(res, g, hs.slips) /\ g \in Nat /\ \A i \in DOMAIN hs.given : hs.given[i] = i
  BY <1>1, Connected DEF ServerInv
<1>5. hs' = [h EXCEPT !.slips = sl]
  BY <1>1, <1>2
<1>6. sl \in SUBSET {"cut", "file", "late"} /\ hs.slips \subseteq sl /\ ("file" \notin sl => ~over)
  BY DEF ServerInv, Histories
<1> HIDE DEF h, sl
<1>7. hs' \in Histories /\ hs'.given = hs.given /\ hs'.heard = hs.heard /\ hs'.slips = sl
  BY <1>2, <1>5, <1>6 DEF Histories
<1>8. Right(res, g, sl)
  BY <1>4, <1>6, SlipsGrow
<1>9. k \in Nat /\ server' \in Servers
  BY <1>1, <1>3 DEF HttpConstants, Srv!HttpAssumption, ServerInv
<1> HIDE DEF g
<1>10. Right(Srv!SendFile(res, k), g, sl) /\ Srv!SendFile(res, k).tcp # "none"
  BY <1>4, <1>6, <1>8, <1>9, SendIsRight
<1> QED BY <1>1, <1>3, <1>4, <1>6, <1>7, <1>9, <1>10, ResponseMoves DEF g

\* Steps that change neither the response nor the request.
LEMMA QuietCalls ==
  ASSUME ServerInv, HttpConstants,
         Srv!Listen \/ Srv!CloseServer \/ Srv!ServerTask \/ Srv!Return \/ Srv!OtherTask
  PROVE  ServerInv'
<1>1. req' = req /\ res' = res
  BY DEF Srv!Listen, Srv!CloseServer, Srv!ServerTask, Srv!Return, Srv!OtherTask
<1>2. server' \in Servers
  <2>1. server \in Servers /\ server.tasks \in Seq({"listen", "close"})
    BY DEF ServerInv, Servers
  <2>2. \A x \in {"listen", "close"} : Append(server.tasks, x) \in Seq({"listen", "close"})
    BY <2>1
  <2>3. CASE Srv!Listen
    <3>1. server' = [server EXCEPT !.tasks = Append(@, "listen"), !.listened = TRUE]
      BY <2>3 DEF Srv!Listen
    <3>2. Append(server.tasks, "listen") \in Seq({"listen", "close"})
      BY <2>2
    <3> QED BY <2>1, <3>1, <3>2 DEF Servers
  <2>4. CASE Srv!CloseServer
    <3>1. server' = [server EXCEPT !.tasks = Append(@, "close"), !.closed = TRUE]
      BY <2>4 DEF Srv!CloseServer
    <3>2. Append(server.tasks, "close") \in Seq({"listen", "close"})
      BY <2>2
    <3> QED BY <2>1, <3>1, <3>2 DEF Servers
  <2>5. CASE Srv!ServerTask
    <3> DEFINE k == IF Head(server.tasks) = "listen" THEN "open"
                    ELSE IF server.handle = "open" THEN "closed" ELSE server.handle
    <3>1. server.tasks # <<>> /\ server' = [server EXCEPT !.tasks = Tail(@), !.handle = k]
      BY <2>5 DEF Srv!ServerTask
    <3>2. Tail(server.tasks) \in Seq({"listen", "close"})
      BY <2>1, <3>1
    <3>3. k \in {"null", "open", "closed"}
      BY <2>1 DEF Servers
    <3> HIDE DEF k
    <3> QED BY <2>1, <3>1, <3>2, <3>3 DEF Servers
  <2>6. CASE Srv!Return \/ Srv!OtherTask
    BY <2>1, <2>6 DEF Srv!Return, Srv!OtherTask
  <2> QED BY <2>3, <2>4, <2>5, <2>6
<1>3. code' \in {code, "loop", "script"}
  BY DEF Srv!Listen, Srv!CloseServer, Srv!ServerTask, Srv!Return, Srv!OtherTask
<1>4. hs' \in Histories /\ hs'.given = hs.given /\ hs'.heard = hs.heard /\ hs'.slips = hs.slips
  <2>1. CASE Srv!CloseServer
    <3>1. Srv!HCall /\ hs' = Srv!HCounted(hs)
      BY <2>1 DEF Srv!CloseServer
    <3> QED BY <3>1, CountedIs
  <2>2. CASE hs' = hs
    BY <2>2 DEF ServerInv
  <2> QED BY <2>1, <2>2 DEF Srv!Listen, Srv!ServerTask, Srv!Return, Srv!OtherTask
<1>5. Right(res', Len(hs'.given), hs'.slips) /\ \A i \in DOMAIN hs'.given : hs'.given[i] = i
  BY <1>1, <1>4 DEF ServerInv
<1> QED BY <1>1, <1>2, <1>3, <1>4, <1>5, ResponseMoves

\* Calls that set or send the head.
LEMMA HeadCalls ==
  ASSUME ServerInv, HttpConstants, Srv!SetLength \/ Srv!FlushHeaders
  PROVE  ServerInv'
<1> DEFINE g == Len(hs.given)
<1>1. /\ Srv!HCall /\ Srv!HasRequest /\ server' = server /\ req' = req /\ code' = code
      /\ hs' = Srv!HCounted(hs)
  BY DEF Srv!SetLength, Srv!FlushHeaders
<1>2. hs' \in Histories /\ hs'.given = hs.given /\ hs'.heard = hs.heard /\ hs'.slips = hs.slips
  BY <1>1, CountedIs
<1>3. res.tcp # "none" /\ g \in Nat /\ Right(res, g, hs.slips) /\ res \in Responses
  BY <1>1, Connected
<1>4. server' \in Servers /\ \A i \in DOMAIN hs'.given : hs'.given[i] = i
  BY <1>1, <1>2 DEF ServerInv
<1>5. CASE res' = [res EXCEPT !.length = TRUE]
  <2> HIDE DEF g
  <2>1. Right(res', g, hs.slips) /\ res'.tcp = res.tcp
    BY <1>3, <1>5, LengthIsRight
  <2> QED BY <1>1, <1>2, <1>3, <1>4, <2>1, ResponseMoves DEF g
<1>6. CASE res' = Srv!Flush(res)
  <2> HIDE DEF g
  <2>1. Right(res', g, hs.slips) /\ res'.tcp = res.tcp
    BY <1>3, <1>6, FlushIs DEF Alike
  <2> QED BY <1>1, <1>2, <1>3, <1>4, <2>1, ResponseMoves DEF g
<1> QED BY <1>5, <1>6 DEF Srv!SetLength, Srv!FlushHeaders

\* The callbacks of the writes, of the shutdown and of the close.
LEMMA UvKeeps ==
  ASSUME ServerInv, HttpConstants, Srv!OnWritten \/ Srv!OnShutdown \/ Srv!OnClosed
  PROVE  ServerInv'
<1> DEFINE g == Len(hs.given)
<1>1. server' = server /\ req' = req /\ code' = code /\ hs' = hs
  BY DEF Srv!OnWritten, Srv!OnShutdown, Srv!OnClosed
<1>2. /\ g \in Nat /\ Right(res, g, hs.slips) /\ server \in Servers /\ hs \in Histories
      /\ \A i \in DOMAIN hs.given : hs.given[i] = i
  BY GivenGrows DEF ServerInv
<1> HIDE DEF g
<1>3. Right(res', g, hs.slips) /\ res'.tcp # "none"
  <2>1. res \in Responses /\ res.closing \in BOOLEAN /\ res.out \in Seq(Outs) /\ InLine(res, g)
    BY <1>2 DEF Right, Responses
  <2>2. CASE Srv!OnShutdown \/ Srv!OnClosed
    <3>1. PICK p \in {"closed", "gone"} : res' = [res EXCEPT !.tcp = p] /\ res.tcp # "none"
      BY <2>2 DEF Srv!OnShutdown, Srv!OnClosed
    <3>2. res' = [res EXCEPT !.tcp = p, !.closing = res.closing]
      BY <2>1, <3>1 DEF Responses
    <3>p. p \in {res.tcp, "broken", "shutting", "closed", "gone"}
      OBVIOUS
    <3> DEFINE c == res.closing
    <3>c. c \in BOOLEAN /\ res' = [res EXCEPT !.tcp = p, !.closing = c]
      BY <2>1, <3>2
    <3> HIDE DEF c
    <3>d. Right([res EXCEPT !.tcp = p, !.closing = c], g, hs.slips)
      BY <1>2, <3>1, <3>c, <3>p, LeftIsRight
    <3>3. Right(res', g, hs.slips)
      BY <3>c, <3>d
    <3>4. res'.tcp = p
      BY <2>1, <3>1 DEF Responses
    <3> QED BY <3>1, <3>3, <3>4
  <2>3. CASE Srv!OnWritten
    <3> DEFINE s == [res EXCEPT !.out = Tail(@)]
    <3>1. res.out # <<>>
          /\ CASE Head(res.out).kind = "chunk" -> res' = Srv!ChunkWritten(s)
               [] Head(res.out).kind = "file" -> \E ok \in BOOLEAN : res' = Srv!FileWritten(s, ok)
               [] OTHER -> res' = s
      BY <2>3 DEF Srv!OnWritten
    <3>2. res.tcp # "none"
      BY <2>1, <3>1 DEF InLine
    <3>3. CASE Head(res.out).kind = "chunk"
      <4>1. res' = Srv!ChunkWritten(s)
        BY <3>1, <3>3
      <4> QED BY <1>2, <3>1, <3>2, <3>3, <4>1, WrittenIsRight
    <3>4. CASE Head(res.out).kind = "file"
      <4>1. PICK ok \in BOOLEAN : res' = Srv!FileWritten(s, ok)
        BY <3>1, <3>4
      <4> QED BY <1>2, <3>1, <3>2, <3>4, <4>1, FileWrittenIsRight
    <3>5. CASE Head(res.out).kind \notin {"chunk", "file"}
      <4>1. res' = s
        BY <3>1, <3>5
      <4>2. Right(s, g, hs.slips)
        BY <1>2, <3>1, <3>5, OthersTaken
      <4>3. s.tcp = res.tcp
        BY <2>1 DEF Responses
      <4> QED BY <3>2, <4>1, <4>2, <4>3
    <3> QED BY <3>3, <3>4, <3>5
  <2> QED BY <2>2, <2>3
<1> QED BY <1>1, <1>2, <1>3, ResponseMoves DEF g

\* The connection of the response is accepted.
LEMMA OpenIsRight ==
  ASSUME HttpConstants, NEW s, NEW g \in Nat, NEW slips, Right(s, g, slips), s.tcp = "none"
  PROVE  Right([s EXCEPT !.tcp = "open"], g, slips) /\ [s EXCEPT !.tcp = "open"].tcp # "none"
<1> DEFINE t == [s EXCEPT !.tcp = "open"]
<1>0. s \in Responses /\ InLine(s, g)
  BY DEF Right
<1>1. /\ t \in Responses /\ t.out = s.out /\ t.tcp = "open" /\ t.head = s.head /\ t.length = s.length
      /\ t.finished = s.finished /\ t.pending = s.pending /\ t.queue = s.queue /\ t.file = s.file
      /\ t.callback = s.callback /\ t.wire = s.wire
  BY <1>0 DEF Responses
<1>2. /\ t.head = "none" /\ g = 0 /\ t.pending = 0 /\ t.queue = <<>> /\ t.wire = <<>> /\ t.out = <<>>
      /\ ~t.finished /\ ~t.file
  BY <1>0, <1>1 DEF InLine
<1> HIDE DEF t
<1>3. Passed(t, g) = 0 /\ MaxPending \in Nat
  <2>1. Len(t.queue) = 0
    BY <1>2
  <2>2. Passed(t, g) = 0
    <3>1. Passed(t, g) = g - Len(t.queue)
      BY DEF Passed
    <3>2. Passed(t, g) = 0 - 0
      BY <1>2, <2>1, <3>1, Zenon
    <3> QED BY <3>2
  <2> QED BY <2>2 DEF HttpConstants, Srv!HttpAssumption
<1>4. InLine(t, g)
  BY <1>1, <1>2, <1>3 DEF InLine
<1>5. OnTheWay(t, g)
  <2>1. (Passed(t, g) - t.pending + 1)..Passed(t, g) = {}
    BY <1>2, <1>3
  <2> QED BY <1>2, <2>1 DEF OnTheWay
<1>6. Laid(t, g)
  BY <1>2 DEF Laid, Begun, Ended
<1>7. FileLaid(s) => FileLaid(t)
  BY <1>1, <1>2 DEF FileLaid
<1>8. Right(t, g, slips)
  BY <1>1, <1>2, <1>4, <1>5, <1>6, <1>7 DEF Right
<1> QED BY <1>1, <1>8 DEF t

\* A connection is accepted, with what its peer will send.
LEMMA ConnectionKeeps ==
  ASSUME ServerInv, HttpConstants, Srv!OnConnection
  PROVE  ServerInv'
<1> DEFINE g == Len(hs.given)
<1>1. server' = server /\ code' = code /\ hs' = hs /\ code = "loop" /\ res.tcp = "none" /\ req.todo = <<>>
      /\ res' = [res EXCEPT !.tcp = "open"]
  BY DEF Srv!OnConnection, Srv!AtLoop
<1>2. PICK i \in Srv!Inputs : req' = [req EXCEPT !.input = i]
  BY DEF Srv!OnConnection
<1>3. /\ g \in Nat /\ Right(res, g, hs.slips) /\ server \in Servers /\ hs \in Histories /\ req \in Requests
      /\ ~req.called /\ Heeded(req, hs.heard, hs.slips)
  BY <1>1, GivenGrows DEF ServerInv
<1>4. PICK b \in 0..Body :
        /\ InOrder(req, Left(req), b)
        /\ "late" \notin hs.slips => \E a \in 0..Body : Listened(req, hs.heard, a) /\ b = a + Len(req.buffered)
  BY <1>3 DEF Heeded
<1>5. ~req.complete /\ b = 0
  BY <1>3, <1>4 DEF InOrder
<1>6. i \in Seq(Ins) /\ InOrder(req, i, 0)
  BY <1>3, <1>5, InputIsInOrder
<1>7. /\ req' \in Requests /\ req'.called = req.called /\ req'.complete = req.complete /\ req'.end = req.end
      /\ req'.buffered = req.buffered /\ req'.data = req.data /\ req'.todo = <<>> /\ req'.input = i
  BY <1>1, <1>2, <1>3, <1>6 DEF Requests
<1>8. Left(req') = i
  BY <1>6, <1>7 DEF Left
<1>9. InOrder(req', Left(req'), 0)
  BY <1>6, <1>7, <1>8, OrderStays
<1>10. ASSUME NEW a \in 0..Body, Listened(req, hs.heard, a)
       PROVE  Listened(req', hs.heard, a)
  BY <1>7, <1>10, StillListened
<1>11. Heeded(req', hs'.heard, hs'.slips)
  BY <1>1, <1>4, <1>5, <1>7, <1>9, <1>10 DEF Heeded
<1> HIDE DEF g
<1>12. Right(res', g, hs.slips) /\ res'.tcp # "none"
  BY <1>1, <1>3, OpenIsRight
<1> QED BY <1>1, <1>3, <1>7, <1>11, <1>12, RequestMoves DEF g

\* A listener is registered, and hears what waited for it.
LEMMA ListenerCalls ==
  ASSUME ServerInv, HttpConstants, Srv!OnData \/ Srv!OnEnd \/ Srv!PauseResume
  PROVE  ServerInv'
<1> DEFINE h == Srv!HCounted(hs)
<1>1. /\ Srv!HCall /\ Srv!HasRequest /\ server' = server /\ res' = res /\ code' = code
  BY DEF Srv!OnData, Srv!OnEnd, Srv!PauseResume
<1>2. h \in Histories /\ h.given = hs.given /\ h.heard = hs.heard /\ h.slips = hs.slips
  BY <1>1, CountedIs
<1>3. /\ Right(res, Len(hs.given), hs.slips) /\ res.tcp # "none" /\ req.called
      /\ req \in Requests /\ hs.heard \in Seq(0..Body) /\ hs.slips \in SUBSET {"cut", "file", "late"}
      /\ code' \in {"loop", "handler", "script"} /\ Heeded(req, hs.heard, hs.slips)
      /\ Body \in Nat /\ 0 \in 0..Body
  BY <1>1, Connected DEF ServerInv, Histories, HttpConstants, Srv!HttpAssumption
<1>4. PICK b \in 0..Body :
        /\ InOrder(req, Left(req), b)
        /\ "late" \notin hs.slips => \E a \in 0..Body : Listened(req, hs.heard, a) /\ b = a + Len(req.buffered)
  BY <1>3 DEF Heeded
<1>5. /\ req.data \in BOOLEAN /\ req.end \in BOOLEAN /\ req.complete \in BOOLEAN /\ req.paused \in BOOLEAN
      /\ req.buffered \in Seq(1..Body)
  BY <1>3 DEF Requests
<1> HIDE DEF h
<1>6. CASE Srv!PauseResume
  <2>1. req' = [req EXCEPT !.paused = ~@] /\ hs' = h
    BY <1>6 DEF Srv!PauseResume, h
  <2>2. /\ req' \in Requests /\ req'.called = req.called /\ req'.complete = req.complete /\ req'.end = req.end
        /\ req'.buffered = req.buffered /\ req'.data = req.data /\ Left(req') = Left(req)
    BY <1>3, <1>5, <2>1 DEF Requests, Left
  <2>3. InOrder(req', Left(req'), b)
    BY <1>4, <2>2, OrderStays
  <2>4. \A a \in 0..Body : Listened(req, hs.heard, a) => Listened(req', hs.heard, a)
    BY <2>2, StillListened
  <2>5. Heeded(req', hs'.heard, hs'.slips)
    BY <1>2, <1>4, <2>1, <2>2, <2>3, <2>4 DEF Heeded
  <2> QED BY <1>1, <1>2, <1>3, <2>1, <2>2, <2>5, RequestMoves
<1>7. CASE Srv!OnEnd
  <2> DEFINE w == IF req.complete /\ req.buffered = <<>> THEN Append(hs.heard, 0) ELSE hs.heard
  <2>1. req' = [req EXCEPT !.end = TRUE] /\ hs' = [h EXCEPT !.heard = w] /\ ~req.end
    BY <1>2, <1>7 DEF Srv!OnEnd, h
  <2>2. /\ req' \in Requests /\ req'.called = req.called /\ req'.complete = req.complete /\ req'.end
        /\ req'.buffered = req.buffered /\ req'.data = req.data /\ Left(req') = Left(req)
    BY <1>3, <1>5, <2>1 DEF Requests, Left
  <2>3. InOrder(req', Left(req'), b)
    BY <1>4, <2>2, OrderStays
  <2>4. w \in Seq(0..Body)
    <3>1. Append(hs.heard, 0) \in Seq(0..Body)
      BY <1>3, AppendIsLonger
    <3> QED BY <1>3, <3>1
  <2>5. ASSUME NEW a \in 0..Body, Listened(req, hs.heard, a)
        PROVE  Listened(req', w, a)
    <3>1. a \in Nat
      OBVIOUS
    <3>2. /\ req'.complete /\ req'.end => Listened(req', Append(hs.heard, 0), a)
          /\ ~(req'.complete /\ req'.end) \/ req'.buffered # <<>> => Listened(req', hs.heard, a)
      BY <1>3, <2>1, <2>2, <2>5, <3>1, EndIsHeard
    <3> QED BY <2>2, <3>2
  <2> HIDE DEF w
  <2>6. hs' \in Histories /\ hs'.given = hs.given /\ hs'.heard = w /\ hs'.slips = hs.slips
    BY <1>2, <2>1, <2>4 DEF Histories
  <2>7. Heeded(req', hs'.heard, hs'.slips)
    BY <1>4, <2>2, <2>3, <2>5, <2>6 DEF Heeded
  <2> QED BY <1>1, <1>3, <2>2, <2>6, <2>7, RequestMoves
<1>8. CASE Srv!OnData
  <2> DEFINE w == hs.heard \o req.buffered
                  \o IF req.buffered # <<>> /\ req.complete /\ req.end THEN <<0>> ELSE <<>>
             late == req.complete /\ req.buffered # <<>> /\ 0 \in Srv!Range(hs.heard)
             sl == IF late THEN hs.slips \cup {"late"} ELSE hs.slips
  <2>1. req' = [req EXCEPT !.data = TRUE, !.buffered = <<>>] /\ hs' = [h EXCEPT !.heard = w, !.slips = sl]
    BY <1>2, <1>8 DEF Srv!OnData, h
  <2>2. /\ req' \in Requests /\ req'.called = req.called /\ req'.complete = req.complete /\ req'.end = req.end
        /\ req'.buffered = <<>> /\ req'.data /\ Left(req') = Left(req)
    <3>1. <<>> \in Seq(1..Body)
      OBVIOUS
    <3> QED BY <1>3, <1>5, <2>1, <3>1 DEF Requests, Left
  <2>3. InOrder(req', Left(req'), b)
    BY <1>4, <2>2, OrderStays
  <2>4. w \in Seq(0..Body)
    <3> DEFINE q == req.buffered
               z == IF q # <<>> /\ req.complete /\ req.end THEN <<0>> ELSE <<>>
               m == hs.heard \o q
    <3>1. q \in Seq(0..Body)
      <4>1. q \in Seq(1..Body) /\ Body \in Nat
        BY <1>3, <1>5
      <4> HIDE DEF q
      <4> QED BY <4>1
    <3>2. z \in Seq(0..Body)
      <4>1. <<0>> \in Seq(0..Body) /\ <<>> \in Seq(0..Body)
        BY <1>3, SingleIs
      <4> QED BY <4>1
    <3> HIDE DEF q, z
    <3>3. m \in Seq(0..Body)
      BY <1>3, <3>1, ConcatIs
    <3> HIDE DEF m
    <3>4. m \o z \in Seq(0..Body)
      BY <3>2, <3>3, ConcatIs
    <3> QED BY <3>4 DEF m, z, q
  <2>5. ASSUME "late" \notin sl
        PROVE  \E a \in 0..Body : Listened(req', w, a) /\ b = a + Len(req'.buffered)
    <3>1. "late" \notin hs.slips /\ ~late
      BY <2>5
    <3>2. PICK a \in 0..Body : Listened(req, hs.heard, a) /\ b = a + Len(req.buffered)
      BY <1>4, <3>1
    <3>3. ~(req.complete /\ req.buffered # <<>> /\ Len(hs.heard) = a + 1)
      <4> SUFFICES ASSUME req.complete, req.buffered # <<>>, Len(hs.heard) = a + 1
                   PROVE  FALSE
        OBVIOUS
      <4>1. hs.heard[a + 1] = 0 /\ a + 1 \in DOMAIN hs.heard
        BY <1>3, <3>2 DEF Listened
      <4>2. 0 \in Srv!Range(hs.heard)
        BY <4>1 DEF Srv!Range
      <4> QED BY <3>1, <4>2
    <3>4. a \in Nat /\ a + Len(req.buffered) \in 0..Body
      BY <3>2
    <3> HIDE DEF w
    <3>5. Listened(req', w, a + Len(req.buffered)) /\ a + Len(req.buffered) = a + Len(req.buffered) + Len(req'.buffered)
      BY <1>3, <2>2, <3>2, <3>3, <3>4, BufferIsHeard DEF w
    <3> QED BY <3>2, <3>4, <3>5
  <2>6. sl \in SUBSET {"cut", "file", "late"} /\ sl \in {hs.slips, hs.slips \cup {"late"}}
    BY <1>3
  <2> HIDE DEF w, sl
  <2>7. hs' \in Histories /\ hs'.given = hs.given /\ hs'.heard = w /\ hs'.slips = sl
    BY <1>2, <2>1, <2>4, <2>6 DEF Histories
  <2>8. Heeded(req', hs'.heard, hs'.slips)
    BY <2>3, <2>5, <2>7 DEF Heeded
  <2> QED BY <1>1, <1>3, <2>2, <2>6, <2>7, <2>8, RequestMoves
<1> QED BY <1>6, <1>7, <1>8

\* A sequence is what comes up to a place and what comes after it.
LEMMA SplitIs ==
  ASSUME NEW S, NEW q \in Seq(S), NEW k \in 1..Len(q)
  PROVE  /\ SubSeq(q, 1, k) \in Seq(S) /\ SubSeq(q, k + 1, Len(q)) \in Seq(S)
         /\ SubSeq(q, 1, k) \o SubSeq(q, k + 1, Len(q)) = q
<1> DEFINE y == SubSeq(q, 1, k)
           z == SubSeq(q, k + 1, Len(q))
<1>1. y \in Seq(S) /\ Len(y) = k /\ \A i \in 1..k : y[i] = q[i]
  BY SubSeqProperties
<1>2. z \in Seq(S) /\ Len(z) = Len(q) - k /\ \A i \in 1..(Len(q) - k) : z[i] = q[k + i]
  BY SubSeqProperties
<1> HIDE DEF y, z
<1>3. y \o z \in Seq(S) /\ Joined(y, z, y \o z)
  BY <1>1, <1>2, ConcatIs
<1> DEFINE w == y \o z
<1>4. w \in Seq(S) /\ Joined(y, z, w)
  BY <1>3
<1> HIDE DEF w
<1>5. Len(w) = Len(q) /\ \A i \in 1..Len(q) : w[i] = q[i]
  <2>1. Len(w) = Len(q)
    BY <1>1, <1>2, <1>4 DEF Joined
  <2>2. ASSUME NEW i \in 1..Len(q)
        PROVE  w[i] = q[i]
    <3>1. CASE i \in 1..k
      BY <1>1, <1>4, <3>1 DEF Joined
    <3>2. CASE i \notin 1..k
      <4>1. i - k \in 1..(Len(q) - k) /\ k + (i - k) = i
        BY <1>1, <1>2, <1>4, <2>1, <3>2 DEF Joined
      <4>2. w[Len(y) + (i - k)] = z[i - k]
        BY <1>2, <1>4, <4>1 DEF Joined
      <4>3. z[i - k] = q[k + (i - k)]
        BY <1>2, <4>1
      <4> QED BY <1>1, <4>1, <4>2, <4>3
    <3> QED BY <3>1, <3>2
  <2> QED BY <2>1, <2>2
<1> QED BY <1>1, <1>2, <1>4, <1>5, SeqEqual DEF y, z, w

\* What the parser finds.
LEMMA ParsedIs ==
  ASSUME NEW r \in Requests, r.todo # <<>>, NEW b \in 0..Body, InOrder(r, Left(r), b), Body \in Nat,
         NEW c \in Requests, c.called, c.todo = Tail(r.todo), c.input = r.input,
         c.complete => r.complete \/ Head(r.todo).kind = "end",
         Head(r.todo).kind = "head" \/ r.called
  PROVE  LET d == IF Head(r.todo).kind = "body" THEN b + 1 ELSE b IN
         /\ InOrder(c, Left(c), d) /\ d \in 0..Body
         /\ (Head(r.todo).kind = "head") = ~r.called
         /\ Head(r.todo).kind = "body" => Head(r.todo).n = b + 1 /\ b + 1 \in 1..Body /\ ~r.complete
         /\ Head(r.todo).kind = "end" => ~r.complete
<1> DEFINE q == Left(r)
           d == IF Head(r.todo).kind = "body" THEN b + 1 ELSE b
<1>1. q \in Seq(Ins) /\ q # <<>> /\ q[1] = Head(r.todo) /\ Tail(r.todo) \o r.input = Tail(q)
  BY LeftIs
<1>2. Left(c) = Tail(q)
  BY <1>1 DEF Left
<1> HIDE DEF q
<1>3. /\ InOrder(c, Tail(q), IF q[1].kind = "body" THEN b + 1 ELSE b)
      /\ (q[1].kind = "head") = ~r.called
      /\ q[1].kind = "body" => q[1].n = b + 1
  <2>1. b \in Nat /\ InOrder(r, q, b)
    BY DEF q
  <2> QED BY <1>1, <2>1, NextIsTaken
<1>4. 1 \in DOMAIN q /\ q[1] \in Ins
  BY <1>1
<1>5. q[1].kind \in {"body", "end"} => ~r.complete
  BY <1>4 DEF InOrder, q
<1>6. q[1].kind = "body" => b + 1 \in 1..Body
  <2>1. q[1].n \in 0..Body
    BY <1>4 DEF Ins
  <2> QED BY <1>3, <2>1
<1>7. d \in 0..Body
  BY <1>1, <1>6
<1> QED BY <1>1, <1>2, <1>3, <1>5, <1>6, <1>7

\* llhttp calls back, part by part.
LEMMA ParseKeeps ==
  ASSUME ServerInv, HttpConstants,
         Srv!OnHeadersComplete \/ Srv!OnBody \/ Srv!OnMessageComplete \/ Srv!OnParseError
  PROVE  ServerInv'
<1> DEFINE g == Len(hs.given)
           n == Head(req.todo).n
           kind == Head(req.todo).kind
<1>1. server' = server /\ code = "loop" /\ req.todo # <<>>
  BY DEF Srv!OnHeadersComplete, Srv!OnBody, Srv!OnMessageComplete, Srv!OnParseError, Srv!Parsing
<1>2. /\ Right(res, g, hs.slips) /\ g \in Nat /\ hs \in Histories /\ req \in Requests
      /\ hs.heard \in Seq(0..Body) /\ hs.slips \in SUBSET {"cut", "file", "late"}
      /\ Heeded(req, hs.heard, hs.slips) /\ Body \in Nat /\ 0 \in 0..Body
  BY GivenGrows DEF ServerInv, Histories, HttpConstants, Srv!HttpAssumption
<1>3. res.tcp # "none" /\ res.closing \in BOOLEAN
  <2>1. Left(req) # <<>>
    BY <1>1, <1>2, LeftIs
  <2>2. res \in Responses
    BY <1>2 DEF Right
  <2> QED BY <2>1, <2>2 DEF ServerInv, Responses
<1>4. PICK b \in 0..Body :
        /\ InOrder(req, Left(req), b)
        /\ "late" \notin hs.slips => \E a \in 0..Body : Listened(req, hs.heard, a) /\ b = a + Len(req.buffered)
  BY <1>2 DEF Heeded
<1>5. /\ req.data \in BOOLEAN /\ req.end \in BOOLEAN /\ req.complete \in BOOLEAN /\ req.paused \in BOOLEAN
      /\ req.called \in BOOLEAN
      /\ req.buffered \in Seq(1..Body) /\ req.todo \in Seq(Ins) /\ Tail(req.todo) \in Seq(Ins)
  <2>1. req.todo \in Seq(Ins)
    BY <1>2 DEF Requests
  <2> QED BY <1>1, <1>2, <2>1 DEF Requests
<1>6. kind # "head" => req.called
  <2>1. /\ Left(req) # <<>> /\ Left(req)[1] = Head(req.todo) /\ Left(req) \in Seq(Ins)
    BY <1>1, <1>2, LeftIs
  <2>2. 1 \in DOMAIN Left(req)
    BY <2>1
  <2> QED BY <1>4, <2>1, <2>2 DEF InOrder
<1> DEFINE p == [req EXCEPT !.todo = Tail(@)]
<1>7. /\ p \in Requests /\ p.called = req.called /\ p.complete = req.complete /\ p.end = req.end
      /\ p.buffered = req.buffered /\ p.data = req.data /\ p.todo = Tail(req.todo) /\ p.input = req.input
  BY <1>2, <1>5 DEF Requests
<1> HIDE DEF p, g
<1>8. CASE Srv!OnHeadersComplete
  <2>1. kind = "head" /\ req' = [p EXCEPT !.called = TRUE] /\ code' = "handler" /\ res' = res /\ hs' = hs
    BY <1>8 DEF Srv!OnHeadersComplete, Srv!Parsing, Srv!Parsed, p
  <2>2. /\ req' \in Requests /\ req'.called /\ req'.complete = req.complete /\ req'.end = req.end
        /\ req'.buffered = req.buffered /\ req'.data = req.data /\ req'.todo = Tail(req.todo) /\ req'.input = req.input
    BY <1>7, <2>1 DEF Requests
  <2>3. InOrder(req', Left(req'), b)
    <3>1. kind # "body"
      BY <2>1
    <3> QED BY <1>1, <1>2, <1>4, <2>1, <2>2, <3>1, ParsedIs
  <2>4. \A a \in 0..Body : Listened(req, hs.heard, a) => Listened(req', hs.heard, a)
    BY <2>2, StillListened
  <2>5. Heeded(req', hs'.heard, hs'.slips)
    BY <1>4, <2>1, <2>2, <2>3, <2>4 DEF Heeded
  <2> QED BY <1>1, <1>2, <1>3, <2>1, <2>2, <2>5, RequestMoves DEF g
<1>9. CASE Srv!OnBody /\ req.data
  <2>1. /\ kind = "body" /\ req' = p /\ code' = "script" /\ res' = res
        /\ hs' = [hs EXCEPT !.heard = Append(@, n)]
    BY <1>9 DEF Srv!OnBody, Srv!Parsing, Srv!Parsed, p
  <2>2. /\ InOrder(req', Left(req'), b + 1) /\ b + 1 \in 0..Body /\ n = b + 1 /\ b + 1 \in 1..Body
        /\ ~req.complete
    BY <1>1, <1>2, <1>4, <1>6, <1>7, <2>1, ParsedIs
  <2>3. ASSUME NEW a \in 0..Body, Listened(req, hs.heard, a), b = a + Len(req.buffered)
        PROVE  Listened(req', Append(hs.heard, n), a + 1) /\ b + 1 = a + 1 + Len(req'.buffered)
               /\ a + 1 \in 0..Body
    <3>1. a \in Nat /\ a + 1 \in 0..Body
      <4>1. Len(req.buffered) \in Nat /\ a \in Nat
        BY <1>5
      <4> QED BY <1>2, <2>2, <2>3, <4>1
    <3>2. Listened(req', Append(hs.heard, n), a + 1) /\ b + 1 = a + 1 + Len(req'.buffered)
      <4>1. /\ req' \in Requests /\ req'.called /\ ~req'.complete /\ req'.end = req.end
            /\ req'.data = req.data /\ req'.buffered = req.buffered /\ req.data
        BY <1>6, <1>7, <1>9, <2>1, <2>2
      <4>2. n = a + Len(req.buffered) + 1 /\ a + Len(req.buffered) + 1 \in 1..Body
        BY <2>2, <2>3
      <4>4. n \in 1..Body /\ req'.data = req.data /\ req'.end = req.end /\ req'.buffered = req.buffered
            /\ ~req.complete /\ req.data /\ hs.heard \in Seq(0..Body)
        BY <1>2, <2>2, <4>1
      <4> HIDE DEF n
      <4>3. Listened(req', Append(hs.heard, n), a + 1) /\ req.buffered = <<>>
        BY <1>2, <2>3, <3>1, <4>1, <4>2, <4>4, PieceIsHeard
      <4> QED BY <2>2, <2>3, <3>1, <4>3, <4>4
    <3> QED BY <2>2, <3>1, <3>2
  <2>4. Append(hs.heard, n) \in Seq(0..Body)
    BY <1>2, <2>2, AppendIsLonger
  <2>5. hs' \in Histories /\ hs'.given = hs.given /\ hs'.heard = Append(hs.heard, n) /\ hs'.slips = hs.slips
    BY <1>2, <2>1, <2>4 DEF Histories
  <2>6. Heeded(req', hs'.heard, hs'.slips)
    <3>1. "late" \notin hs.slips =>
            \E a \in 0..Body : Listened(req', hs'.heard, a) /\ b + 1 = a + Len(req'.buffered)
      <4> SUFFICES ASSUME "late" \notin hs.slips
                   PROVE  \E a \in 0..Body : Listened(req', hs'.heard, a) /\ b + 1 = a + Len(req'.buffered)
        OBVIOUS
      <4>1. PICK a \in 0..Body : Listened(req, hs.heard, a) /\ b = a + Len(req.buffered)
        BY <1>4
      <4>2. Listened(req', Append(hs.heard, n), a + 1) /\ b + 1 = a + 1 + Len(req'.buffered)
            /\ a + 1 \in 0..Body
        BY <2>3, <4>1
      <4> QED BY <2>5, <4>2
    <3> QED BY <2>2, <2>5, <3>1 DEF Heeded
  <2> QED BY <1>1, <1>2, <1>3, <1>7, <2>1, <2>5, <2>6, RequestMoves DEF g
<1>10. CASE Srv!OnBody /\ ~req.data
  <2>1. /\ kind = "body" /\ req' = [p EXCEPT !.buffered = Append(@, n)] /\ code' = code /\ res' = res
        /\ hs' = hs
    BY <1>10 DEF Srv!OnBody, Srv!Parsing, Srv!Parsed, p
  <2>a. n \in 1..Body
    <3>1. p.called /\ (p.complete => req.complete)
      BY <1>6, <1>7, <2>1
    <3>2. n = b + 1 /\ b + 1 \in 1..Body
      BY <1>1, <1>2, <1>4, <1>6, <1>7, <2>1, <3>1, ParsedIs
    <3> QED BY <3>2
  <2>b. Append(req.buffered, n) \in Seq(1..Body)
    BY <1>5, <2>a, AppendIsLonger
  <2>c. /\ req' \in Requests /\ req'.called /\ req'.complete = req.complete /\ req'.end = req.end
        /\ req'.buffered = Append(req.buffered, n) /\ req'.data = req.data
        /\ req'.todo = Tail(req.todo) /\ req'.input = req.input
    BY <1>6, <1>7, <2>1, <2>b DEF Requests
  <2>2. /\ InOrder(req', Left(req'), b + 1) /\ b + 1 \in 0..Body /\ n = b + 1 /\ b + 1 \in 1..Body
        /\ ~req.complete
    <3>1. (req'.complete => req.complete \/ kind = "end") /\ req.called
      BY <1>6, <2>1, <2>c
    <3>2. /\ InOrder(req', Left(req'), IF kind = "body" THEN b + 1 ELSE b)
          /\ (IF kind = "body" THEN b + 1 ELSE b) \in 0..Body
          /\ kind = "body" => n = b + 1 /\ b + 1 \in 1..Body /\ ~req.complete
      BY <1>1, <1>2, <1>4, <2>c, <3>1, ParsedIs
    <3> QED BY <2>1, <3>2
  <2>3. ASSUME NEW a \in 0..Body, Listened(req, hs.heard, a), b = a + Len(req.buffered)
        PROVE  Listened(req', hs.heard, a) /\ b + 1 = a + Len(req'.buffered)
    <3>1. a \in Nat
      OBVIOUS
    <3>2. Listened(req', hs.heard, a) /\ b + 1 = a + Len(req'.buffered)
      <4>1. /\ req' \in Requests /\ req'.called /\ ~req'.complete /\ req'.end = req.end
            /\ req'.data = req.data /\ req'.buffered = Append(req.buffered, n) /\ ~req.data
        BY <1>10, <2>2, <2>c
      <4>2. n = a + Len(req.buffered) + 1 /\ n \in 1..Body
        BY <2>2, <2>3
      <4>4. ~req.complete /\ hs.heard \in Seq(0..Body) /\ req \in Requests
        BY <1>2, <2>2
      <4> HIDE DEF n
      <4>3. Listened(req', hs.heard, a) /\ n = a + Len(req'.buffered)
        BY <2>3, <3>1, <4>1, <4>2, <4>4, PieceIsKept
      <4> QED BY <2>2, <4>3
    <3> QED BY <3>2
  <2>6. Heeded(req', hs'.heard, hs'.slips)
    BY <1>4, <2>1, <2>2, <2>3 DEF Heeded
  <2> QED BY <1>1, <1>2, <1>3, <2>1, <2>c, <2>6, RequestMoves DEF g
<1>11. CASE Srv!OnMessageComplete
  <2> DEFINE w == IF req.end THEN Append(hs.heard, 0) ELSE hs.heard
  <2>1. kind = "end" /\ req' = [p EXCEPT !.complete = TRUE] /\ res' = res /\ code' \in {"loop", "script"}
        /\ hs' = IF req.end THEN [hs EXCEPT !.heard = Append(@, 0)] ELSE hs
    BY <1>1, <1>11 DEF Srv!OnMessageComplete, Srv!Parsing, Srv!Parsed, p
  <2>2. /\ req' \in Requests /\ req'.called /\ req'.complete /\ req'.end = req.end
        /\ req'.buffered = req.buffered /\ req'.data = req.data /\ req'.todo = Tail(req.todo) /\ req'.input = req.input
    BY <1>6, <1>7, <2>1 DEF Requests
  <2>3. InOrder(req', Left(req'), b) /\ ~req.complete
    <3>1. kind # "body"
      BY <2>1
    <3> QED BY <1>1, <1>2, <1>4, <1>6, <2>1, <2>2, <3>1, ParsedIs
  <2>4. w \in Seq(0..Body)
    <3>1. Append(hs.heard, 0) \in Seq(0..Body)
      BY <1>2, AppendIsLonger
    <3> QED BY <1>2, <3>1
  <2>5. ASSUME NEW a \in 0..Body, Listened(req, hs.heard, a)
        PROVE  Listened(req', w, a)
    <3>1. a \in Nat
      OBVIOUS
    <3>2. /\ req'.complete /\ req'.end => Listened(req', Append(hs.heard, 0), a)
          /\ ~(req'.complete /\ req'.end) \/ req'.buffered # <<>> => Listened(req', hs.heard, a)
      BY <1>2, <2>2, <2>3, <2>5, <3>1, EndIsHeard
    <3> QED BY <2>2, <3>2
  <2>6. hs' \in Histories /\ hs'.given = hs.given /\ hs'.heard = w /\ hs'.slips = hs.slips
    <3>1. hs' = [hs EXCEPT !.heard = w]
      BY <1>2, <2>1 DEF Histories
    <3> HIDE DEF w
    <3> QED BY <1>2, <2>4, <3>1 DEF Histories
  <2> HIDE DEF w
  <2>7. Heeded(req', hs'.heard, hs'.slips)
    BY <1>4, <2>2, <2>3, <2>5, <2>6 DEF Heeded
  <2> QED BY <1>1, <1>2, <1>3, <2>1, <2>2, <2>6, <2>7, RequestMoves DEF g
<1>12. CASE Srv!OnParseError
  <2>1. /\ kind = "bad" /\ req' = [req EXCEPT !.todo = <<>>] /\ res' = Srv!RequestClose(res)
        /\ code' = code /\ hs' = hs
    BY <1>12 DEF Srv!OnParseError, Srv!Parsing
  <2>2. /\ req' \in Requests /\ req'.called = req.called /\ req'.complete = req.complete /\ req'.end = req.end
        /\ req'.buffered = req.buffered /\ req'.data = req.data /\ req'.todo = <<>> /\ req'.input = req.input
    <3>1. <<>> \in Seq(Ins)
      OBVIOUS
    <3> QED BY <1>2, <1>5, <2>1, <3>1 DEF Requests
  <2>3. InOrder(req', Left(req'), b)
    <3>1. InOrder(req, req.input, b)
      BY <1>1, <1>2, <1>4, <2>1, RestIsDropped
    <3>2. Left(req') = req.input
      BY <2>2, LeftIs
    <3> QED BY <2>2, <3>1, <3>2, OrderStays
  <2>4. \A a \in 0..Body : Listened(req, hs.heard, a) => Listened(req', hs.heard, a)
    BY <2>2, StillListened
  <2>5. Heeded(req', hs'.heard, hs'.slips)
    BY <1>4, <2>1, <2>2, <2>3, <2>4 DEF Heeded
  <2>6. Right(res', g, hs.slips) /\ res'.tcp # "none"
    BY <1>2, <1>3, <2>1, CloseIsRight
  <2> QED BY <1>1, <1>2, <1>3, <2>1, <2>2, <2>5, <2>6, RequestMoves DEF g
<1> QED BY <1>8, <1>9, <1>10, <1>11, <1>12

\* Bytes of the peer are read.
LEMMA ReadKeeps ==
  ASSUME ServerInv, HttpConstants, Srv!OnRead
  PROVE  ServerInv'
<1> DEFINE g == Len(hs.given)
           x == Head(req.input)
<1>1. /\ server' = server /\ code' = code /\ hs' = hs /\ code = "loop" /\ req.todo = <<>>
      /\ res.tcp \in {"open", "shutting"} /\ req.input # <<>>
  BY DEF Srv!OnRead, Srv!AtLoop
<1>2. /\ Right(res, g, hs.slips) /\ g \in Nat /\ hs \in Histories /\ req \in Requests
      /\ hs.heard \in Seq(0..Body) /\ Heeded(req, hs.heard, hs.slips) /\ Body \in Nat
  BY GivenGrows DEF ServerInv, Histories, HttpConstants, Srv!HttpAssumption
<1>3. PICK b \in 0..Body :
        /\ InOrder(req, Left(req), b)
        /\ "late" \notin hs.slips => \E a \in 0..Body : Listened(req, hs.heard, a) /\ b = a + Len(req.buffered)
  BY <1>2 DEF Heeded
<1>4. /\ req.called \in BOOLEAN /\ req.input \in Seq(Ins) /\ Left(req) = req.input /\ req.todo \in Seq(Ins)
  BY <1>1, <1>2, LeftIs
<1> HIDE DEF g
<1>5. CASE x.kind \in Srv!Leaving
  <2>1. /\ req' = [req EXCEPT !.input = Tail(@)]
        /\ res' = Srv!RequestClose(IF x.kind = "reset" /\ res.tcp = "open"
                                   THEN [res EXCEPT !.tcp = "broken"] ELSE res)
    BY <1>5 DEF Srv!OnRead
  <2>2. x = req.input[1] /\ 1 \in DOMAIN req.input /\ Tail(req.input) \in Seq(Ins)
    BY <1>1, <1>4, TailIsShorter
  <2>3. x.kind \in {"eof", "reset"} /\ req.called
    BY <1>3, <1>4, <1>5, <2>2 DEF Srv!Leaving, InOrder
  <2>4. /\ req' \in Requests /\ req'.called = req.called /\ req'.complete = req.complete /\ req'.end = req.end
        /\ req'.buffered = req.buffered /\ req'.data = req.data /\ req'.todo = <<>>
        /\ req'.input = Tail(req.input)
    BY <1>1, <1>2, <2>1, <2>2 DEF Requests
  <2>5. InOrder(req', Left(req'), b)
    <3>1. Left(req') = Tail(req.input)
      BY <2>2, <2>4, LeftIs
    <3>2. InOrder(req', Tail(req.input), IF req.input[1].kind = "body" THEN b + 1 ELSE b)
      <4>1. b \in Nat /\ InOrder(req, req.input, b)
        BY <1>3, <1>4
      <4>2. req'.called /\ (req'.complete => req.complete \/ req.input[1].kind = "end")
        BY <2>3, <2>4
      <4> QED BY <1>1, <1>2, <1>4, <2>3, <2>4, <4>1, <4>2, NextIsTaken
    <3> QED BY <2>2, <2>3, <3>1, <3>2
  <2>6. \A a \in 0..Body : Listened(req, hs.heard, a) => Listened(req', hs.heard, a)
    BY <2>4, StillListened
  <2>7. Heeded(req', hs'.heard, hs'.slips)
    BY <1>1, <1>3, <2>4, <2>5, <2>6 DEF Heeded
  <2>8. Right(res', g, hs.slips) /\ res'.tcp # "none"
    <3> DEFINE s == IF x.kind = "reset" /\ res.tcp = "open" THEN [res EXCEPT !.tcp = "broken"] ELSE res
    <3>1. Right(s, g, hs.slips) /\ s.tcp # "none"
      <4> DEFINE c == res.closing
      <4>1. res \in Responses /\ c \in BOOLEAN
        BY <1>2 DEF Right, Responses
      <4>2. [res EXCEPT !.tcp = "broken"] = [res EXCEPT !.tcp = "broken", !.closing = c]
            /\ [res EXCEPT !.tcp = "broken"].tcp = "broken"
        BY <4>1 DEF Responses
      <4> HIDE DEF c
      <4>3. "broken" \in {res.tcp, "broken", "shutting", "closed", "gone"} /\ res.tcp # "none"
        BY <1>1
      <4>4. Right([res EXCEPT !.tcp = "broken", !.closing = c], g, hs.slips)
        BY <1>2, <4>1, <4>3, LeftIsRight
      <4> QED BY <1>2, <4>2, <4>3, <4>4
    <3> HIDE DEF s
    <3>2. res' = Srv!RequestClose(s)
      BY <2>1 DEF s
    <3> QED BY <1>2, <3>1, <3>2, CloseIsRight
  <2> QED BY <1>1, <1>2, <2>3, <2>4, <2>7, <2>8, RequestMoves DEF g
<1>6. CASE x.kind \notin Srv!Leaving
  <2>1. PICK k \in 1..Len(req.input) :
          /\ req' = [req EXCEPT !.todo = SubSeq(req.input, 1, k), !.input = SubSeq(@, k + 1, Len(@))]
          /\ res' = res
    BY <1>6 DEF Srv!OnRead
  <2> DEFINE y == SubSeq(req.input, 1, k)
             z == SubSeq(req.input, k + 1, Len(req.input))
  <2>2. y \in Seq(Ins) /\ z \in Seq(Ins) /\ y \o z = req.input
    BY <1>4, SplitIs
  <2>3. req' = [req EXCEPT !.todo = y, !.input = z]
    BY <2>1
  <2> HIDE DEF y, z
  <2>4. /\ req' \in Requests /\ req'.called = req.called /\ req'.complete = req.complete /\ req'.end = req.end
        /\ req'.buffered = req.buffered /\ req'.data = req.data /\ req'.todo = y /\ req'.input = z
    BY <1>2, <2>2, <2>3 DEF Requests
  <2>5. Left(req') = Left(req)
    BY <1>4, <2>2, <2>4 DEF Left
  <2>6. InOrder(req', Left(req'), b)
    BY <1>3, <2>4, <2>5, OrderStays
  <2>7. \A a \in 0..Body : Listened(req, hs.heard, a) => Listened(req', hs.heard, a)
    BY <2>4, StillListened
  <2>8. Heeded(req', hs'.heard, hs'.slips)
    BY <1>1, <1>3, <2>4, <2>6, <2>7 DEF Heeded
  <2> QED BY <1>1, <1>2, <2>1, <2>4, <2>8, RequestMoves DEF g
<1> QED BY <1>5, <1>6

\* The invariant of the server holds at the start, every step keeps it, and it
\* says what the property says.
LEMMA ServerStarts ==
  ASSUME HttpConstants, Srv!Init
  PROVE  ServerInv
<1>0. MaxPending \in Nat /\ Body \in Nat /\ 0 \in 0..Body /\ HttpCalls \in Nat /\ 0 \in 0..HttpCalls
  BY DEF HttpConstants, Srv!HttpAssumption
<1>1. /\ server = [handle |-> "null", closed |-> FALSE, tasks |-> <<>>, listened |-> FALSE]
      /\ res = [tcp |-> "none", head |-> "none", length |-> FALSE, finished |-> FALSE,
                pending |-> 0, queue |-> <<>>, blocked |-> FALSE, closing |-> FALSE,
                file |-> FALSE, callback |-> FALSE, left |-> 0, out |-> <<>>, wire |-> <<>>]
      /\ req = [called |-> FALSE, data |-> FALSE, end |-> FALSE, buffered |-> <<>>,
                complete |-> FALSE, paused |-> FALSE, todo |-> <<>>, input |-> <<>>]
      /\ code = "script"
      /\ hs = [given |-> <<>>, heard |-> <<>>, calls |-> 0, slips |-> {}]
  BY DEF Srv!Init
<1>2. /\ <<>> \in Seq(Nat) /\ <<>> \in Seq(Outs) /\ <<>> \in Seq(Ins) /\ <<>> \in Seq(1..Body) /\ <<>> \in Seq(0..Body)
      /\ <<>> \in Seq({"listen", "close"}) /\ Len(<<>>) = 0 /\ <<>> \o <<>> = <<>> /\ DOMAIN <<>> = {}
  OBVIOUS
<1>3. server \in Servers
  BY <1>1, <1>2 DEF Servers
<1>4. req \in Requests
  BY <1>1, <1>2 DEF Requests
<1>5. hs \in Histories
  BY <1>0, <1>1, <1>2 DEF Histories
<1>6. res \in Responses
  BY <1>1, <1>2 DEF Responses
<1>7. /\ res.queue = <<>> /\ res.pending = 0 /\ res.wire = <<>> /\ res.out = <<>> /\ ~res.finished
      /\ ~res.file /\ ~res.callback /\ res.tcp = "none" /\ res.head = "none" /\ Len(hs.given) = 0
      /\ hs.slips = {} /\ hs.heard = <<>> /\ hs.given = <<>>
  BY <1>1, <1>2
<1>8. Right(res, 0, {})
  <2>1. InLine(res, 0)
    BY <1>0, <1>2, <1>7 DEF InLine
  <2>2. OnTheWay(res, 0)
    BY <1>2, <1>7 DEF OnTheWay
  <2>3. Laid(res, 0) /\ FileLaid(res)
    BY <1>2, <1>7 DEF Laid, Begun, Ended, FileLaid
  <2> QED BY <1>6, <1>7, <2>1, <2>2, <2>3 DEF Right
<1>9. /\ ~req.called /\ req.todo = <<>> /\ req.input = <<>> /\ req.buffered = <<>> /\ ~req.data
      /\ ~req.end /\ ~req.complete
  BY <1>1
<1>10. Left(req) = <<>>
  BY <1>2, <1>9 DEF Left
<1>11. Heeded(req, hs.heard, hs.slips)
  <2>1. InOrder(req, Left(req), 0)
    BY <1>2, <1>9, <1>10 DEF InOrder
  <2>2. Listened(req, hs.heard, 0)
    BY <1>2, <1>7, <1>9 DEF Listened
  <2>3. 0 = 0 + Len(req.buffered)
    BY <1>2, <1>9
  <2> QED BY <1>0, <2>1, <2>2, <2>3 DEF Heeded
<1> QED BY <1>1, <1>2, <1>3, <1>4, <1>5, <1>7, <1>8, <1>9, <1>10, <1>11 DEF ServerInv

LEMMA ServerMoves ==
  ASSUME HttpConstants, ServerInv, Srv!Next \/ UNCHANGED srvvars
  PROVE  ServerInv'
<1>1. CASE Srv!Script
  <2>1. CASE Srv!Listen \/ Srv!CloseServer
    BY <2>1, QuietCalls
  <2>2. CASE Srv!Write
    BY <2>2, WriteKeeps
  <2>3. CASE Srv!EndCall
    BY <2>3, EndKeeps
  <2>4. CASE Srv!SetLength \/ Srv!FlushHeaders
    BY <2>4, HeadCalls
  <2>5. CASE Srv!SendFileCall
    BY <2>5, SendFileKeeps
  <2>6. CASE Srv!OnData \/ Srv!OnEnd \/ Srv!PauseResume
    BY <2>6, ListenerCalls
  <2>7. CASE Srv!Throw
    BY <2>7, ThrowKeeps
  <2> QED BY <1>1, <2>1, <2>2, <2>3, <2>4, <2>5, <2>6, <2>7 DEF Srv!Script
<1>2. CASE Srv!Return \/ Srv!OtherTask
  BY <1>2, QuietCalls
<1>3. CASE Srv!Reads
  BY <1>3, ConnectionKeeps, ReadKeeps DEF Srv!Reads
<1>4. CASE Srv!Parses
  BY <1>4, ParseKeeps DEF Srv!Parses
<1>5. CASE Srv!UvAnswers
  BY <1>5, UvKeeps, QuietCalls DEF Srv!UvAnswers
<1>6. CASE UNCHANGED srvvars
  <2>1. server' = server /\ res' = res /\ req' = req /\ code' = code /\ hs' = hs
    BY <1>6 DEF srvvars
  <2> QED BY <2>1, ResponseMoves DEF ServerInv
<1> QED BY <1>1, <1>2, <1>3, <1>4, <1>5, <1>6 DEF Srv!Next

LEMMA WholeServed ==
  ASSUME HttpConstants, ServerInv
  PROVE  Srv!ServesWhole /\ Srv!TypeOK
<1> DEFINE g == Len(hs.given)
<1>1. /\ res \in Responses /\ hs \in Histories /\ req \in Requests /\ Right(res, g, hs.slips)
      /\ g \in Nat /\ hs.given \in Seq(Nat) /\ res.wire \in Seq(Outs) /\ res.queue \in Seq(Nat)
      /\ \A i \in DOMAIN hs.given : hs.given[i] = i
  BY DEF ServerInv, Right, Histories, Responses
<1>2. Srv!TypeOK
  BY <1>1 DEF Srv!TypeOK, ServerInv, Servers, Requests, Histories, Responses
<1>3. InLine(res, g) /\ OnTheWay(res, g) /\ res.pending \in Nat /\ Passed(res, g) \in Nat /\ Passed(res, g) <= g
      /\ (res.queue = <<>> => Passed(res, g) = g)
  <2>1. InLine(res, g) /\ OnTheWay(res, g) /\ res.pending \in Nat
    BY <1>1 DEF Right, Responses
  <2>2. Len(res.queue) \in Nat /\ Len(res.queue) <= g /\ (res.queue = <<>> => Len(res.queue) = 0)
    BY <1>1, <2>1 DEF InLine
  <2> HIDE DEF g
  <2> QED BY <1>1, <2>1, <2>2 DEF Passed
<1>4. ASSUME AllPassed(res, g), Passed(res, g) = g
      PROVE  Srv!AllSent
  <2>1. \A n \in DOMAIN hs.given : n + 1 \in DOMAIN res.wire /\ n + 1 \in 2..(g + 1)
    BY <1>1, <1>4 DEF AllPassed
  <2> QED BY <1>4, <2>1 DEF AllPassed, AChunk, Srv!AllSent, Srv!IsChunk
<1>5. ASSUME "file" \notin hs.slips
      PROVE  Srv!SentInOrder
  <2>1. Begun(res, g)
    BY <1>1, <1>5 DEF Right, Laid
  <2>2. ASSUME NEW i \in DOMAIN res.wire
        PROVE  /\ res.wire[i].kind = "head" <=> i = 1
               /\ Srv!IsChunk(i) => i - 1 \in DOMAIN hs.given /\ res.wire[i].n = hs.given[i - 1]
               /\ res.wire[i].kind = "last" => res.finished /\ i = Len(res.wire) /\ Srv!AllSent
    <3>1. res.wire[i].kind = "head" <=> i = 1
      BY <2>1 DEF Begun
    <3>2. ASSUME Srv!IsChunk(i)
          PROVE  i - 1 \in DOMAIN hs.given /\ res.wire[i].n = hs.given[i - 1]
      <4>1. AChunk(res, i) /\ i # 1
        BY <3>1, <3>2 DEF AChunk, Srv!IsChunk
      <4>2. res.wire[i].n = i - 1 /\ i - 1 <= Passed(res, g)
        BY <2>1, <2>2, <4>1 DEF Begun
      <4>3. i \in Nat /\ i # 0
        BY <1>1
      <4>4. i - 1 \in 1..g
        BY <1>1, <1>3, <4>1, <4>2, <4>3
      <4> QED BY <1>1, <4>2, <4>4
    <3>3. ASSUME res.wire[i].kind = "last"
          PROVE  res.finished /\ i = Len(res.wire) /\ Srv!AllSent
      <4>1. i = Len(res.wire) /\ res.finished /\ res.queue = <<>> /\ AllPassed(res, g)
        BY <2>1, <2>2, <3>3 DEF Begun
      <4> QED BY <1>3, <1>4, <4>1
    <3> QED BY <3>1, <3>2, <3>3
  <2> QED BY <2>2 DEF Srv!SentInOrder
<1>6. ASSUME res.finished, res.out = <<>>, res.tcp = "open", hs.slips = {}
      PROVE  /\ Srv!AllSent /\ ~res.callback
             /\ res.head = "chunked" => \E i \in DOMAIN res.wire : res.wire[i].kind = "last"
  <2>1. res.queue = <<>> /\ Begun(res, g) /\ Ended(res) /\ FileLaid(res)
    BY <1>1, <1>6 DEF Right, Laid
  <2>2. res.head # "none"
    BY <1>3, <1>6 DEF InLine
  <2>3. res.pending = 0
    <3>1. \A n \in (Passed(res, g) - res.pending + 1)..Passed(res, g) : FALSE
      BY <1>3, <1>6 DEF OnTheWay
    <3> DEFINE p == Passed(res, g)
               k == res.pending
    <3>2. p \in Nat /\ k \in Nat /\ \A n \in (p - k + 1)..p : FALSE
      BY <1>3, <3>1
    <3> HIDE DEF p, k
    <3>3. k # 0 => p \in (p - k + 1)..p
      BY <3>2
    <3> QED BY <3>2, <3>3 DEF k
  <2>4. Srv!AllSent
    BY <1>3, <1>4, <1>6, <2>1, <2>2 DEF Begun
  <2>5. ~res.callback
    BY <1>6, <2>1 DEF FileLaid
  <2>6. res.head = "chunked" => res.wire # <<>> /\ res.wire[Len(res.wire)].kind = "last"
    BY <1>6, <2>1, <2>3 DEF Ended
  <2>7. res.wire # <<>> => Len(res.wire) \in DOMAIN res.wire
    BY <1>1
  <2> QED BY <2>4, <2>5, <2>6, <2>7
<1>7. ASSUME "late" \notin hs.slips
      PROVE  Srv!BodyIsHeard
  <2>1. PICK a \in 0..Body : Listened(req, hs.heard, a)
    BY <1>7 DEF ServerInv, Heeded
  <2>2. hs.heard \in Seq(0..Body) /\ Body \in Nat /\ a \in Nat
    BY <1>1 DEF Histories, HttpConstants, Srv!HttpAssumption
  <2> DEFINE s == [i \in 1..a |-> i]
             t == [i \in 1..(a + 1) |-> IF i > a THEN 0 ELSE i]
  <2>3. /\ s \in Seq(0..Body) /\ Len(s) = a /\ \A i \in 1..a : s[i] = i
    BY <2>2
  <2>4. /\ t \in Seq(0..Body) /\ Len(t) = a + 1 /\ \A i \in 1..(a + 1) : t[i] = IF i > a THEN 0 ELSE i
    BY <2>2
  <2> HIDE DEF s, t
  <2>5. hs.heard \in {s, t}
    <3>1. CASE Len(hs.heard) = a
      <4>1. \A i \in 1..Len(s) : s[i] = hs.heard[i]
        BY <2>1, <2>3 DEF Listened
      <4> QED BY <2>2, <2>3, <3>1, <4>1, SeqEqual
    <3>2. CASE Len(hs.heard) = a + 1
      <4>1. hs.heard[a + 1] = 0 /\ \A i \in 1..a : hs.heard[i] = i
        BY <2>1, <3>2 DEF Listened
      <4>2. \A i \in 1..(a + 1) : i > a => i = a + 1
        BY <2>2
      <4>3. \A i \in 1..(a + 1) : ~(i > a) => i \in 1..a
        BY <2>2
      <4>4. \A i \in 1..Len(t) : t[i] = hs.heard[i]
        BY <2>4, <4>1, <4>2, <4>3
      <4> QED BY <2>2, <2>4, <3>2, <4>4, SeqEqual
    <3> QED BY <2>1, <3>1, <3>2 DEF Listened
  <2>6. req.data => req.buffered = <<>>
    BY <2>1 DEF Listened
  <2>7. req.complete /\ req.end /\ req.data => 0 \in Srv!Range(hs.heard)
    <3> SUFFICES ASSUME req.complete, req.end, req.data
                 PROVE  0 \in Srv!Range(hs.heard)
      OBVIOUS
    <3>1. Len(hs.heard) = a + 1 /\ hs.heard[a + 1] = 0
      BY <2>1, <2>6 DEF Listened
    <3>2. a + 1 \in DOMAIN hs.heard
      BY <2>2, <3>1
    <3> QED BY <3>1, <3>2 DEF Srv!Range
  <2> QED BY <2>5, <2>6, <2>7 DEF Srv!BodyIsHeard, s, t
<1>8. Srv!SentInOrder
  BY <1>5 DEF Srv!SentInOrder
<1>9. Srv!FinishedIsSent
  BY <1>6 DEF Srv!FinishedIsSent
<1>10. Srv!BodyIsHeard
  BY <1>7 DEF Srv!BodyIsHeard
<1> QED BY <1>2, <1>8, <1>9, <1>10 DEF Srv!ServesWhole

-----------------------------------------------------------------------------
\* The client: the request with its socket, and the tasks.
Chat == {"say", "hear"}

Conns ==
  [phase : Cli!Phases, body : {"none", "fixed", "file", "stream"}, file : Nat, closed : BOOLEAN,
   sent : BOOLEAN, complete : BOOLEAN, writing : BOOLEAN, flight : BOOLEAN, queue : Seq(Cli!Parts),
   paused : BOOLEAN, reading : BOOLEAN, up : Seq(Cli!Parts)]
Pairs == [c : Conns, p : Seq(Cli!Jobs)]

\* The events of an exchange, in the order they must be told.
Main(x) == x.kind \in {"connect", "response", "data", "end"}
Rank(x) ==
  CASE x.kind = "connect" -> 0 [] x.kind = "response" -> 1 [] x.kind = "end" -> Answer + 2
    [] OTHER -> x.n + 1
\* The second of two events may be told after the first.
Good(slips) ==
  {q \in Cli!Parts \X Cli!Parts :
     /\ Main(q[1]) /\ Main(q[2]) => Rank(q[1]) < Rank(q[2])
     /\ ~(q[1].kind = "close" /\ q[2].kind = "close")
     /\ slips \cap {"inFlight", "late"} = {} /\ q[1].kind = "close" => q[2].kind = "drain"}

\* An event has been heard, or waits as a task to hear it, or as a task to say it,
\* and moves from the end of one of these to the next: they are told in the order
\* of their places.
At(h, p, z, i) ==
  \/ z = 0 /\ i \in DOMAIN h
  \/ z = 1 /\ i \in DOMAIN p /\ p[i].do = "hear"
  \/ z = 2 /\ i \in DOMAIN p /\ p[i].do = "say"
Event(h, p, z, i) == IF z = 0 THEN h[i] ELSE p[i].event
Earlier(z, i, y, j) == z < y \/ (z = y /\ i < j)
Ordered(h, p, P) ==
  \A z, y \in 0..2, i, j \in Nat :
    At(h, p, z, i) /\ At(h, p, y, j) /\ Earlier(z, i, y, j) =>
      <<Event(h, p, z, i), Event(h, p, y, j)>> \in P
Placed(h, p) == {x \in Cli!Parts : \E z \in 0..2, i \in Nat : At(h, p, z, i) /\ x = Event(h, p, z, i)}

\* What has been told and what is left of the answer, a after its first m parts,
\* make one answer.
Talks(s, h, a, m, slips) ==
  /\ Ordered(h, s.p, Good(slips))
  /\ ~s.c.sent => \A x \in Placed(h, s.p) : ~Main(x)
  /\ \A x \in Placed(h, s.p) : /\ x.kind = "close" => s.c.closed
                               /\ x.kind = "data" => x.n \in 1..Answer
  /\ \A x \in Placed(h, s.p), i \in DOMAIN a :
       i > m /\ Main(x) /\ Main(a[i]) => Rank(x) < Rank(a[i])
  /\ \A n \in 1..Answer :
       Cli!Part("data", n) \in Placed(h, s.p) \/ \E i \in DOMAIN a : i > m /\ a[i] = Cli!Part("data", n)
AnAnswer(a) ==
  /\ a \in Seq(Cli!Parts)
  /\ \A i \in DOMAIN a :
       /\ a[i].kind \in {"response", "data", "end", "bad", "eof", "reset"}
       /\ a[i].kind = "data" => a[i].n \in 1..Answer
       /\ a[i].kind \notin {"response", "data"} => i = Len(a)
  /\ \A i, j \in DOMAIN a : i < j /\ Main(a[i]) /\ Main(a[j]) => Rank(a[i]) < Rank(a[j])

\* The phases of the socket.
Phased(s) ==
  /\ s.c.closed <=> s.c.phase \in {"closing", "gone"}
  /\ s.c.phase \in {"queued", "resolving", "connecting", "stuck", "failed"} => ~s.c.sent
  /\ s.c.phase \in {"open", "broken"} => s.c.sent
  /\ \A i \in DOMAIN s.p : s.p[i].do = "start" => i = 1 /\ s.c.phase = "queued"

\* What goes up: u is what uv was given, or also what waits for it, when g chunks
\* were written.
Upload(u, g, complete) ==
  \A i \in DOMAIN u :
    /\ u[i].kind = "head" <=> i = 1
    /\ u[i].kind = "chunk" => u[i].n = i - 1
    /\ u[i].kind = "last" => i = Len(u) /\ i = g + 2 /\ complete
FileJobs(p) == {i \in DOMAIN p : p[i].do = "file"}
Uploads(s, g) ==
  LET u == s.c.up \o s.c.queue IN
  /\ Upload(s.c.up, g, s.c.complete)
  /\ ~s.c.sent => u = <<>> /\ g = 0 /\ ~s.c.complete /\ FileJobs(s.p) = {}
  /\ s.c.phase = "open" =>
       /\ Upload(u, g, s.c.complete) /\ u # <<>>
       /\ s.c.body = "stream" => Len(u) = g + 1 + (IF s.c.complete THEN 1 ELSE 0)
       /\ FileJobs(s.p) # {} => Len(u) = 1
  /\ FileJobs(s.p) # {} => s.c.body = "file"
  /\ \A i, j \in FileJobs(s.p) : i = j

Heards == {x \in Cli!Parts : x.kind # "drain"}
Stories == [given : Nat, heard : Seq(Heards), calls : 0..ClientCalls,
            slips : SUBSET {"misplaced", "late", "inFlight"}]
ClientInv ==
  /\ Cli!State \in Pairs /\ ch \in Stories /\ ran \in {"script", "loop"}
  /\ AnAnswer(input) /\ Phased(Cli!State)
  /\ Talks(Cli!State, ch.heard, input, 0, ch.slips)
  /\ "misplaced" \notin ch.slips => Uploads(Cli!State, ch.given)

\* The places of the events, as the tasks go round.
Moved(h, p, g, q, Z, I) ==
  \A z \in 0..2, i \in Nat : At(g, q, z, i) =>
    /\ Z[z][i] \in 0..2 /\ I[z][i] \in Nat /\ At(h, p, Z[z][i], I[z][i])
    /\ Event(g, q, z, i) = Event(h, p, Z[z][i], I[z][i])
Following(g, q, Z, I) ==
  \A z, y \in 0..2, i, j \in Nat :
    At(g, q, z, i) /\ At(g, q, y, j) /\ Earlier(z, i, y, j) =>
      Earlier(Z[z][i], I[z][i], Z[y][j], I[y][j])

\* Events that keep the order of their places stay in order.
LEMMA SameOrder ==
  ASSUME NEW h, NEW p, NEW g, NEW q, NEW P, Ordered(h, p, P), NEW Z, NEW I,
         Moved(h, p, g, q, Z, I), Following(g, q, Z, I)
  PROVE  Ordered(g, q, P) /\ Placed(g, q) \subseteq Placed(h, p)
<1>1. ASSUME NEW z \in 0..2, NEW y \in 0..2, NEW i \in Nat, NEW j \in Nat,
             At(g, q, z, i), At(g, q, y, j), Earlier(z, i, y, j)
      PROVE  <<Event(g, q, z, i), Event(g, q, y, j)>> \in P
  <2>1. /\ Z[z][i] \in 0..2 /\ I[z][i] \in Nat /\ At(h, p, Z[z][i], I[z][i])
        /\ Event(g, q, z, i) = Event(h, p, Z[z][i], I[z][i])
        /\ Z[y][j] \in 0..2 /\ I[y][j] \in Nat /\ At(h, p, Z[y][j], I[y][j])
        /\ Event(g, q, y, j) = Event(h, p, Z[y][j], I[y][j])
        /\ Earlier(Z[z][i], I[z][i], Z[y][j], I[y][j])
    BY <1>1 DEF Moved, Following
  <2> QED BY <2>1 DEF Ordered
<1>2. ASSUME NEW x \in Placed(g, q)
      PROVE  x \in Placed(h, p)
  <2>1. PICK z \in 0..2, i \in Nat : At(g, q, z, i) /\ x = Event(g, q, z, i)
    BY DEF Placed
  <2>2. /\ Z[z][i] \in 0..2 /\ I[z][i] \in Nat /\ At(h, p, Z[z][i], I[z][i])
        /\ x = Event(h, p, Z[z][i], I[z][i])
    BY <2>1 DEF Moved
  <2>3. x \in Cli!Parts
    BY DEF Placed
  <2> QED BY <2>2, <2>3 DEF Placed
<1> QED BY <1>1, <1>2 DEF Ordered

\* And come from the same events.
LEMMA SamePlaces ==
  ASSUME NEW h, NEW p, NEW g, NEW q, NEW Z, NEW I,
         Moved(h, p, g, q, Z, I)
  PROVE  Placed(g, q) \subseteq Placed(h, p)
<1>2. ASSUME NEW x \in Placed(g, q)
      PROVE  x \in Placed(h, p)
  <2>1. PICK z \in 0..2, i \in Nat : At(g, q, z, i) /\ x = Event(g, q, z, i)
    BY DEF Placed
  <2>2. /\ Z[z][i] \in 0..2 /\ I[z][i] \in Nat /\ At(h, p, Z[z][i], I[z][i])
        /\ x = Event(h, p, Z[z][i], I[z][i])
    BY <2>1 DEF Moved
  <2>3. x \in Cli!Parts
    BY DEF Placed
  <2> QED BY <2>2, <2>3 DEF Placed
<1> QED BY <1>2

\* A task that is not of an event comes.
LEMMA JobComes ==
  ASSUME NEW h, NEW p \in Seq(Cli!Jobs), NEW P, Ordered(h, p, P), NEW j \in Cli!Jobs, j.do \notin Chat
  PROVE  Ordered(h, Append(p, j), P) /\ Placed(h, Append(p, j)) = Placed(h, p)
<1> DEFINE q == Append(p, j)
<1>1. q \in Seq(Cli!Jobs) /\ Longer(p, j, q)
  BY AppendIsLonger
<1> HIDE DEF q
<1>2. ASSUME NEW z, NEW i
      PROVE  /\ At(h, q, z, i) <=> At(h, p, z, i)
             /\ At(h, p, z, i) => Event(h, q, z, i) = Event(h, p, z, i)
  <2>1. i \in DOMAIN p => i \in DOMAIN q /\ q[i] = p[i]
    BY <1>1 DEF Longer
  <2>2. i \in DOMAIN q => i \in DOMAIN p \/ q[i] = j
    BY <1>1 DEF Longer
  <2> QED BY <2>1, <2>2 DEF At, Event, Chat
<1>3. Ordered(h, q, P)
  BY <1>2 DEF Ordered
<1>4. Placed(h, q) = Placed(h, p)
  BY <1>2 DEF Placed
<1> QED BY <1>3, <1>4 DEF q

\* An event is said: it comes after all that were.
LEMMA EventComes ==
  ASSUME NEW S, NEW h \in Seq(S), NEW p \in Seq(Cli!Jobs), NEW P, Ordered(h, p, P), NEW j \in Cli!Jobs, j.do = "say",
         \A x \in Placed(h, p) : <<x, j.event>> \in P, S \subseteq Cli!Parts
  PROVE  Ordered(h, Append(p, j), P) /\ Placed(h, Append(p, j)) = Placed(h, p) \cup {j.event}
<1> DEFINE q == Append(p, j)
<1>1. q \in Seq(Cli!Jobs) /\ Longer(p, j, q)
  BY AppendIsLonger
<1> HIDE DEF q
<1>a. Len(p) \in Nat /\ j.event \in Cli!Parts /\ DOMAIN p = 1..Len(p)
  BY DEF Cli!Jobs
<1>2. ASSUME NEW z \in 0..2, NEW i \in Nat
      PROVE  /\ At(h, q, z, i) <=> At(h, p, z, i) \/ (z = 2 /\ i = Len(p) + 1)
             /\ At(h, p, z, i) => Event(h, q, z, i) = Event(h, p, z, i) /\ (z # 0 => i <= Len(p))
             /\ Event(h, q, 2, Len(p) + 1) = j.event
  <2>1. i \in DOMAIN p => i \in DOMAIN q /\ q[i] = p[i] /\ i <= Len(p)
    BY <1>1, <1>a DEF Longer
  <2>2. i \in DOMAIN q <=> i \in DOMAIN p \/ i = Len(p) + 1
    BY <1>1, <1>a DEF Longer
  <2>3. q[Len(p) + 1] = j /\ Len(p) + 1 \in DOMAIN q
    BY <1>1, <1>a DEF Longer
  <2> QED BY <2>1, <2>2, <2>3 DEF At, Event, Chat
<1>3. ASSUME NEW z \in 0..2, NEW i \in Nat, At(h, p, z, i)
      PROVE  Event(h, p, z, i) \in Placed(h, p)
  <2>1. Event(h, p, z, i) \in Cli!Parts
    <3>1. CASE z = 0
      <4>1. i \in DOMAIN h
        BY <1>3, <3>1 DEF At
      <4>2. h[i] \in S
        BY <4>1
      <4> QED BY <3>1, <4>2 DEF Event
    <3>2. CASE z # 0
      <4>1. i \in DOMAIN p
        BY <1>3, <3>2 DEF At
      <4>2. p[i] \in Cli!Jobs
        BY <4>1
      <4> QED BY <3>2, <4>2 DEF Event, Cli!Jobs
    <3> QED BY <3>1, <3>2
  <2> QED BY <1>3, <2>1 DEF Placed
<1>4. ASSUME NEW z \in 0..2, NEW y \in 0..2, NEW i \in Nat, NEW k \in Nat,
             At(h, q, z, i), At(h, q, y, k), Earlier(z, i, y, k)
      PROVE  <<Event(h, q, z, i), Event(h, q, y, k)>> \in P
  <2>1. At(h, p, z, i)
    <3>1. CASE z = 2 /\ i = Len(p) + 1
      <4>1. y = 2 /\ k > Len(p) + 1
        BY <1>4, <3>1 DEF Earlier
      <4> QED BY <1>2, <1>4, <1>a, <4>1
    <3> QED BY <1>2, <1>4, <3>1
  <2>2. CASE At(h, p, y, k)
    BY <1>2, <1>4, <2>1, <2>2 DEF Ordered
  <2>3. CASE y = 2 /\ k = Len(p) + 1
    BY <1>2, <1>3, <2>1, <2>3
  <2> QED BY <1>2, <1>4, <2>2, <2>3
<1>5. Ordered(h, q, P)
  BY <1>4 DEF Ordered
<1>6. ASSUME NEW x \in Placed(h, q)
      PROVE  x \in Placed(h, p) \cup {j.event}
  <2>1. PICK z \in 0..2, i \in Nat : At(h, q, z, i) /\ x = Event(h, q, z, i)
    BY DEF Placed
  <2> QED BY <1>2, <1>3, <2>1
<1>7. ASSUME NEW x \in Placed(h, p)
      PROVE  x \in Placed(h, q)
  <2>1. PICK z \in 0..2, i \in Nat : At(h, p, z, i) /\ x = Event(h, p, z, i)
    BY DEF Placed
  <2>2. At(h, q, z, i) /\ x = Event(h, q, z, i) /\ x \in Cli!Parts
    BY <1>2, <2>1 DEF Placed
  <2> QED BY <2>2 DEF Placed
<1>8. j.event \in Placed(h, q)
  <2>1. 2 \in 0..2 /\ Len(p) + 1 \in Nat
    BY <1>a
  <2>2. At(h, q, 2, Len(p) + 1) /\ j.event = Event(h, q, 2, Len(p) + 1)
    BY <1>2, <2>1
  <2> QED BY <1>a, <2>1, <2>2 DEF Placed
<1>9. Placed(h, q) = Placed(h, p) \cup {j.event}
  BY <1>6, <1>7, <1>8
<1> QED BY <1>5, <1>9 DEF q

\* The first task goes.
LEMMA HeadGoes ==
  ASSUME NEW h, NEW p \in Seq(Cli!Jobs), NEW P, Ordered(h, p, P), p # <<>>
  PROVE  /\ Ordered(h, Tail(p), P) /\ Placed(h, Tail(p)) \subseteq Placed(h, p)
         /\ Placed(h, p) \subseteq Placed(h, Tail(p)) \cup {x \in {p[1].event} : p[1].do \in Chat}
<1> DEFINE q == Tail(p)
           Z == [z \in 0..2 |-> [i \in Nat |-> z]]
           I == [z \in 0..2 |-> [i \in Nat |-> IF z = 0 THEN i ELSE i + 1]]
<1>1. q \in Seq(Cli!Jobs) /\ Shorter(p, q)
  BY TailIsShorter
<1>2. ASSUME NEW z \in 0..2, NEW i \in Nat
      PROVE  Z[z][i] = z /\ I[z][i] = (IF z = 0 THEN i ELSE i + 1)
  OBVIOUS
<1> HIDE DEF q, Z, I
<1>3. \A i \in Nat : i \in DOMAIN q => i + 1 \in DOMAIN p /\ q[i] = p[i + 1]
  BY <1>1 DEF Shorter
<1>4. \A i \in Nat : i \in DOMAIN p /\ i # 1 => i - 1 \in DOMAIN q /\ q[i - 1] = p[i] /\ i - 1 \in Nat
  BY <1>1 DEF Shorter
<1>5. ASSUME NEW z \in 0..2, NEW i \in Nat, At(h, q, z, i)
      PROVE  /\ Z[z][i] \in 0..2 /\ I[z][i] \in Nat /\ At(h, p, Z[z][i], I[z][i])
             /\ Event(h, q, z, i) = Event(h, p, Z[z][i], I[z][i])
  <2>1. Z[z][i] = z
    BY <1>2
  <2>4. i + 1 \in Nat
    OBVIOUS
  <2>2. CASE z = 0
    <3>1. I[z][i] = i
      BY <1>2, <2>2
    <3> QED BY <1>5, <2>1, <2>2, <3>1 DEF At, Event
  <2>3. CASE z # 0
    <3>1. I[z][i] = i + 1
      BY <1>2, <2>3
    <3>2. i \in DOMAIN q
      BY <1>5, <2>3 DEF At
    <3>3. i + 1 \in DOMAIN p /\ q[i] = p[i + 1]
      BY <1>3, <3>2
    <3> QED BY <1>5, <2>1, <2>3, <2>4, <3>1, <3>3 DEF At, Event
  <2> QED BY <2>2, <2>3
<1>6. ASSUME NEW z \in 0..2, NEW y \in 0..2, NEW i \in Nat, NEW j \in Nat, Earlier(z, i, y, j)
      PROVE  Earlier(Z[z][i], I[z][i], Z[y][j], I[y][j])
  <2>1. Z[z][i] = z /\ I[z][i] = (IF z = 0 THEN i ELSE i + 1)
    BY <1>2
  <2>2. Z[y][j] = y /\ I[y][j] = (IF y = 0 THEN j ELSE j + 1)
    BY <1>2
  <2>3. i < j => i + 1 < j + 1
    OBVIOUS
  <2>4. Z[z][i] < Z[y][j] \/ (Z[z][i] = Z[y][j] /\ I[z][i] < I[y][j])
    BY <1>6, <2>1, <2>2, <2>3 DEF Earlier
  <2> QED BY <2>4 DEF Earlier
<1>7. ASSUME NEW x \in Placed(h, p)
      PROVE  x \in Placed(h, q) \/ (x = p[1].event /\ p[1].do \in Chat)
  <2>1. PICK z \in 0..2, i \in Nat : At(h, p, z, i) /\ x = Event(h, p, z, i)
    BY DEF Placed
  <2>2. x \in Cli!Parts
    BY DEF Placed
  <2>3. CASE z = 0
    <3>1. At(h, q, 0, i) /\ x = Event(h, q, 0, i) /\ 0 \in 0..2
      BY <2>1, <2>3 DEF At, Event
    <3> QED BY <2>2, <3>1 DEF Placed
  <2>4. CASE z # 0 /\ i = 1
    BY <2>1, <2>4 DEF Event, At, Chat
  <2>5. CASE z # 0 /\ i # 1
    <3>1. i - 1 \in DOMAIN q /\ q[i - 1] = p[i] /\ i - 1 \in Nat
      BY <1>4, <2>1, <2>5 DEF At
    <3>2. At(h, q, z, i - 1) /\ x = Event(h, q, z, i - 1)
      BY <2>1, <2>5, <3>1 DEF At, Event
    <3> QED BY <2>2, <3>1, <3>2 DEF Placed
  <2> QED BY <2>3, <2>4, <2>5
<1>a. Moved(h, p, h, q, Z, I)
  BY <1>5 DEF Moved
<1>b. Following(h, q, Z, I)
  BY <1>6 DEF Following
<1>8. Ordered(h, q, P) /\ Placed(h, q) \subseteq Placed(h, p)
  BY <1>a, <1>b, SameOrder
<1>9. Placed(h, p) \subseteq Placed(h, q) \cup {x \in {p[1].event} : p[1].do \in Chat}
  BY <1>7
<1> QED BY <1>8, <1>9 DEF q

\* A task that is not of an event goes.
LEMMA JobGoes ==
  ASSUME NEW h, NEW p \in Seq(Cli!Jobs), NEW P, Ordered(h, p, P), p # <<>>, p[1].do \notin Chat
  PROVE  Ordered(h, Tail(p), P) /\ Placed(h, Tail(p)) = Placed(h, p)
<1>1. /\ Ordered(h, Tail(p), P) /\ Placed(h, Tail(p)) \subseteq Placed(h, p)
      /\ Placed(h, p) \subseteq Placed(h, Tail(p)) \cup {x \in {p[1].event} : p[1].do \in Chat}
  BY HeadGoes
<1> QED BY <1>1

\* An event that was said is heard of: its listener is queued.
LEMMA EventIsRelayed ==
  ASSUME NEW h, NEW p \in Seq(Cli!Jobs), NEW P, Ordered(h, p, P), p # <<>>, p[1].do = "say",
         NEW j \in Cli!Jobs, j.do = "hear", j.event = p[1].event
  PROVE  Ordered(h, Append(Tail(p), j), P) /\ Placed(h, Append(Tail(p), j)) = Placed(h, p)
<1> DEFINE r == Tail(p)
           q == Append(r, j)
           N == Len(p)
           Z == [z \in 0..2 |-> [i \in Nat |-> IF z = 1 /\ i = N THEN 2 ELSE z]]
           I == [z \in 0..2 |-> [i \in Nat |-> IF z = 0 THEN i ELSE IF z = 1 /\ i = N THEN 1 ELSE i + 1]]
           Y == [z \in 0..2 |-> [i \in Nat |-> IF z = 2 /\ i = 1 THEN 1 ELSE z]]
           J == [z \in 0..2 |-> [i \in Nat |-> IF z = 0 THEN i ELSE IF z = 2 /\ i = 1 THEN N ELSE i - 1]]
<1>1. r \in Seq(Cli!Jobs) /\ Shorter(p, r)
  BY TailIsShorter
<1>2. q \in Seq(Cli!Jobs) /\ Longer(r, j, q)
  BY <1>1, AppendIsLonger
<1>3. ASSUME NEW z \in 0..2, NEW i \in Nat
      PROVE  /\ Z[z][i] = (IF z = 1 /\ i = N THEN 2 ELSE z)
             /\ I[z][i] = (IF z = 0 THEN i ELSE IF z = 1 /\ i = N THEN 1 ELSE i + 1)
             /\ Y[z][i] = (IF z = 2 /\ i = 1 THEN 1 ELSE z)
             /\ J[z][i] = (IF z = 0 THEN i ELSE IF z = 2 /\ i = 1 THEN N ELSE i - 1)
  OBVIOUS
<1>4. N \in Nat /\ N >= 1 /\ DOMAIN p = 1..N /\ Len(r) = N - 1 /\ DOMAIN r = 1..(N - 1)
  BY <1>1 DEF Shorter
<1> HIDE DEF q, r, N, Z, I, Y, J
<1>5. DOMAIN q = 1..N /\ q[N] = j
  BY <1>2, <1>4 DEF Longer
<1>6. \A i \in Nat : i \in DOMAIN q /\ i # N => i + 1 \in DOMAIN p /\ q[i] = p[i + 1] /\ i < N /\ i >= 1
  <2>1. ASSUME NEW i \in 1..(N - 1)
        PROVE  i + 1 \in 1..N /\ q[i] = p[i + 1]
    BY <1>1, <1>2, <1>4 DEF Longer, Shorter
  <2> QED BY <1>4, <1>5, <2>1
<1>7. \A i \in Nat : i \in DOMAIN p /\ i # 1 => i - 1 \in DOMAIN q /\ q[i - 1] = p[i] /\ i - 1 \in Nat
  <2>1. ASSUME NEW i \in 2..N
        PROVE  i - 1 \in 1..(N - 1) /\ r[i - 1] = p[i]
    <3>1. i - 1 \in DOMAIN r /\ (i - 1) + 1 = i
      BY <1>4
    <3> QED BY <1>1, <1>4, <3>1 DEF Shorter
  <2>2. ASSUME NEW i \in 2..N
        PROVE  i - 1 \in DOMAIN q /\ q[i - 1] = p[i]
    BY <1>2, <1>4, <1>5, <2>1 DEF Longer
  <2> QED BY <1>4, <2>2
<1>8. ASSUME NEW z \in 0..2, NEW i \in Nat, At(h, q, z, i)
      PROVE  /\ Z[z][i] \in 0..2 /\ I[z][i] \in Nat /\ At(h, p, Z[z][i], I[z][i])
             /\ Event(h, q, z, i) = Event(h, p, Z[z][i], I[z][i])
  <2>1. i + 1 \in Nat
    OBVIOUS
  <2>2. CASE z = 0
    <3>1. Z[z][i] = 0 /\ I[z][i] = i
      BY <1>3, <2>2
    <3> QED BY <1>8, <2>2, <3>1 DEF At, Event
  <2>3. CASE z # 0 /\ i # N
    <3>1. Z[z][i] = z /\ I[z][i] = i + 1
      BY <1>3, <2>3
    <3>2. i + 1 \in DOMAIN p /\ q[i] = p[i + 1]
      BY <1>6, <1>8, <2>3 DEF At
    <3> QED BY <1>8, <2>1, <2>3, <3>1, <3>2 DEF At, Event
  <2>4. CASE z # 0 /\ i = N
    <3>1. z = 1
      BY <1>5, <1>8, <2>4 DEF At
    <3>2. Z[z][i] = 2 /\ I[z][i] = 1
      BY <1>3, <2>4, <3>1
    <3>3. 1 \in DOMAIN p
      BY <1>4
    <3> QED BY <1>5, <2>4, <3>1, <3>2, <3>3 DEF At, Event
  <2> QED BY <2>2, <2>3, <2>4
<1>9. ASSUME NEW z \in 0..2, NEW y \in 0..2, NEW i \in Nat, NEW k \in Nat,
             At(h, q, z, i), At(h, q, y, k), Earlier(z, i, y, k)
      PROVE  Earlier(Z[z][i], I[z][i], Z[y][k], I[y][k])
  <2>1. Z[z][i] = (IF z = 1 /\ i = N THEN 2 ELSE z)
        /\ I[z][i] = (IF z = 0 THEN i ELSE IF z = 1 /\ i = N THEN 1 ELSE i + 1)
    BY <1>3
  <2>2. Z[y][k] = (IF y = 1 /\ k = N THEN 2 ELSE y)
        /\ I[y][k] = (IF y = 0 THEN k ELSE IF y = 1 /\ k = N THEN 1 ELSE k + 1)
    BY <1>3
  <2>3. z # 0 => i >= 1 /\ i <= N
    BY <1>4, <1>5, <1>8, <1>9 DEF At
  <2>4. y # 0 => k >= 1 /\ k <= N
    BY <1>4, <1>5, <1>9 DEF At
  <2>5. z < y \/ (z = y /\ i < k)
    BY <1>9 DEF Earlier
  <2>6. Z[z][i] < Z[y][k] \/ (Z[z][i] = Z[y][k] /\ I[z][i] < I[y][k])
    BY <1>4, <2>1, <2>2, <2>3, <2>4, <2>5
  <2> QED BY <2>6 DEF Earlier
<1>10. ASSUME NEW z \in 0..2, NEW i \in Nat, At(h, p, z, i)
       PROVE  /\ Y[z][i] \in 0..2 /\ J[z][i] \in Nat /\ At(h, q, Y[z][i], J[z][i])
              /\ Event(h, p, z, i) = Event(h, q, Y[z][i], J[z][i])
  <2>1. CASE z = 0
    <3>1. Y[z][i] = 0 /\ J[z][i] = i
      BY <1>3, <2>1
    <3> QED BY <1>10, <2>1, <3>1 DEF At, Event
  <2>2. CASE z # 0 /\ i # 1
    <3>1. Y[z][i] = z /\ J[z][i] = i - 1
      BY <1>3, <2>2
    <3>2. i - 1 \in DOMAIN q /\ q[i - 1] = p[i] /\ i - 1 \in Nat
      BY <1>7, <1>10, <2>2 DEF At
    <3> QED BY <1>10, <2>2, <3>1, <3>2 DEF At, Event
  <2>3. CASE z # 0 /\ i = 1
    <3>1. z = 2
      BY <1>10, <2>3 DEF At
    <3>2. Y[z][i] = 1 /\ J[z][i] = N
      BY <1>3, <2>3, <3>1
    <3>3. N \in DOMAIN q /\ 1 \in 0..2
      BY <1>4, <1>5
    <3> QED BY <1>4, <1>5, <2>3, <3>1, <3>2, <3>3 DEF At, Event
  <2> QED BY <2>1, <2>2, <2>3
<1>11. Moved(h, p, h, q, Z, I) /\ Moved(h, q, h, p, Y, J) /\ Following(h, q, Z, I)
  BY <1>8, <1>9, <1>10 DEF Moved, Following
<1>12. Ordered(h, q, P) /\ Placed(h, q) \subseteq Placed(h, p)
  BY <1>11, SameOrder
<1>13. Placed(h, p) \subseteq Placed(h, q)
  BY <1>11, SamePlaces
<1> QED BY <1>12, <1>13 DEF q, r

\* A listener that was queued hears of the event.
LEMMA EventIsHeard ==
  ASSUME NEW S, NEW h \in Seq(S), NEW p \in Seq(Cli!Jobs), NEW P, Ordered(h, p, P), p # <<>>,
         p[1].do = "hear", p[1].event \in S
  PROVE  /\ Ordered(Append(h, p[1].event), Tail(p), P)
         /\ Placed(Append(h, p[1].event), Tail(p)) = Placed(h, p)
<1> DEFINE q == Tail(p)
           g == Append(h, p[1].event)
           N == Len(h) + 1
           Z == [z \in 0..2 |-> [i \in Nat |-> IF z = 0 /\ i = N THEN 1 ELSE z]]
           I == [z \in 0..2 |-> [i \in Nat |-> IF z = 0 THEN (IF i = N THEN 1 ELSE i) ELSE i + 1]]
           Y == [z \in 0..2 |-> [i \in Nat |-> IF z = 1 /\ i = 1 THEN 0 ELSE z]]
           J == [z \in 0..2 |-> [i \in Nat |-> IF z = 0 THEN i ELSE IF z = 1 /\ i = 1 THEN N ELSE i - 1]]
<1>1. q \in Seq(Cli!Jobs) /\ Shorter(p, q) /\ 1 \in DOMAIN p
  BY TailIsShorter
<1>2. g \in Seq(S) /\ Longer(h, p[1].event, g)
  BY AppendIsLonger
<1>3. ASSUME NEW z \in 0..2, NEW i \in Nat
      PROVE  /\ Z[z][i] = (IF z = 0 /\ i = N THEN 1 ELSE z)
             /\ I[z][i] = (IF z = 0 THEN (IF i = N THEN 1 ELSE i) ELSE i + 1)
             /\ Y[z][i] = (IF z = 1 /\ i = 1 THEN 0 ELSE z)
             /\ J[z][i] = (IF z = 0 THEN i ELSE IF z = 1 /\ i = 1 THEN N ELSE i - 1)
  OBVIOUS
<1>4. N \in Nat /\ N >= 1 /\ DOMAIN g = 1..N /\ g[N] = p[1].event /\ DOMAIN h = 1..(N - 1)
      /\ \A i \in DOMAIN h : g[i] = h[i]
  BY <1>2 DEF Longer
<1> HIDE DEF q, g, N, Z, I, Y, J
<1>5. \A i \in Nat : i \in DOMAIN q => i + 1 \in DOMAIN p /\ q[i] = p[i + 1] /\ i >= 1
  BY <1>1 DEF Shorter
<1>6. \A i \in Nat : i \in DOMAIN p /\ i # 1 => i - 1 \in DOMAIN q /\ q[i - 1] = p[i] /\ i - 1 \in Nat
  BY <1>1 DEF Shorter
<1>7. \A i \in Nat : i \in DOMAIN g /\ i # N => i \in DOMAIN h /\ g[i] = h[i] /\ i < N
  BY <1>4
<1>8. ASSUME NEW z \in 0..2, NEW i \in Nat, At(g, q, z, i)
      PROVE  /\ Z[z][i] \in 0..2 /\ I[z][i] \in Nat /\ At(h, p, Z[z][i], I[z][i])
             /\ Event(g, q, z, i) = Event(h, p, Z[z][i], I[z][i])
  <2>1. i + 1 \in Nat
    OBVIOUS
  <2>2. CASE z = 0 /\ i # N
    <3>1. Z[z][i] = 0 /\ I[z][i] = i
      BY <1>3, <2>2
    <3>2. i \in DOMAIN h /\ g[i] = h[i]
      BY <1>7, <1>8, <2>2 DEF At
    <3> QED BY <2>2, <3>1, <3>2 DEF At, Event
  <2>3. CASE z # 0
    <3>1. Z[z][i] = z /\ I[z][i] = i + 1
      BY <1>3, <2>3
    <3>2. i + 1 \in DOMAIN p /\ q[i] = p[i + 1]
      BY <1>5, <1>8, <2>3 DEF At
    <3> QED BY <1>8, <2>1, <2>3, <3>1, <3>2 DEF At, Event
  <2>4. CASE z = 0 /\ i = N
    <3>1. Z[z][i] = 1 /\ I[z][i] = 1
      BY <1>3, <2>4
    <3> QED BY <1>1, <1>4, <2>4, <3>1 DEF At, Event
  <2> QED BY <2>2, <2>3, <2>4
<1>9. ASSUME NEW z \in 0..2, NEW y \in 0..2, NEW i \in Nat, NEW k \in Nat,
             At(g, q, z, i), At(g, q, y, k), Earlier(z, i, y, k)
      PROVE  Earlier(Z[z][i], I[z][i], Z[y][k], I[y][k])
  <2>1. Z[z][i] = (IF z = 0 /\ i = N THEN 1 ELSE z)
        /\ I[z][i] = (IF z = 0 THEN (IF i = N THEN 1 ELSE i) ELSE i + 1)
    BY <1>3
  <2>2. Z[y][k] = (IF y = 0 /\ k = N THEN 1 ELSE y)
        /\ I[y][k] = (IF y = 0 THEN (IF k = N THEN 1 ELSE k) ELSE k + 1)
    BY <1>3
  <2>3. z # 0 => i >= 1
    BY <1>5, <1>9 DEF At
  <2>4. y # 0 => k >= 1
    BY <1>5, <1>9 DEF At
  <2>7. (z = 0 => i <= N) /\ (y = 0 => k <= N)
    BY <1>4, <1>9 DEF At
  <2>5. z < y \/ (z = y /\ i < k)
    BY <1>9 DEF Earlier
  <2>6. Z[z][i] < Z[y][k] \/ (Z[z][i] = Z[y][k] /\ I[z][i] < I[y][k])
    BY <1>4, <2>1, <2>2, <2>3, <2>4, <2>5, <2>7
  <2> QED BY <2>6 DEF Earlier
<1>10. ASSUME NEW z \in 0..2, NEW i \in Nat, At(h, p, z, i)
       PROVE  /\ Y[z][i] \in 0..2 /\ J[z][i] \in Nat /\ At(g, q, Y[z][i], J[z][i])
              /\ Event(h, p, z, i) = Event(g, q, Y[z][i], J[z][i])
  <2>1. CASE z = 0
    <3>1. Y[z][i] = 0 /\ J[z][i] = i
      BY <1>3, <2>1
    <3>2. i \in DOMAIN g /\ g[i] = h[i]
      BY <1>4, <1>10, <2>1 DEF At
    <3> QED BY <1>10, <2>1, <3>1, <3>2 DEF At, Event
  <2>2. CASE z # 0 /\ i # 1
    <3>1. Y[z][i] = z /\ J[z][i] = i - 1
      BY <1>3, <2>2
    <3>2. i - 1 \in DOMAIN q /\ q[i - 1] = p[i] /\ i - 1 \in Nat
      BY <1>6, <1>10, <2>2 DEF At
    <3> QED BY <1>10, <2>2, <3>1, <3>2 DEF At, Event
  <2>3. CASE z # 0 /\ i = 1
    <3>1. z = 1
      BY <1>10, <2>3 DEF At
    <3>2. Y[z][i] = 0 /\ J[z][i] = N
      BY <1>3, <2>3, <3>1
    <3>3. N \in DOMAIN g /\ 0 \in 0..2
      BY <1>4
    <3> QED BY <1>4, <2>3, <3>1, <3>2, <3>3 DEF At, Event
  <2> QED BY <2>1, <2>2, <2>3
<1>11. Moved(h, p, g, q, Z, I) /\ Moved(g, q, h, p, Y, J) /\ Following(g, q, Z, I)
  BY <1>8, <1>9, <1>10 DEF Moved, Following
<1>12. Ordered(g, q, P) /\ Placed(g, q) \subseteq Placed(h, p)
  BY <1>11, SameOrder
<1>13. Placed(h, p) \subseteq Placed(g, q)
  BY <1>11, SamePlaces
<1> QED BY <1>12, <1>13 DEF q, g

\* A pair of a request and its tasks, and what is known of it when h was heard, m
\* parts of the answer a were told.
Tidy(s, h, a, m, slips) == s \in Pairs /\ Phased(s) /\ Talks(s, h, a, m, slips)
NoStart(s) == \A i \in DOMAIN s.p : s.p[i].do # "start"
\* What goes up is left alone.
Same(s, t) ==
  /\ t.c.up = s.c.up /\ t.c.queue = s.c.queue /\ t.c.complete = s.c.complete
  /\ t.c.sent = s.c.sent /\ t.c.body = s.c.body /\ (t.c.phase = "open" => s.c.phase = "open")
  /\ FileJobs(t.p) = FileJobs(s.p)

\* The pair of a request and its tasks; the tasks.
LEMMA PairIs ==
  ASSUME NEW s \in Pairs
  PROVE  s.c \in Conns /\ s.p \in Seq(Cli!Jobs) /\ s = [c |-> s.c, p |-> s.p]
BY DEF Pairs

LEMMA JobsAre ==
  /\ \A what \in {"start", "flush", "close", "file", "pause", "resume"} :
       Cli!Task(what) \in Cli!Jobs /\ Cli!Task(what).do = what
  /\ \A k \in Cli!Kinds, n \in Nat : /\ Cli!Say(k, n) \in Cli!Jobs /\ Cli!Say(k, n).do = "say"
                                  /\ Cli!Say(k, n).event = Cli!Part(k, n)
                                  /\ Cli!Part(k, n) \in Cli!Parts
<1>1. ASSUME NEW k \in Cli!Kinds, NEW n \in Nat
      PROVE  Cli!Part(k, n) \in Cli!Parts
  BY DEF Cli!Part, Cli!Parts, Cli!Kinds
<1>2. Cli!Part("", 0) \in Cli!Parts
  BY DEF Cli!Part, Cli!Parts, Cli!Kinds
<1> QED BY <1>1, <1>2 DEF Cli!Task, Cli!Say, Cli!Jobs, Chat

LEMMA PostIs ==
  ASSUME NEW s \in Pairs, NEW t \in Cli!Jobs
  PROVE  /\ Cli!Post(s, t) \in Pairs /\ Cli!Post(s, t).c = s.c
         /\ Cli!Post(s, t).p = Append(s.p, t)
<1>1. s.p \in Seq(Cli!Jobs) /\ s.c \in Conns
  BY DEF Pairs
<1>2. Append(s.p, t) \in Seq(Cli!Jobs)
  BY <1>1
<1> DEFINE q == Append(s.p, t)
<1>3. q \in Seq(Cli!Jobs)
  BY <1>2
<1> HIDE DEF q
<1>4. [s EXCEPT !.p = q] \in Pairs /\ [s EXCEPT !.p = q].c = s.c /\ [s EXCEPT !.p = q].p = q
  BY <1>3 DEF Pairs
<1>5. Cli!Post(s, t) = [s EXCEPT !.p = q]
  BY DEF Cli!Post, q
<1> QED BY <1>4, <1>5 DEF q

\* A task that is not the start comes.
LEMMA PostKeeps ==
  ASSUME NEW s \in Pairs, NEW t \in Cli!Jobs, t.do # "start"
  PROVE  /\ Phased(s) => Phased(Cli!Post(s, t))
         /\ NoStart(s) => NoStart(Cli!Post(s, t))
         /\ t.do # "file" => Same(s, Cli!Post(s, t))
         /\ FileJobs(s.p) = {} => \A i, j \in FileJobs(Cli!Post(s, t).p) : i = j
<1> DEFINE r == Cli!Post(s, t)
<1>1. r \in Pairs /\ r.c = s.c /\ r.p = Append(s.p, t) /\ s.p \in Seq(Cli!Jobs)
  BY PostIs DEF Pairs
<1>2. Longer(s.p, t, r.p)
  BY <1>1, AppendIsLonger
<1> HIDE DEF r
<1>3. Len(s.p) \in Nat /\ DOMAIN s.p = 1..Len(s.p)
  BY <1>1
<1>4. \A i \in DOMAIN r.p : (i \in DOMAIN s.p /\ r.p[i] = s.p[i]) \/ r.p[i] = t
  BY <1>2, <1>3 DEF Longer
<1>5. \A i \in DOMAIN s.p : i \in DOMAIN r.p /\ r.p[i] = s.p[i]
  BY <1>2, <1>3 DEF Longer
<1>6. t.do # "file" => FileJobs(r.p) = FileJobs(s.p)
  BY <1>4, <1>5 DEF FileJobs
<1>9. FileJobs(s.p) = {} => \A i, j \in FileJobs(r.p) : i = j
  <2>1. \A i \in DOMAIN r.p : i \in DOMAIN s.p \/ i = Len(s.p) + 1
    BY <1>2, <1>3 DEF Longer
  <2> QED BY <1>5, <2>1 DEF FileJobs
<1>7. Phased(s) => Phased(r)
  BY <1>1, <1>4 DEF Phased
<1>8. NoStart(s) => NoStart(r)
  BY <1>4 DEF NoStart
<1> QED BY <1>1, <1>6, <1>7, <1>8, <1>9 DEF r, Same

\* Leaving alone is an order.
LEMMA SameIsTransitive ==
  ASSUME NEW s, NEW t, NEW u, Same(s, t), Same(t, u)
  PROVE  Same(s, u)
BY DEF Same

LEMMA SameIsReflexive ==
  ASSUME NEW s
  PROVE  Same(s, s)
BY DEF Same

\* The tasks that are not of an event.
LEMMA JobIsPosted ==
  ASSUME NEW s, NEW h, NEW a, NEW m, NEW slips, Tidy(s, h, a, m, slips),
         NEW what \in {"flush", "close", "file", "pause", "resume"}
  PROVE  /\ Tidy(Cli!Post(s, Cli!Task(what)), h, a, m, slips)
         /\ Cli!Post(s, Cli!Task(what)).c = s.c
         /\ what # "file" => Same(s, Cli!Post(s, Cli!Task(what)))
         /\ Placed(h, Cli!Post(s, Cli!Task(what)).p) = Placed(h, s.p)
<1> DEFINE t == Cli!Task(what)
           r == Cli!Post(s, t)
<1>1. t \in Cli!Jobs /\ t.do = what
  BY JobsAre
<1>2. s \in Pairs /\ s.p \in Seq(Cli!Jobs) /\ Phased(s) /\ Ordered(h, s.p, Good(slips))
  BY DEF Tidy, Talks, Pairs
<1> HIDE DEF t
<1>3. r \in Pairs /\ r.c = s.c /\ r.p = Append(s.p, t)
  BY <1>1, <1>2, PostIs
<1>4. Phased(r) /\ (what # "file" => Same(s, r))
  BY <1>1, <1>2, PostKeeps
<1>5. t.do \notin Chat
  BY <1>1 DEF Chat
<1>6. Ordered(h, Append(s.p, t), Good(slips)) /\ Placed(h, Append(s.p, t)) = Placed(h, s.p)
  BY <1>1, <1>2, <1>5, JobComes
<1> HIDE DEF r
<1>7. Talks(r, h, a, m, slips)
  <2>1. Talks(s, h, a, m, slips)
    BY DEF Tidy
  <2>2. Ordered(h, r.p, Good(slips)) /\ Placed(h, r.p) = Placed(h, s.p) /\ r.c = s.c
    BY <1>3, <1>6
  <2> QED BY <2>1, <2>2 DEF Talks
<1>8. /\ Tidy(r, h, a, m, slips) /\ r.c = s.c /\ (what # "file" => Same(s, r))
      /\ Placed(h, r.p) = Placed(h, s.p)
  BY <1>3, <1>4, <1>6, <1>7 DEF Tidy
<1> QED BY <1>8 DEF r, t

\* An event x may be told now.
MaySay(s, h, a, m, slips, x) ==
  /\ \A y \in Placed(h, s.p) : <<y, x>> \in Good(slips)
  /\ (Main(x) => s.c.sent) /\ (x.kind = "close" => s.c.closed)
  /\ (x.kind = "data" => x.n \in 1..Answer)
  /\ \A i \in DOMAIN a : i > m /\ Main(x) /\ Main(a[i]) => Rank(x) < Rank(a[i])

\* Once x is told, the answer is told as far as l, instead of m.
GoesOn(a, m, l, x) ==
  \A i \in DOMAIN a :
    (i > l => i > m) /\ (i > m /\ a[i].kind = "data" => i > l \/ a[i] = x)

\* An event that may come after those that were told is told.
LEMMA EventIsSaidOn ==
  ASSUME NEW s, NEW h \in Seq(Heards), NEW a, NEW m, NEW l, NEW slips, Tidy(s, h, a, m, slips),
         NEW k \in Cli!Kinds, NEW n \in Nat,
         MaySay(s, h, a, l, slips, Cli!Part(k, n)), GoesOn(a, m, l, Cli!Part(k, n))
  PROVE  /\ Tidy(Cli!Emit(s, k, n), h, a, l, slips)
         /\ Cli!Emit(s, k, n).c = s.c /\ Same(s, Cli!Emit(s, k, n))
<1> DEFINE x == Cli!Part(k, n)
           t == Cli!Say(k, n)
           r == Cli!Emit(s, k, n)
<1>1. t \in Cli!Jobs /\ t.do = "say" /\ t.event = x /\ x.kind = k
  BY JobsAre DEF Cli!Part
<1>2. s \in Pairs /\ s.p \in Seq(Cli!Jobs) /\ Phased(s) /\ Ordered(h, s.p, Good(slips))
  BY DEF Tidy, Talks, Pairs
<1>r. r = Cli!Post(s, t)
  BY DEF Cli!Emit
<1> HIDE DEF t, r
<1>3. r \in Pairs /\ r.c = s.c /\ r.p = Append(s.p, t)
  BY <1>1, <1>2, <1>r, PostIs
<1>4. Phased(r) /\ Same(s, r)
  BY <1>1, <1>2, <1>r, PostKeeps
<1>5. \A y \in Placed(h, s.p) : <<y, t.event>> \in Good(slips)
  BY <1>1 DEF MaySay
<1>h. Heards \subseteq Cli!Parts
  BY DEF Heards
<1>6. /\ Ordered(h, Append(s.p, t), Good(slips))
      /\ Placed(h, Append(s.p, t)) = Placed(h, s.p) \cup {t.event}
  BY <1>1, <1>2, <1>5, <1>h, EventComes
<1>7. Ordered(h, r.p, Good(slips)) /\ Placed(h, r.p) = Placed(h, s.p) \cup {x}
  BY <1>1, <1>3, <1>6
<1>8. Talks(r, h, a, l, slips)
  <2>1. Talks(s, h, a, m, slips) /\ r.c = s.c
    BY <1>3 DEF Tidy
  <2>2. /\ (Main(x) => s.c.sent) /\ (x.kind = "close" => s.c.closed)
        /\ (x.kind = "data" => x.n \in 1..Answer)
        /\ \A i \in DOMAIN a : i > l /\ Main(x) /\ Main(a[i]) => Rank(x) < Rank(a[i])
    BY DEF MaySay
  <2>3. \A i \in DOMAIN a : (i > l => i > m) /\ (i > m /\ a[i].kind = "data" => i > l \/ a[i] = x)
    BY DEF GoesOn
  <2>4. ASSUME NEW j \in 1..Answer
        PROVE  \/ Cli!Part("data", j) \in Placed(h, r.p)
               \/ \E i \in DOMAIN a : i > l /\ a[i] = Cli!Part("data", j)
    <3>1. CASE Cli!Part("data", j) \in Placed(h, s.p)
      BY <1>7, <3>1
    <3>2. CASE \E i \in DOMAIN a : i > m /\ a[i] = Cli!Part("data", j)
      <4>1. PICK i \in DOMAIN a : i > m /\ a[i] = Cli!Part("data", j)
        BY <3>2
      <4>2. a[i].kind = "data"
        BY <4>1 DEF Cli!Part
      <4>3. i > l \/ Cli!Part("data", j) = x
        BY <2>3, <4>1, <4>2
      <4>4. CASE Cli!Part("data", j) = x
        BY <1>7, <4>4
      <4> QED BY <4>1, <4>3, <4>4
    <3> QED BY <2>1, <3>1, <3>2 DEF Talks
  <2> HIDE DEF x
  <2> QED BY <1>7, <2>1, <2>2, <2>3, <2>4 DEF Talks
<1>9. Tidy(r, h, a, l, slips) /\ r.c = s.c /\ Same(s, r) /\ Placed(h, r.p) = Placed(h, s.p) \cup {x}
  BY <1>3, <1>4, <1>7, <1>8 DEF Tidy
<1> QED BY <1>9 DEF r

\* The same of an event that is not of the answer.
LEMMA EventIsSaid ==
  ASSUME NEW s, NEW h \in Seq(Heards), NEW a, NEW m, NEW slips, Tidy(s, h, a, m, slips),
         NEW k \in Cli!Kinds, NEW n \in Nat, MaySay(s, h, a, m, slips, Cli!Part(k, n))
  PROVE  /\ Tidy(Cli!Emit(s, k, n), h, a, m, slips)
         /\ Cli!Emit(s, k, n).c = s.c /\ Same(s, Cli!Emit(s, k, n))
<1>1. GoesOn(a, m, m, Cli!Part(k, n))
  BY DEF GoesOn
<1> QED BY <1>1, EventIsSaidOn

\* A drain may always be told.
LEMMA DrainIsSaid ==
  ASSUME NEW s, NEW h \in Seq(Heards), NEW a, NEW m, NEW slips, Tidy(s, h, a, m, slips)
  PROVE  /\ Tidy(Cli!Emit(s, "drain", 0), h, a, m, slips)
         /\ Cli!Emit(s, "drain", 0).c = s.c /\ Same(s, Cli!Emit(s, "drain", 0))
<1> DEFINE x == Cli!Part("drain", 0)
<1>1. x.kind = "drain" /\ x \in Cli!Parts
  BY DEF Cli!Part, Cli!Parts, Cli!Kinds
<1> HIDE DEF x
<1>2. ~Main(x)
  BY <1>1 DEF Main
<1>3. MaySay(s, h, a, m, slips, x)
  BY <1>1, <1>2 DEF Good, Placed, MaySay
<1>4. "drain" \in Cli!Kinds /\ 0 \in Nat
  BY DEF Cli!Kinds
<1> QED BY <1>3, <1>4, EventIsSaid DEF x

\* An error may be told after a close only if something slipped.
LEMMA ErrorIsSaid ==
  ASSUME NEW s, NEW h \in Seq(Heards), NEW a, NEW m, NEW slips, Tidy(s, h, a, m, slips),
         ~s.c.closed \/ slips \cap {"inFlight", "late"} # {}
  PROVE  /\ Tidy(Cli!Emit(s, "error", 0), h, a, m, slips)
         /\ Cli!Emit(s, "error", 0).c = s.c /\ Same(s, Cli!Emit(s, "error", 0))
<1> DEFINE x == Cli!Part("error", 0)
<1>1. x.kind = "error" /\ x \in Cli!Parts
  BY DEF Cli!Part, Cli!Parts, Cli!Kinds
<1> HIDE DEF x
<1>2. ~Main(x)
  BY <1>1 DEF Main
<1>3. \A y \in Placed(h, s.p) : y.kind = "close" => s.c.closed
  BY DEF Tidy, Talks
<1>4. \A y \in Placed(h, s.p) : <<y, x>> \in Good(slips)
  BY <1>1, <1>2, <1>3 DEF Good, Placed
<1>5. MaySay(s, h, a, m, slips, x)
  BY <1>1, <1>2, <1>4 DEF MaySay
<1>6. "error" \in Cli!Kinds /\ 0 \in Nat
  BY DEF Cli!Kinds
<1> QED BY <1>5, <1>6, EventIsSaid DEF x

\* An error, and the close that it posts.
LEMMA FailIsSaid ==
  ASSUME NEW s, NEW h \in Seq(Heards), NEW a, NEW m, NEW slips, Tidy(s, h, a, m, slips),
         ~s.c.closed \/ slips \cap {"inFlight", "late"} # {}
  PROVE  Tidy(Cli!Fail(s), h, a, m, slips) /\ Cli!Fail(s).c = s.c /\ Same(s, Cli!Fail(s))
<1> DEFINE t == Cli!Emit(s, "error", 0)
           u == Cli!Post(t, Cli!Task("close"))
<1>1. Tidy(t, h, a, m, slips) /\ t.c = s.c /\ Same(s, t)
  BY ErrorIsSaid
<1>2. Cli!Fail(s) = u
  BY DEF Cli!Fail, Cli!CloseConnection
<1> HIDE DEF t
<1>3. Tidy(u, h, a, m, slips) /\ u.c = t.c /\ Same(t, u)
  BY <1>1, JobIsPosted
<1> HIDE DEF u
<1>4. Same(s, u)
  BY <1>1, <1>3, SameIsTransitive
<1> QED BY <1>1, <1>2, <1>3, <1>4

\* The fields of the request change, but for those that tell where it stands.
LEMMA FieldsChange ==
  ASSUME NEW s, NEW h, NEW a, NEW m, NEW slips, Tidy(s, h, a, m, slips), NEW t \in Pairs, t.p = s.p,
         t.c.phase = s.c.phase, t.c.sent = s.c.sent, t.c.closed = s.c.closed
  PROVE  Tidy(t, h, a, m, slips)
<1>1. Phased(t)
  BY DEF Tidy, Phased
<1>2. Talks(t, h, a, m, slips)
  BY DEF Tidy, Talks
<1> QED BY <1>1, <1>2 DEF Tidy

\* The request goes on, and has no start before it.
Suits(c) ==
  /\ c.closed <=> c.phase \in {"closing", "gone"}
  /\ c.phase \in {"queued", "resolving", "connecting", "stuck", "failed"} => ~c.sent
  /\ c.phase \in {"open", "broken"} => c.sent
\* The socket is elsewhere and the request goes on.
LEMMA PhaseChanges ==
  ASSUME NEW s, NEW h, NEW a, NEW m, NEW slips, Tidy(s, h, a, m, slips), NEW t \in Pairs, t.p = s.p,
         NoStart(s), s.c.sent => t.c.sent, s.c.closed => t.c.closed, Suits(t.c)
  PROVE  Tidy(t, h, a, m, slips)
<1>1. Phased(t)
  BY DEF NoStart, Phased, Suits
<1>2. Talks(t, h, a, m, slips)
  BY DEF Tidy, Talks
<1> QED BY <1>1, <1>2 DEF Tidy

\* queue_write adds to the queue, and may post a flush.
Queued(s, t, part) ==
  /\ t.c.up = s.c.up /\ t.c.queue = Append(s.c.queue, part) /\ t.c.complete = s.c.complete
  /\ t.c.sent = s.c.sent /\ t.c.body = s.c.body /\ t.c.phase = s.c.phase /\ t.c.closed = s.c.closed
  /\ FileJobs(t.p) = FileJobs(s.p)

\* A queue, replaced.
LEMMA QueueIs ==
  ASSUME NEW s \in Pairs, NEW q \in Seq(Cli!Parts)
  PROVE  /\ [s EXCEPT !.c.queue = q] \in Pairs /\ [s EXCEPT !.c.queue = q].p = s.p
         /\ [s EXCEPT !.c.queue = q].c = [s.c EXCEPT !.queue = q]
BY DEF Pairs, Conns

LEMMA QueueWriteKeeps ==
  ASSUME NEW s, NEW h, NEW a, NEW m, NEW slips, Tidy(s, h, a, m, slips), NEW part \in Cli!Parts
  PROVE  /\ Tidy(Cli!QueueWrite(s, part), h, a, m, slips) /\ Queued(s, Cli!QueueWrite(s, part), part)
         /\ Placed(h, Cli!QueueWrite(s, part).p) = Placed(h, s.p)
<1> DEFINE q == Append(s.c.queue, part)
           t == [s EXCEPT !.c.queue = q]
           u == Cli!Post(t, Cli!Task("flush"))
<1>1. s \in Pairs /\ s.c \in Conns /\ s.c.queue \in Seq(Cli!Parts)
  BY DEF Tidy, Pairs, Conns
<1>2. q \in Seq(Cli!Parts)
  BY <1>1
<1>r. Cli!QueueWrite(s, part) = IF s.c.writing THEN t ELSE u
  BY DEF Cli!QueueWrite
<1> HIDE DEF q
<1>3. t \in Pairs /\ t.p = s.p /\ t.c = [s.c EXCEPT !.queue = q]
  BY <1>1, <1>2, QueueIs
<1> HIDE DEF t
<1>4. /\ t.c.up = s.c.up /\ t.c.queue = q /\ t.c.complete = s.c.complete
      /\ t.c.sent = s.c.sent /\ t.c.body = s.c.body /\ t.c.phase = s.c.phase /\ t.c.closed = s.c.closed
  BY <1>1, <1>3 DEF Conns
<1>5. Tidy(t, h, a, m, slips)
  BY <1>3, <1>4, FieldsChange
<1>6. Tidy(u, h, a, m, slips) /\ u.c = t.c /\ Same(t, u) /\ Placed(h, u.p) = Placed(h, t.p)
  BY <1>5, JobIsPosted
<1> HIDE DEF u
<1>7. Queued(s, t, part) /\ Queued(s, u, part)
  BY <1>3, <1>4, <1>6 DEF Queued, Same, q
<1> QED BY <1>r, <1>3, <1>5, <1>6, <1>7

\* close_connection_internal tells the close, once.
LEMMA CloseIs ==
  ASSUME NEW s, NEW h \in Seq(Heards), NEW a, NEW m, NEW slips, Tidy(s, h, a, m, slips), NoStart(s)
  PROVE  Tidy(Cli!CloseInternal(s), h, a, m, slips) /\ Same(s, Cli!CloseInternal(s))
<1> DEFINE t == [s EXCEPT !.c.closed = TRUE, !.c.phase = "closing"]
           u == Cli!Emit(t, "close", 0)
           x == Cli!Part("close", 0)
<1>1. s \in Pairs /\ s.c \in Conns /\ Phased(s) /\ Talks(s, h, a, m, slips)
  BY DEF Tidy, Pairs
<1>r. Cli!CloseInternal(s) = IF s.c.closed THEN s ELSE u
  BY DEF Cli!CloseInternal
<1>2. t \in Pairs /\ t.p = s.p /\ t.c = [s.c EXCEPT !.closed = TRUE, !.phase = "closing"]
  BY <1>1 DEF Pairs, Conns, Cli!Phases
<1> HIDE DEF t
<1>3. /\ t.c.up = s.c.up /\ t.c.queue = s.c.queue /\ t.c.complete = s.c.complete
      /\ t.c.sent = s.c.sent /\ t.c.body = s.c.body /\ t.c.phase = "closing" /\ t.c.closed
  BY <1>1, <1>2 DEF Conns
<1>4. Tidy(t, h, a, m, slips)
  BY <1>2, <1>3, PhaseChanges DEF Suits
<1>5. Same(s, t)
  BY <1>2, <1>3 DEF Same
<1>6. CASE s.c.closed
  BY <1>r, <1>6, SameIsReflexive
<1>7. CASE ~s.c.closed
  <2>1. x.kind = "close" /\ x \in Cli!Parts
    BY DEF Cli!Part, Cli!Parts, Cli!Kinds
  <2> HIDE DEF x
  <2>2. ~Main(x)
    BY <2>1 DEF Main
  <2>3. \A y \in Placed(h, s.p) : y.kind # "close"
    BY <1>1, <1>7 DEF Talks
  <2>4. \A y \in Placed(h, t.p) : <<y, x>> \in Good(slips)
    BY <1>2, <2>1, <2>2, <2>3 DEF Good, Placed
  <2>5. MaySay(t, h, a, m, slips, x)
    BY <1>3, <2>1, <2>2, <2>4 DEF MaySay
  <2>6. "close" \in Cli!Kinds /\ 0 \in Nat
    BY DEF Cli!Kinds
  <2>7. Tidy(u, h, a, m, slips) /\ Same(t, u)
    BY <1>4, <2>5, <2>6, EventIsSaid DEF x
  <2> HIDE DEF u
  <2>8. Same(s, u)
    BY <1>5, <2>7, SameIsTransitive
  <2> QED BY <1>r, <1>7, <2>7, <2>8
<1> QED BY <1>6, <1>7

\* on_write_complete, of a request that is not closed.
LEMMA WrittenKeeps ==
  ASSUME NEW s, NEW h \in Seq(Heards), NEW a, NEW m, NEW slips, Tidy(s, h, a, m, slips),
         ~s.c.closed, NEW ok \in BOOLEAN
  PROVE  Tidy(Cli!Written(s, ok), h, a, m, slips) /\ Same(s, Cli!Written(s, ok))
<1> DEFINE t == [s EXCEPT !.c.writing = FALSE, !.c.flight = FALSE]
           u == [s EXCEPT !.c.flight = FALSE]
<1>1. s \in Pairs /\ s.c \in Conns
  BY DEF Tidy, Pairs
<1>2. t \in Pairs /\ t.p = s.p /\ t.c = [s.c EXCEPT !.writing = FALSE, !.flight = FALSE]
  BY <1>1 DEF Pairs, Conns
<1>3. u \in Pairs /\ u.p = s.p /\ u.c = [s.c EXCEPT !.flight = FALSE]
  BY <1>1 DEF Pairs, Conns
<1>r. Cli!Written(s, ok) = IF ~ok THEN Cli!Fail(u)
                           ELSE IF t.c.queue = <<>> THEN Cli!Emit(t, "drain", 0)
                           ELSE Cli!Post(t, Cli!Task("flush"))
  BY DEF Cli!Written
<1> HIDE DEF t, u
<1>4. /\ t.c.up = s.c.up /\ t.c.queue = s.c.queue /\ t.c.complete = s.c.complete
      /\ t.c.sent = s.c.sent /\ t.c.body = s.c.body /\ t.c.phase = s.c.phase /\ t.c.closed = s.c.closed
  BY <1>1, <1>2 DEF Conns
<1>5. /\ u.c.up = s.c.up /\ u.c.queue = s.c.queue /\ u.c.complete = s.c.complete
      /\ u.c.sent = s.c.sent /\ u.c.body = s.c.body /\ u.c.phase = s.c.phase /\ u.c.closed = s.c.closed
  BY <1>1, <1>3 DEF Conns
<1>6. Tidy(t, h, a, m, slips) /\ Same(s, t)
  BY <1>2, <1>4, FieldsChange DEF Same
<1>7. Tidy(u, h, a, m, slips) /\ Same(s, u) /\ ~u.c.closed
  BY <1>3, <1>5, FieldsChange DEF Same
<1>8. Tidy(Cli!Fail(u), h, a, m, slips) /\ Same(u, Cli!Fail(u))
  BY <1>7, FailIsSaid
<1>9. Tidy(Cli!Emit(t, "drain", 0), h, a, m, slips) /\ Same(t, Cli!Emit(t, "drain", 0))
  BY <1>6, DrainIsSaid
<1>10. /\ Tidy(Cli!Post(t, Cli!Task("flush")), h, a, m, slips)
       /\ Same(t, Cli!Post(t, Cli!Task("flush")))
  BY <1>6, JobIsPosted
<1>11. Same(s, Cli!Fail(u))
  BY <1>7, <1>8, SameIsTransitive
<1>12. Same(s, Cli!Emit(t, "drain", 0))
  BY <1>6, <1>9, SameIsTransitive
<1>13. Same(s, Cli!Post(t, Cli!Task("flush")))
  BY <1>6, <1>10, SameIsTransitive
<1> QED BY <1>r, <1>8, <1>9, <1>10, <1>11, <1>12, <1>13

\* What goes up.
Up(s) == s.c.up \o s.c.queue

LEMMA UploadsKept ==
  ASSUME NEW s, NEW t, NEW g, Uploads(s, g), Same(s, t)
  PROVE  Uploads(t, g)
BY DEF Uploads, Same

LEMMA QueuesAre ==
  ASSUME NEW s \in Pairs
  PROVE  /\ s.c.up \in Seq(Cli!Parts) /\ s.c.queue \in Seq(Cli!Parts) /\ Up(s) \in Seq(Cli!Parts)
         /\ Joined(s.c.up, s.c.queue, Up(s))
<1>1. s.c.up \in Seq(Cli!Parts) /\ s.c.queue \in Seq(Cli!Parts)
  BY DEF Pairs, Conns
<1> QED BY <1>1, ConcatIs DEF Up

Appended(x, y, z) == x \o Append(y, z) = Append(x \o y, z)
LEMMA AppendInTheQueue ==
  ASSUME NEW S, NEW x \in Seq(S), NEW y \in Seq(S), NEW z \in S
  PROVE  Appended(x, y, z)
<1> DEFINE a == Append(y, z)
           b == x \o y
           c == Append(b, z)
           d == x \o a
<1>1. a \in Seq(S) /\ Len(a) = Len(y) + 1 /\ a[Len(y) + 1] = z /\ \A i \in 1..Len(y) : a[i] = y[i]
  OBVIOUS
<1>2. b \in Seq(S) /\ Joined(x, y, b)
  BY ConcatIs
<1> HIDE DEF a, b
<1>3. c \in Seq(S) /\ Len(c) = Len(b) + 1 /\ c[Len(b) + 1] = z /\ \A i \in 1..Len(b) : c[i] = b[i]
  BY <1>2
<1>4. d \in Seq(S) /\ Joined(x, a, d)
  BY <1>1, ConcatIs
<1> HIDE DEF c, d
<1>5. Len(x) \in Nat /\ Len(y) \in Nat /\ Len(b) = Len(x) + Len(y) /\ Len(d) = Len(x) + Len(y) + 1 /\ Len(d) = Len(c)
  BY <1>1, <1>2, <1>3, <1>4 DEF Joined
<1>6. ASSUME NEW i \in 1..Len(d)
      PROVE  d[i] = c[i]
  <2>1. CASE i \in 1..Len(x)
    <3>1. d[i] = x[i] /\ b[i] = x[i]
      BY <1>2, <1>4, <2>1 DEF Joined
    <3>2. i \in 1..Len(b)
      BY <1>5, <2>1
    <3> QED BY <1>3, <3>1, <3>2
  <2>2. CASE i = Len(x) + Len(y) + 1
    <3>1. Len(y) + 1 \in 1..Len(a) /\ i = Len(x) + (Len(y) + 1) /\ i = Len(b) + 1
      BY <1>1, <1>5, <2>2
    <3>2. d[i] = a[Len(y) + 1]
      BY <1>4, <3>1 DEF Joined
    <3> QED BY <1>1, <1>3, <3>1, <3>2
  <2>3. CASE i > Len(x) /\ i < Len(x) + Len(y) + 1
    <3>1. PICK k \in 1..Len(y) : i = Len(x) + k
      <4>1. i - Len(x) \in 1..Len(y) /\ i = Len(x) + (i - Len(x))
        BY <1>5, <2>3
      <4> QED BY <4>1
    <3>2. k \in 1..Len(a) /\ i \in 1..Len(b)
      BY <1>1, <1>5, <3>1
    <3>3. d[i] = a[k] /\ b[i] = y[k]
      BY <1>2, <1>4, <3>1, <3>2 DEF Joined
    <3> QED BY <1>1, <1>3, <3>1, <3>2, <3>3
  <2> QED BY <1>5, <2>1, <2>2, <2>3
<1> QED BY <1>3, <1>4, <1>5, <1>6, SeqEqual DEF a, b, c, d, Appended

Taken(x, y) == Append(x, Head(y)) \o Tail(y) = x \o y
LEMMA HeadOfTheQueue ==
  ASSUME NEW S, NEW x \in Seq(S), NEW y \in Seq(S), y # <<>>
  PROVE  /\ Taken(x, y) /\ Len(Append(x, Head(y))) <= Len(x \o y) /\ x \o y # <<>>
         /\ \A i \in DOMAIN Append(x, Head(y)) :
              (x \o y)[i] = Append(x, Head(y))[i] /\ i \in DOMAIN (x \o y)
<1> DEFINE a == Append(x, Head(y))
           b == Tail(y)
           c == a \o b
           d == x \o y
<1>1. /\ a \in Seq(S) /\ Len(a) = Len(x) + 1 /\ a[Len(x) + 1] = y[1] /\ \A i \in 1..Len(x) : a[i] = x[i]
      /\ DOMAIN a = 1..Len(a)
  OBVIOUS
<1>2. b \in Seq(S) /\ Len(y) = Len(b) + 1 /\ Len(b) \in Nat /\ \A i \in 1..Len(b) : b[i] = y[i + 1]
  OBVIOUS
<1> HIDE DEF a, b
<1>3. c \in Seq(S) /\ Joined(a, b, c)
  BY <1>1, <1>2, ConcatIs
<1>4. d \in Seq(S) /\ Joined(x, y, d)
  BY ConcatIs
<1> HIDE DEF c, d
<1>5. Len(x) \in Nat /\ Len(c) = Len(x) + 1 + Len(b) /\ Len(d) = Len(x) + 1 + Len(b) /\ DOMAIN d = 1..Len(d)
  BY <1>1, <1>2, <1>3, <1>4 DEF Joined
<1>6. ASSUME NEW i \in 1..Len(a)
      PROVE  d[i] = a[i] /\ i \in 1..Len(d)
  <2>1. CASE i \in 1..Len(x)
    BY <1>1, <1>2, <1>4, <1>5, <2>1 DEF Joined
  <2>2. CASE i = Len(x) + 1
    <3>1. 1 \in 1..Len(y)
      BY <1>2
    <3>2. d[Len(x) + 1] = y[1]
      BY <1>4, <3>1 DEF Joined
    <3> QED BY <1>1, <1>2, <1>5, <2>2, <3>2
  <2> QED BY <1>1, <1>5, <2>1, <2>2
<1>7. ASSUME NEW i \in 1..Len(d)
      PROVE  c[i] = d[i]
  <2>1. CASE i \in 1..Len(a)
    BY <1>3, <1>6, <2>1 DEF Joined
  <2>2. CASE i > Len(a)
    <3>1. PICK k \in 1..Len(b) : i = Len(a) + k
      <4>1. i - Len(a) \in 1..Len(b) /\ i = Len(a) + (i - Len(a))
        BY <1>1, <1>2, <1>5, <2>2
      <4> QED BY <4>1
    <3>2. k + 1 \in 1..Len(y) /\ i = Len(x) + (k + 1)
      BY <1>1, <1>2, <1>5, <3>1
    <3>3. c[i] = b[k] /\ d[i] = y[k + 1]
      BY <1>3, <1>4, <3>1, <3>2 DEF Joined
    <3> QED BY <1>2, <3>3
  <2> QED BY <1>1, <1>5, <2>1, <2>2
<1>8. c = d
  BY <1>3, <1>4, <1>5, <1>7, SeqEqual
<1>9. Len(a) <= Len(d) /\ Len(d) # 0
  BY <1>1, <1>2, <1>5
<1>10. d # <<>>
  BY <1>9
<1> QED BY <1>1, <1>5, <1>6, <1>8, <1>9, <1>10 DEF a, b, c, d, Taken

\* A part that goes up last.
LEMMA UploadAdds ==
  ASSUME NEW u \in Seq(Cli!Parts), NEW g, NEW c, Upload(u, g, c), NEW x \in Cli!Parts, NEW k, NEW d,
         \A i \in DOMAIN u : u[i].kind # "last", x.kind = "head" <=> u = <<>>,
         x.kind = "chunk" => x.n = Len(u), x.kind = "last" => Len(u) + 1 = k + 2 /\ d
  PROVE  Upload(Append(u, x), k, d)
<1> DEFINE v == Append(u, x)
<1>1. v \in Seq(Cli!Parts) /\ Longer(u, x, v) /\ Len(u) \in Nat /\ DOMAIN u = 1..Len(u)
  BY AppendIsLonger
<1> HIDE DEF v
<1>2. ASSUME NEW i \in DOMAIN u
      PROVE  /\ v[i].kind = "head" <=> i = 1
             /\ v[i].kind = "chunk" => v[i].n = i - 1
             /\ v[i].kind # "last"
  <2>1. v[i] = u[i]
    BY <1>1 DEF Longer
  <2> QED BY <2>1 DEF Upload
<1>3. u = <<>> <=> Len(u) = 0
  OBVIOUS
<1>4. /\ v[Len(u) + 1].kind = "head" <=> Len(u) + 1 = 1
      /\ v[Len(u) + 1].kind = "chunk" => v[Len(u) + 1].n = (Len(u) + 1) - 1
      /\ v[Len(u) + 1].kind = "last" => Len(u) + 1 = Len(v) /\ Len(u) + 1 = k + 2 /\ d
  <2>1. v[Len(u) + 1] = x /\ Len(v) = Len(u) + 1
    BY <1>1 DEF Longer
  <2>2. (Len(u) = 0 <=> Len(u) + 1 = 1) /\ (Len(u) + 1) - 1 = Len(u)
    BY <1>1
  <2> QED BY <1>3, <2>1, <2>2
<1>5. \A i \in DOMAIN v : i \in DOMAIN u \/ i = Len(u) + 1
  BY <1>1 DEF Longer
<1> QED BY <1>2, <1>4, <1>5 DEF Upload, v

\* The request has one part more to send.
LEMMA UploadsGrow ==
  ASSUME NEW s \in Pairs, NEW t \in Pairs, NEW g, NEW k, Uploads(s, g), NEW x \in Cli!Parts,
         t.c.up = s.c.up, t.c.queue = Append(s.c.queue, x), t.c.sent, FileJobs(t.p) = {},
         Upload(t.c.up, k, t.c.complete),
         t.c.phase = "open" =>
           /\ Upload(Up(s), g, s.c.complete) /\ \A i \in DOMAIN Up(s) : Up(s)[i].kind # "last",
         t.c.phase = "open" =>
           /\ (x.kind = "head" <=> Up(s) = <<>>) /\ (x.kind = "chunk" => x.n = Len(Up(s)))
           /\ (x.kind = "last" => Len(Up(s)) + 1 = k + 2 /\ t.c.complete)
           /\ t.c.body = "stream" => Len(Up(s)) + 1 = k + 1 + (IF t.c.complete THEN 1 ELSE 0)
  PROVE  Uploads(t, k) /\ Len(Up(t)) = Len(Up(s)) + 1
<1>1. s.c.up \in Seq(Cli!Parts) /\ s.c.queue \in Seq(Cli!Parts) /\ Up(s) \in Seq(Cli!Parts)
  BY QueuesAre
<1>a. Appended(s.c.up, s.c.queue, x)
  BY <1>1, AppendInTheQueue
<1>2. Up(t) = Append(Up(s), x)
  BY <1>a DEF Up, Appended
<1>3. Len(Up(t)) = Len(Up(s)) + 1
  BY <1>1, <1>2
<1>u. Upload(t.c.up, k, t.c.complete) /\ t.c.sent /\ FileJobs(t.p) = {}
  OBVIOUS
<1>4. CASE t.c.phase # "open"
  BY <1>u, <1>3, <1>4 DEF Uploads
<1>5. CASE t.c.phase = "open"
  <2>1. Upload(Append(Up(s), x), k, t.c.complete)
    BY <1>1, <1>5, UploadAdds
  <2>2. Up(t) # <<>>
    <3>1. Len(Up(s)) \in Nat
      BY <1>1
    <3> QED BY ONLY <1>3, <3>1
  <2>3. Upload(Up(t), k, t.c.complete) /\ Len(Up(t)) = Len(Up(s)) + 1 /\ Up(t) # <<>>
    BY <1>2, <1>3, <2>1, <2>2
  <2> QED BY <1>u, <1>3, <1>5, <2>3 DEF Uploads, Up
<1> QED BY <1>3, <1>4, <1>5

\* Nothing ended yet.
LEMMA NoLast ==
  ASSUME NEW s, NEW g, Uploads(s, g), ~s.c.complete
  PROVE  /\ \A k, c : Upload(s.c.up, k, c)
         /\ s.c.phase = "open" => /\ Upload(Up(s), g, s.c.complete)
                                  /\ \A i \in DOMAIN Up(s) : Up(s)[i].kind # "last"
BY DEF Uploads, Upload, Up

\* All was written that will be.
LEMMA UploadsEnd ==
  ASSUME NEW s, NEW t, NEW g, Uploads(s, g), s.c.sent, t.c.body # "stream", t.c.complete,
         t.c.up = s.c.up, t.c.queue = s.c.queue, t.c.sent, t.c.body = s.c.body,
         t.c.phase = s.c.phase, FileJobs(t.p) = FileJobs(s.p)
  PROVE  Uploads(t, g)
<1>1. ASSUME NEW u, Upload(u, g, s.c.complete)
      PROVE  Upload(u, g, t.c.complete)
  BY <1>1 DEF Upload
<1>2. Up(t) = Up(s)
  BY DEF Up
<1>3. /\ Upload(t.c.up, g, t.c.complete) /\ (FileJobs(t.p) # {} => t.c.body = "file")
      /\ \A i, j \in FileJobs(t.p) : i = j
  BY <1>1 DEF Uploads
<1>4. t.c.phase = "open" =>
        Upload(Up(t), g, t.c.complete) /\ Up(t) # <<>> /\ (FileJobs(t.p) # {} => Len(Up(t)) = 1)
  BY <1>1, <1>2 DEF Uploads, Up
<1> QED BY <1>3, <1>4 DEF Uploads, Up

\* Tasks that were taken.
LEMMA TaskIsTaken ==
  ASSUME NEW p \in Seq(Cli!Jobs), p # <<>>
  PROVE  /\ Tail(p) \in Seq(Cli!Jobs)
         /\ FileJobs(Tail(p)) # {} => FileJobs(p) # {}
         /\ (\A i, j \in FileJobs(p) : i = j) => \A i, j \in FileJobs(Tail(p)) : i = j
         /\ (\A i, j \in FileJobs(p) : i = j) /\ p[1].do = "file" => FileJobs(Tail(p)) = {}
         /\ \A i \in DOMAIN Tail(p) : i + 1 \in DOMAIN p /\ Tail(p)[i] = p[i + 1] /\ i + 1 # 1
<1> DEFINE q == Tail(p)
<1>1. q \in Seq(Cli!Jobs) /\ Shorter(p, q) /\ 1 \in DOMAIN p
  BY TailIsShorter
<1> HIDE DEF q
<1>2. \A i \in DOMAIN q : i \in Nat /\ i + 1 \in DOMAIN p /\ q[i] = p[i + 1] /\ i + 1 # 1
  BY <1>1 DEF Shorter
<1>3. \A i \in FileJobs(q) : i \in Nat /\ i + 1 \in FileJobs(p) /\ i + 1 # 1
  BY <1>2 DEF FileJobs
<1>4. FileJobs(q) # {} => FileJobs(p) # {}
  BY <1>3
<1>5. ASSUME \A i, j \in FileJobs(p) : i = j, NEW i \in FileJobs(q), NEW j \in FileJobs(q)
      PROVE  i = j
  <2>1. i + 1 = j + 1 /\ i \in Nat /\ j \in Nat
    BY <1>3, <1>5
  <2> QED BY <2>1
<1>6. ASSUME \A i, j \in FileJobs(p) : i = j, p[1].do = "file"
      PROVE  FileJobs(q) = {}
  <2>1. 1 \in FileJobs(p)
    BY <1>1, <1>6 DEF FileJobs
  <2> QED BY <1>3, <1>6, <2>1
<1> QED BY <1>1, <1>2, <1>4, <1>5, <1>6 DEF q

\* What is left when the first task was taken.
LEMMA RestIs ==
  ASSUME NEW s, NEW h, NEW a, NEW m, NEW slips, Tidy(s, h, a, m, slips), s.p # <<>>,
         NEW r, r = [c |-> s.c, p |-> Tail(s.p)]
  PROVE  /\ r \in Pairs /\ Phased(r) /\ NoStart(r)
         /\ \A g : Uploads(s, g) => Uploads(r, g)
<1>1. s \in Pairs /\ s.c \in Conns /\ s.p \in Seq(Cli!Jobs) /\ Phased(s)
  BY DEF Tidy, Pairs
<1>2. r.c = s.c /\ r.p = Tail(s.p)
  OBVIOUS
<1>3. /\ r.p \in Seq(Cli!Jobs)
      /\ FileJobs(r.p) # {} => FileJobs(s.p) # {}
      /\ (\A i, j \in FileJobs(s.p) : i = j) => \A i, j \in FileJobs(r.p) : i = j
      /\ (\A i, j \in FileJobs(s.p) : i = j) /\ s.p[1].do = "file" => FileJobs(r.p) = {}
      /\ \A i \in DOMAIN r.p : i + 1 \in DOMAIN s.p /\ r.p[i] = s.p[i + 1] /\ i + 1 # 1
  BY <1>1, <1>2, TaskIsTaken
<1>4. r \in Pairs
  BY <1>1, <1>3 DEF Pairs
<1>5. NoStart(r)
  BY <1>1, <1>3 DEF NoStart, Phased
<1>6. Phased(r)
  BY <1>1, <1>2, <1>5 DEF NoStart, Phased
<1>7. ASSUME NEW g, Uploads(s, g)
      PROVE  Uploads(r, g)
  BY <1>2, <1>3, <1>7 DEF Uploads
<1> QED BY <1>4, <1>5, <1>6, <1>7

\* The task that streams the file, the only one, finds the head alone in the queue.
LEMMA FileIsNext ==
  ASSUME NEW s \in Pairs, s.p # <<>>, s.p[1].do = "file", NEW g, Uploads(s, g),
         NEW r, r.c = s.c, r.p = Tail(s.p)
  PROVE  /\ FileJobs(r.p) = {} /\ r.c.sent /\ r.c.body = "file"
         /\ r.c.phase = "open" => Len(Up(r)) = 1
<1>1. s.c \in Conns /\ s.p \in Seq(Cli!Jobs)
  BY DEF Pairs
<1>2. (\A i, j \in FileJobs(s.p) : i = j) => FileJobs(r.p) = {}
  BY <1>1, TaskIsTaken
<1>3. 1 \in FileJobs(s.p)
  BY <1>1 DEF FileJobs
<1>4. FileJobs(s.p) # {}
  BY <1>3
<1> QED BY <1>2, <1>4 DEF Uploads, Up

LEMMA RestIsTidy ==
  ASSUME NEW s, NEW h, NEW a, NEW m, NEW slips, Tidy(s, h, a, m, slips), s.p # <<>>,
         s.p[1].do \notin Chat, NEW r, r = [c |-> s.c, p |-> Tail(s.p)]
  PROVE  Tidy(r, h, a, m, slips)
<1>1. s.p \in Seq(Cli!Jobs) /\ Ordered(h, s.p, Good(slips)) /\ Talks(s, h, a, m, slips)
  BY DEF Tidy, Pairs, Talks
<1>2. Ordered(h, Tail(s.p), Good(slips)) /\ Placed(h, Tail(s.p)) = Placed(h, s.p)
  BY <1>1, JobGoes
<1>3. Talks(r, h, a, m, slips)
  BY <1>1, <1>2 DEF Talks
<1>4. r \in Pairs /\ Phased(r)
  BY RestIs
<1> QED BY <1>3, <1>4 DEF Tidy

\* process_write_queue.
LEMMA OneIsWritten ==
  ASSUME NEW s, NEW h \in Seq(Heards), NEW a, NEW m, NEW slips, Tidy(s, h, a, m, slips)
  PROVE  /\ Tidy(Cli!Flush(s), h, a, m, slips)
         /\ \A g : Uploads(s, g) => Uploads(Cli!Flush(s), g)
<1> DEFINE r == [s EXCEPT !.c.queue = Tail(s.c.queue)]
           t == [r EXCEPT !.c.writing = TRUE, !.c.flight = TRUE, !.c.up = Append(r.c.up, Head(s.c.queue))]
           u == Cli!Emit(r, "error", 0)
<1>1. s \in Pairs /\ s.c \in Conns /\ s.p \in Seq(Cli!Jobs) /\ Phased(s)
  BY DEF Tidy, Pairs
<1>2. s.c.up \in Seq(Cli!Parts) /\ s.c.queue \in Seq(Cli!Parts) /\ Up(s) \in Seq(Cli!Parts)
  BY <1>1, QueuesAre
<1>3. Cli!Flush(s) = IF s.c.closed \/ s.c.writing \/ s.c.queue = <<>> THEN s
                     ELSE IF s.c.phase \in {"connecting", "open"} THEN t ELSE u
  BY DEF Cli!Flush
<1>4. CASE s.c.closed \/ s.c.writing \/ s.c.queue = <<>>
  BY <1>3, <1>4
<1>5. CASE ~(s.c.closed \/ s.c.writing \/ s.c.queue = <<>>)
  <2> DEFINE q == Tail(s.c.queue)
             x == Head(s.c.queue)
             v == Append(s.c.up, x)
  <2>1. q \in Seq(Cli!Parts) /\ x \in Cli!Parts /\ v \in Seq(Cli!Parts)
    BY <1>2, <1>5
  <2>2. v \o q = Up(s) /\ Len(v) <= Len(Up(s)) /\ Up(s) # <<>> /\ \A i \in DOMAIN v : Up(s)[i] = v[i] /\ i \in DOMAIN Up(s)
    <3>1. /\ Taken(s.c.up, s.c.queue) /\ Len(v) <= Len(s.c.up \o s.c.queue) /\ s.c.up \o s.c.queue # <<>>
          /\ \A i \in DOMAIN v : (s.c.up \o s.c.queue)[i] = v[i] /\ i \in DOMAIN (s.c.up \o s.c.queue)
      BY <1>2, <1>5, HeadOfTheQueue
    <3> QED BY <3>1 DEF Up, Taken
  <2> HIDE DEF q
  <2>3. r \in Pairs /\ r.p = s.p /\ r.c = [s.c EXCEPT !.queue = q]
    BY <1>1, <2>1, QueueIs DEF q
  <2> HIDE DEF r
  <2>4. r.c.up = s.c.up /\ r.c.queue = q /\ r.c.phase = s.c.phase /\ r.c.sent = s.c.sent
        /\ r.c.closed = s.c.closed /\ r.c.complete = s.c.complete /\ r.c.body = s.c.body /\ r.c \in Conns
    BY <1>1, <2>3 DEF Conns, Pairs
  <2>5. Tidy(r, h, a, m, slips)
    BY <2>3, <2>4, FieldsChange
  <2>6. t = [r EXCEPT !.c.writing = TRUE, !.c.flight = TRUE, !.c.up = v]
    BY <2>4
  <2> HIDE DEF v, t, x
  <2>7. /\ t \in Pairs /\ t.p = r.p /\ t.c.up = v /\ t.c.queue = q /\ t.c.phase = s.c.phase /\ t.c.sent = s.c.sent
        /\ t.c.closed = s.c.closed /\ t.c.complete = s.c.complete /\ t.c.body = s.c.body
    <3>1. t \in Pairs /\ t.p = r.p /\ t.c = [r.c EXCEPT !.writing = TRUE, !.flight = TRUE, !.up = v]
      BY <2>1, <2>3, <2>4, <2>6 DEF Pairs, Conns
    <3> QED BY <2>4, <3>1 DEF Conns
  <2>8. Tidy(t, h, a, m, slips)
    BY <2>4, <2>5, <2>7, FieldsChange
  <2>9. ~r.c.closed
    BY <1>5, <2>4
  <2>10. Tidy(u, h, a, m, slips) /\ u.c = r.c /\ Same(r, u)
    BY <2>5, <2>9, ErrorIsSaid
  <2> HIDE DEF u
  <2>11. ASSUME NEW g, Uploads(s, g), s.c.phase \in {"connecting", "open"}
         PROVE  Uploads(t, g)
    <3>1. s.c.sent
      BY <2>2, <2>11 DEF Uploads, Up
    <3>2. s.c.phase = "open"
      BY <1>1, <2>11, <3>1 DEF Phased
    <3>3. Upload(Up(s), g, s.c.complete)
      BY <2>11, <3>2 DEF Uploads, Up
    <3>4. ASSUME NEW i \in DOMAIN v
          PROVE  /\ v[i].kind = "head" <=> i = 1
                 /\ v[i].kind = "chunk" => v[i].n = i - 1
                 /\ v[i].kind = "last" => i = Len(v) /\ i = g + 2 /\ s.c.complete
      <4>1. Up(s)[i] = v[i] /\ i \in DOMAIN Up(s) /\ i <= Len(v) /\ Len(v) <= Len(Up(s)) /\ Len(v) \in Nat /\ i \in Nat
            /\ Len(Up(s)) \in Nat
        BY <1>2, <2>1, <2>2
      <4>2. i = Len(Up(s)) => i = Len(v)
        BY <4>1
      <4> QED BY <3>3, <4>1, <4>2 DEF Upload
    <3>5. Upload(v, g, s.c.complete)
      BY <3>4 DEF Upload
    <3> QED BY <2>2, <2>3, <2>7, <2>11, <3>1, <3>5 DEF Uploads, Up
  <2>12. ASSUME NEW g, Uploads(s, g), s.c.phase \notin {"connecting", "open"}
         PROVE  Uploads(u, g)
    <3>1. s.c.sent
      BY <2>2, <2>12 DEF Uploads, Up
    <3>2. Uploads(r, g)
      BY <2>3, <2>4, <2>12, <3>1 DEF Uploads
    <3> QED BY <2>10, <3>2, UploadsKept
  <2> QED BY <1>3, <1>5, <2>8, <2>10, <2>11, <2>12
<1> QED BY <1>4, <1>5

\* The tasks that are not events, the request's own.
LEMMA FileIsStreamed ==
  ASSUME NEW s, NEW h \in Seq(Heards), NEW a, NEW m, NEW slips, Tidy(s, h, a, m, slips)
  PROVE  /\ Tidy(Cli!StreamFile(s), h, a, m, slips)
         /\ \A g : /\ Uploads(s, g) /\ FileJobs(s.p) = {} /\ s.c.sent /\ s.c.body = "file"
                   /\ s.c.phase = "open" => Len(Up(s)) = 1
                   => Uploads(Cli!StreamFile(s), g)
<1> DEFINE x == Cli!Part("chunk", 1)
           r == [s EXCEPT !.c.file = @ - 1]
           t == Cli!QueueWrite(r, x)
           v == [s EXCEPT !.c.complete = TRUE]
           w == Cli!Emit(v, "drain", 0)
<1>1. s \in Pairs /\ s.c \in Conns /\ s.c.file \in Nat
  BY DEF Tidy, Pairs, Conns
<1>2. Cli!StreamFile(s) = IF s.c.closed THEN s ELSE IF s.c.file > 0 THEN t
                          ELSE IF ~v.c.writing /\ v.c.queue = <<>> THEN w ELSE v
  BY DEF Cli!StreamFile
<1>3. x \in Cli!Parts /\ x.kind = "chunk" /\ x.n = 1
  BY DEF Cli!Part, Cli!Parts, Cli!Kinds
<1>4. v \in Pairs /\ v.p = s.p /\ v.c = [s.c EXCEPT !.complete = TRUE]
  BY <1>1 DEF Pairs, Conns
<1> HIDE DEF v
<1>5. /\ v.c.up = s.c.up /\ v.c.queue = s.c.queue /\ v.c.complete
      /\ v.c.sent = s.c.sent /\ v.c.body = s.c.body /\ v.c.phase = s.c.phase /\ v.c.closed = s.c.closed
  BY <1>1, <1>4 DEF Conns
<1>6. Tidy(v, h, a, m, slips)
  BY <1>4, <1>5, FieldsChange
<1>7. Tidy(w, h, a, m, slips) /\ Same(v, w)
  BY <1>6, DrainIsSaid
<1> HIDE DEF w, x
<1>8. CASE s.c.file > 0
  <2>1. s.c.file - 1 \in Nat
    BY <1>1, <1>8
  <2>2. r \in Pairs /\ r.p = s.p /\ r.c = [s.c EXCEPT !.file = @ - 1]
    BY <1>1, <2>1 DEF Pairs, Conns
  <2> HIDE DEF r
  <2>3. /\ r.c.up = s.c.up /\ r.c.queue = s.c.queue /\ r.c.complete = s.c.complete
        /\ r.c.sent = s.c.sent /\ r.c.body = s.c.body /\ r.c.phase = s.c.phase /\ r.c.closed = s.c.closed
    BY <1>1, <2>2 DEF Conns
  <2>4. Tidy(r, h, a, m, slips) /\ Same(s, r)
    BY <2>2, <2>3, FieldsChange DEF Same
  <2>5. Tidy(t, h, a, m, slips) /\ Queued(r, t, x)
    BY <1>3, <2>4, QueueWriteKeeps
  <2> HIDE DEF t
  <2>6. ASSUME NEW g, Uploads(s, g), FileJobs(s.p) = {}, s.c.sent, s.c.body = "file",
               s.c.phase = "open" => Len(Up(s)) = 1
        PROVE  Uploads(t, g)
    <3>1. Uploads(r, g) /\ Up(r) = Up(s) /\ FileJobs(r.p) = {}
      BY <2>2, <2>3, <2>4, <2>6, UploadsKept DEF Up
    <3>2. t.c.up = r.c.up /\ t.c.queue = Append(r.c.queue, x) /\ t.c.sent /\ FileJobs(t.p) = {}
          /\ t.c.phase = r.c.phase /\ t.c.complete = r.c.complete /\ t.c.body = "file" /\ t \in Pairs
      BY <2>3, <2>5, <2>6, <3>1 DEF Queued, Tidy
    <3>3. Upload(t.c.up, g, t.c.complete)
      BY <3>1, <3>2 DEF Uploads
    <3>4. ASSUME t.c.phase = "open"
          PROVE  /\ Upload(Up(r), g, r.c.complete) /\ Len(Up(r)) = 1 /\ Up(r) # <<>>
                 /\ \A i \in DOMAIN Up(r) : Up(r)[i].kind # "last"
      <4>1. Upload(Up(r), g, r.c.complete) /\ Len(Up(r)) = 1 /\ Up(r) # <<>>
        BY <2>3, <2>6, <3>1, <3>2, <3>4 DEF Uploads, Up
      <4>2. Up(r) \in Seq(Cli!Parts)
        BY <2>2, QueuesAre
      <4>3. \A i \in DOMAIN Up(r) : i = 1
        BY <4>1, <4>2
      <4> QED BY <4>1, <4>3 DEF Upload
    <3>5. t.c.phase = "open" =>
           /\ Upload(Up(r), g, r.c.complete) /\ \A i \in DOMAIN Up(r) : Up(r)[i].kind # "last"
      BY <3>4
    <3>6. t.c.phase = "open" =>
           /\ (x.kind = "head" <=> Up(r) = <<>>) /\ (x.kind = "chunk" => x.n = Len(Up(r)))
           /\ (x.kind = "last" => Len(Up(r)) + 1 = g + 2 /\ t.c.complete)
           /\ t.c.body = "stream" => Len(Up(r)) + 1 = g + 1 + (IF t.c.complete THEN 1 ELSE 0)
      BY <1>3, <3>2, <3>4
    <3> QED BY <1>3, <2>2, <3>1, <3>2, <3>3, <3>5, <3>6, UploadsGrow
  <2>7. ASSUME NEW g, Uploads(s, g), FileJobs(s.p) = {}, s.c.sent, s.c.body = "file",
               s.c.phase = "open" => Len(Up(s)) = 1
        PROVE  Uploads(Cli!StreamFile(s), g)
    BY <1>2, <1>8, <2>6, <2>7
  <2>8. Tidy(Cli!StreamFile(s), h, a, m, slips)
    BY <1>2, <1>8, <2>5
  <2> QED BY <2>7, <2>8
<1>9. CASE ~(s.c.file > 0)
  <2> HIDE DEF t
  <2>1. Tidy(Cli!StreamFile(s), h, a, m, slips)
    BY <1>2, <1>6, <1>7, <1>9
  <2>2. ASSUME NEW g, Uploads(s, g), FileJobs(s.p) = {}, s.c.sent, s.c.body = "file",
               s.c.phase = "open" => Len(Up(s)) = 1
        PROVE  Uploads(Cli!StreamFile(s), g)
    <3>1. v.c.body # "stream"
      BY <1>5, <2>2
    <3>2. Uploads(v, g)
      BY <1>4, <1>5, <2>2, <3>1, UploadsEnd
    <3>3. Uploads(w, g)
      BY <1>7, <3>2, UploadsKept
    <3> QED BY <1>2, <1>9, <2>2, <3>2, <3>3
  <2> QED BY <2>1, <2>2
<1> QED BY <1>8, <1>9

\* The body of a Run.
LEMMA RunIs ==
  ASSUME NEW s, NEW h \in Seq(Heards), NEW a, NEW m, NEW slips, Tidy(s, h, a, m, slips), NoStart(s),
         NEW what \in {"flush", "close", "file", "pause", "resume"}
  PROVE  /\ Tidy(Cli!Run(s, what), h, a, m, slips)
         /\ \A g : /\ Uploads(s, g)
                   /\ what = "file" => /\ FileJobs(s.p) = {} /\ s.c.sent /\ s.c.body = "file"
                                       /\ s.c.phase = "open" => Len(Up(s)) = 1
                   => Uploads(Cli!Run(s, what), g)
<1>1. s \in Pairs /\ s.c \in Conns
  BY DEF Tidy, Pairs
<1>2. CASE what = "flush"
  <2>1. Cli!Run(s, what) = Cli!Flush(s)
    BY <1>2 DEF Cli!Run
  <2> QED BY <1>2, <2>1, OneIsWritten
<1>3. CASE what = "close"
  <2>1. Cli!Run(s, what) = Cli!CloseInternal(s)
    BY <1>3 DEF Cli!Run
  <2>2. Tidy(Cli!CloseInternal(s), h, a, m, slips) /\ Same(s, Cli!CloseInternal(s))
    BY CloseIs
  <2>3. \A g : Uploads(s, g) => Uploads(Cli!CloseInternal(s), g)
    BY <2>2, UploadsKept
  <2> QED BY <2>1, <2>2, <2>3
<1>4. CASE what = "file"
  <2>1. Cli!Run(s, what) = Cli!StreamFile(s)
    BY <1>4 DEF Cli!Run
  <2> QED BY <1>4, <2>1, FileIsStreamed
<1>5. CASE what \in {"pause", "resume"}
  <2> DEFINE b == IF s.c.paused THEN s.c.reading ELSE FALSE
             c == IF s.c.paused /\ s.c.phase = "open" THEN TRUE ELSE s.c.reading
             x == [s EXCEPT !.c.paused = TRUE, !.c.reading = b]
             y == [s EXCEPT !.c.paused = FALSE, !.c.reading = c]
             t == Cli!Run(s, what)
  <2>1. what = "pause" => t = x
    BY DEF Cli!Run
  <2>2. what = "resume" => t = y
    BY DEF Cli!Run
  <2>3. b \in BOOLEAN /\ c \in BOOLEAN
    BY <1>1 DEF Conns
  <2> HIDE DEF b, c, t
  <2>4. x \in Pairs /\ x.p = s.p /\ x.c = [s.c EXCEPT !.paused = TRUE, !.reading = b]
    BY <1>1, <2>3 DEF Pairs, Conns
  <2>5. y \in Pairs /\ y.p = s.p /\ y.c = [s.c EXCEPT !.paused = FALSE, !.reading = c]
    BY <1>1, <2>3 DEF Pairs, Conns
  <2> HIDE DEF x, y
  <2>6. /\ x.c.up = s.c.up /\ x.c.queue = s.c.queue /\ x.c.complete = s.c.complete
        /\ x.c.sent = s.c.sent /\ x.c.body = s.c.body /\ x.c.phase = s.c.phase /\ x.c.closed = s.c.closed
    BY <1>1, <2>4 DEF Conns
  <2>7. /\ y.c.up = s.c.up /\ y.c.queue = s.c.queue /\ y.c.complete = s.c.complete
        /\ y.c.sent = s.c.sent /\ y.c.body = s.c.body /\ y.c.phase = s.c.phase /\ y.c.closed = s.c.closed
    BY <1>1, <2>5 DEF Conns
  <2>8. Tidy(x, h, a, m, slips) /\ Same(s, x) /\ Tidy(y, h, a, m, slips) /\ Same(s, y)
    BY <2>4, <2>5, <2>6, <2>7, FieldsChange DEF Same
  <2>9. Tidy(t, h, a, m, slips) /\ Same(s, t)
    BY <1>5, <2>1, <2>2, <2>8
  <2>10. \A g : Uploads(s, g) => Uploads(t, g)
    BY <2>9, UploadsKept
  <2> QED BY <2>9, <2>10 DEF t
<1> QED BY <1>2, <1>3, <1>4, <1>5

\* send_initial_request, once connected.
LEMMA RequestIsSent ==
  ASSUME NEW s, NEW h \in Seq(Heards), NEW a, NEW slips, Tidy(s, h, a, 0, slips), NoStart(s),
         AnAnswer(a), s.c.phase = "connecting", Answer \in Nat,
         NEW q, q = [s EXCEPT !.c.phase = "open", !.c.reading = TRUE]
  PROVE  /\ Tidy(Cli!SendInitialRequest(q), h, a, 0, slips)
         /\ \A g : Uploads(s, g) => Uploads(Cli!SendInitialRequest(q), g)
<1> DEFINE r == [q EXCEPT !.c.sent = TRUE]
           x == Cli!Part("head", 0)
           con == Cli!Part("connect", 0)
           z == Cli!Part("chunk", 1)
           b == Cli!QueueWrite(r, x)
           t == Cli!Emit(b, "connect", 0)
           f == Cli!Post(t, Cli!Task("file"))
           v == [t EXCEPT !.c.complete = TRUE]
           w == Cli!QueueWrite(v, z)
<1>1. s \in Pairs /\ s.c \in Conns /\ Phased(s) /\ Talks(s, h, a, 0, slips)
  BY DEF Tidy, Pairs
<1>2. Cli!SendInitialRequest(q) =
        CASE r.c.body = "file" -> f [] r.c.body = "fixed" -> w [] OTHER -> t
  <2>1. r.c.body = q.c.body
    BY <1>1 DEF Pairs, Conns
  <2> QED BY <2>1 DEF Cli!SendInitialRequest
<1>3. /\ x \in Cli!Parts /\ x.kind = "head" /\ con \in Cli!Parts /\ con.kind = "connect"
      /\ z \in Cli!Parts /\ z.kind = "chunk" /\ z.n = 1
  BY DEF Cli!Part, Cli!Parts, Cli!Kinds
<1>4. q \in Pairs /\ q.p = s.p /\ q.c = [s.c EXCEPT !.phase = "open", !.reading = TRUE]
  BY <1>1 DEF Pairs, Conns, Cli!Phases
<1>5. r \in Pairs /\ r.p = s.p /\ r.c = [s.c EXCEPT !.phase = "open", !.reading = TRUE, !.sent = TRUE]
  BY <1>1, <1>4 DEF Pairs, Conns
<1> HIDE DEF r, x, con, z
<1>6. /\ r.c.up = s.c.up /\ r.c.queue = s.c.queue /\ r.c.complete = s.c.complete
      /\ r.c.sent /\ r.c.body = s.c.body /\ r.c.phase = "open" /\ r.c.closed = s.c.closed
  BY <1>1, <1>5 DEF Conns
<1>7. ~s.c.closed /\ ~s.c.sent
  BY <1>1 DEF Phased
<1>8. Tidy(r, h, a, 0, slips)
  BY <1>5, <1>6, <1>7, PhaseChanges DEF Suits
<1>9. Tidy(b, h, a, 0, slips) /\ Queued(r, b, x) /\ Placed(h, b.p) = Placed(h, r.p) /\ b \in Pairs
  BY <1>3, <1>8, QueueWriteKeeps DEF Tidy
<1> HIDE DEF b
<1>10. /\ b.c.up = r.c.up /\ b.c.queue = Append(r.c.queue, x) /\ b.c.complete = r.c.complete
       /\ b.c.sent /\ b.c.body = r.c.body /\ b.c.phase = "open" /\ b.c.closed = r.c.closed
       /\ FileJobs(b.p) = FileJobs(r.p)
  BY <1>6, <1>9 DEF Queued
<1>11. MaySay(b, h, a, 0, slips, con)
  <2>1. \A y \in Placed(h, b.p) : ~Main(y) /\ y.kind # "close"
    BY <1>1, <1>5, <1>7, <1>9 DEF Talks
  <2>2. \A y \in Placed(h, b.p) : <<y, con>> \in Good(slips)
    BY <1>3, <2>1 DEF Good, Placed
  <2>3. ASSUME NEW i \in DOMAIN a, Main(a[i])
        PROVE  Rank(con) < Rank(a[i])
    <3>1. Rank(con) = 0
      BY <1>3 DEF Rank
    <3>2. a[i] \in Cli!Parts /\ a[i].kind # "connect"
      BY DEF AnAnswer
    <3>3. a[i].n \in Nat
      BY <3>2 DEF Cli!Parts
    <3>4. a[i].n + 1 > 0 /\ Answer + 2 > 0
      BY <3>3
    <3> QED BY <3>1, <3>2, <3>4 DEF Rank
  <2>4. Main(con) /\ con.kind # "close" /\ con.kind # "data"
    BY <1>3 DEF Main
  <2> QED BY <1>10, <2>2, <2>3, <2>4 DEF MaySay
<1>12. "connect" \in Cli!Kinds /\ 0 \in Nat
  BY DEF Cli!Kinds
<1>13. Tidy(t, h, a, 0, slips) /\ t.c = b.c /\ Same(b, t) /\ t \in Pairs
  BY <1>9, <1>11, <1>12, EventIsSaid DEF con, Tidy
<1> HIDE DEF t
<1>14. Tidy(f, h, a, 0, slips) /\ f.c = t.c /\ f \in Pairs
  BY <1>13, JobIsPosted DEF Tidy
<1>15. FileJobs(t.p) = {} => \A i, j \in FileJobs(f.p) : i = j
  <2>1. Cli!Task("file") \in Cli!Jobs /\ Cli!Task("file").do # "start"
    BY JobsAre
  <2> QED BY <1>13, <2>1, PostKeeps
<1> HIDE DEF f
<1>16. t.c \in Conns
  BY <1>13 DEF Pairs
<1>17. v \in Pairs /\ v.p = t.p /\ v.c = [t.c EXCEPT !.complete = TRUE]
  BY <1>13, <1>16 DEF Pairs, Conns
<1> HIDE DEF v
<1>18. /\ v.c.up = t.c.up /\ v.c.queue = t.c.queue /\ v.c.complete
       /\ v.c.sent = t.c.sent /\ v.c.body = t.c.body /\ v.c.phase = t.c.phase /\ v.c.closed = t.c.closed
  BY <1>16, <1>17 DEF Conns
<1>19. Tidy(v, h, a, 0, slips)
  BY <1>13, <1>17, <1>18, FieldsChange
<1>20. Tidy(w, h, a, 0, slips) /\ Queued(v, w, z) /\ w \in Pairs
  BY <1>3, <1>19, QueueWriteKeeps DEF Tidy
<1> HIDE DEF w
<1>21. Tidy(Cli!SendInitialRequest(q), h, a, 0, slips)
  BY <1>2, <1>13, <1>14, <1>20
<1>22. ASSUME NEW g, Uploads(s, g)
       PROVE  Uploads(Cli!SendInitialRequest(q), g)
  <2>1. Up(s) = <<>> /\ g = 0 /\ ~s.c.complete /\ FileJobs(s.p) = {}
    BY <1>7, <1>22 DEF Uploads, Up
  <2>2. s.c.up = <<>> /\ s.c.queue = <<>>
    <3>1. Joined(s.c.up, s.c.queue, Up(s)) /\ s.c.up \in Seq(Cli!Parts) /\ s.c.queue \in Seq(Cli!Parts)
      BY <1>1, QueuesAre
    <3>3. 0 = Len(s.c.up) + Len(s.c.queue) /\ Len(s.c.up) \in Nat /\ Len(s.c.queue) \in Nat
      BY <2>1, <3>1 DEF Joined
    <3>4. \A i, j \in Nat : 0 = i + j => i = 0 /\ j = 0
      OBVIOUS
    <3>2. Len(s.c.up) = 0 /\ Len(s.c.queue) = 0
      BY ONLY <3>3, <3>4
    <3> QED BY <3>1, <3>2
  <2>3. Uploads(b, 0) /\ Len(Up(b)) = 1
    <3>1. b.c.up = s.c.up /\ b.c.queue = Append(s.c.queue, x) /\ b.c.sent /\ FileJobs(b.p) = {}
      BY <1>5, <1>6, <1>10, <2>1
    <3>2. Upload(b.c.up, 0, b.c.complete) /\ Upload(Up(s), g, s.c.complete)
          /\ \A i \in DOMAIN Up(s) : Up(s)[i].kind # "last"
      BY <2>1, <2>2, <3>1 DEF Upload
    <3>3. Len(Up(s)) = 0
      BY <2>1
    <3>4. /\ (x.kind = "head" <=> Up(s) = <<>>) /\ (x.kind = "chunk" => x.n = Len(Up(s)))
          /\ (x.kind = "last" => Len(Up(s)) + 1 = 0 + 2 /\ b.c.complete)
          /\ b.c.body = "stream" => Len(Up(s)) + 1 = 0 + 1 + (IF b.c.complete THEN 1 ELSE 0)
      BY <1>3, <1>6, <1>10, <2>1, <3>3
    <3>5. Uploads(b, 0) /\ Len(Up(b)) = Len(Up(s)) + 1
      BY <1>1, <1>3, <1>9, <1>22, <3>1, <3>2, <3>4, UploadsGrow
    <3> QED BY <3>3, <3>5
  <2>4. Uploads(t, 0) /\ Len(Up(t)) = 1 /\ FileJobs(t.p) = {} /\ t.c.phase = "open" /\ t.c.sent /\ ~t.c.complete
        /\ t.c.body = s.c.body
    BY <1>5, <1>6, <1>10, <1>13, <2>1, <2>3, UploadsKept DEF Up, Same
  <2>5. ASSUME s.c.body = "file"
        PROVE  Uploads(f, 0)
    <3>1. f.c.body = "file" /\ f.c.sent /\ \A i, j \in FileJobs(f.p) : i = j
      BY <1>14, <1>15, <2>4, <2>5
    <3>2. Upload(f.c.up, 0, f.c.complete) /\ Upload(Up(f), 0, f.c.complete) /\ Len(Up(f)) = 1 /\ Up(f) # <<>>
      BY <1>14, <2>4 DEF Uploads, Up
    <3> QED BY <3>1, <3>2 DEF Uploads, Up
  <2>6. ASSUME s.c.body = "fixed"
        PROVE  Uploads(w, 0)
    <3>1. v.c.body # "stream" /\ Uploads(v, 0)
      BY <1>17, <1>18, <2>4, <2>6, UploadsEnd
    <3>2. Up(v) = Up(t)
      BY <1>18 DEF Up
    <3>3. w.c.up = v.c.up /\ w.c.queue = Append(v.c.queue, z) /\ w.c.sent /\ FileJobs(w.p) = {}
          /\ w.c.phase = "open" /\ w.c.body = "fixed" /\ w.c.complete /\ v.c.phase = "open" /\ v.c.complete
      BY <1>17, <1>18, <1>20, <2>4, <2>6 DEF Queued
    <3>4. Upload(w.c.up, 0, w.c.complete) /\ Upload(Up(v), 0, v.c.complete) /\ Up(v) # <<>>
      BY <3>1, <3>3 DEF Uploads, Up
    <3>5. ASSUME NEW i \in DOMAIN Up(v)
          PROVE  Up(v)[i].kind # "last"
      <4>1. Up(v) \in Seq(Cli!Parts)
        BY <1>17, QueuesAre
      <4>2. i = 1
        BY <2>4, <3>2, <4>1
      <4> QED BY <3>4, <4>2 DEF Upload
    <3>6. /\ (z.kind = "head" <=> Up(v) = <<>>) /\ (z.kind = "chunk" => z.n = Len(Up(v)))
          /\ (z.kind = "last" => Len(Up(v)) + 1 = 0 + 2 /\ w.c.complete)
          /\ w.c.body = "stream" => Len(Up(v)) + 1 = 0 + 1 + (IF w.c.complete THEN 1 ELSE 0)
      BY <1>3, <2>4, <3>2, <3>3, <3>4
    <3> QED BY <1>3, <1>17, <1>20, <3>1, <3>3, <3>4, <3>5, <3>6, UploadsGrow
  <2> QED BY <1>2, <1>6, <2>1, <2>4, <2>5, <2>6
<1> QED BY <1>21, <1>22

\* What was read but its last part is told, one event after the other.
Said(a, k) == [i \in 1..(k - 1) |-> Cli!Say(a[i].kind, a[i].n)]
After(s, told) == [s EXCEPT !.p = s.p \o told]
TidyAfter(s, t, h, a, m, slips) == Tidy(t, h, a, m, slips) /\ Same(s, t) /\ t.c = s.c /\ NoStart(t)
LEMMA PartsAreSaid ==
  ASSUME NEW s, NEW h \in Seq(Heards), NEW a, NEW slips, Tidy(s, h, a, 0, slips), AnAnswer(a),
         s.p = <<>>, s.c.phase = "open", NEW k \in 1..Len(a)
  PROVE  TidyAfter(s, After(s, Said(a, k)), h, a, k - 1, slips)
<1> DEFINE told == Said(a, k)
           t == After(s, told)
<1>t. t = [s EXCEPT !.p = s.p \o told]
  BY DEF After
<1>1. s \in Pairs /\ s.c \in Conns /\ Phased(s) /\ Talks(s, h, a, 0, slips) /\ a \in Seq(Cli!Parts)
  BY DEF Tidy, Pairs, AnAnswer
<1>2. k \in Nat /\ k - 1 \in Nat /\ Len(a) \in Nat /\ k <= Len(a) /\ DOMAIN a = 1..Len(a)
  BY <1>1
<1>3. ASSUME NEW i \in 1..(k - 1)
      PROVE  /\ i \in DOMAIN a /\ a[i] \in Cli!Parts /\ a[i].kind \in {"response", "data"}
             /\ told[i] \in Cli!Jobs /\ told[i].do = "say" /\ told[i].event = a[i]
  <2>6. \A K, L \in Nat : K <= L => \A j \in 1..(K - 1) : j \in 1..L /\ j # L
    OBVIOUS
  <2>1. i \in DOMAIN a /\ i # Len(a)
    BY <1>2, <2>6
  <2>2. a[i] \in Cli!Parts /\ a[i].kind \in {"response", "data"}
    BY <1>1, <2>1 DEF AnAnswer
  <2>3. told[i] = Cli!Say(a[i].kind, a[i].n)
    BY DEF Said
  <2>4. a[i].kind \in Cli!Kinds /\ a[i].n \in Nat /\ a[i] = Cli!Part(a[i].kind, a[i].n)
    BY <2>2 DEF Cli!Parts, Cli!Part
  <2>5. /\ Cli!Say(a[i].kind, a[i].n) \in Cli!Jobs /\ Cli!Say(a[i].kind, a[i].n).do = "say"
        /\ Cli!Say(a[i].kind, a[i].n).event = Cli!Part(a[i].kind, a[i].n)
    BY <2>4, JobsAre
  <2> QED BY <2>1, <2>2, <2>3, <2>4, <2>5
<1>4. DOMAIN told = 1..(k - 1)
  BY DEF Said
<1>5. told \in Seq(Cli!Jobs) /\ Len(told) = k - 1
  <2>1. told \in [1..(k - 1) -> Cli!Jobs]
    BY <1>3, <1>4 DEF Said
  <2> QED BY <1>2, <2>1
<1> HIDE DEF told, t
<1>6. s.p \o told = told
  BY <1>5
<1>7. t \in Pairs /\ t.p = told /\ t.c = s.c
  BY <1>1, <1>5, <1>6, <1>t DEF Pairs
<1>8. ~s.c.closed /\ s.c.sent
  BY <1>1 DEF Phased
<1>9. DOMAIN s.p = {}
  OBVIOUS
<1> HIDE DEF Good
<1>10. NoStart(t)
  BY <1>3, <1>4, <1>7 DEF NoStart
<1>11. Phased(t)
  BY <1>1, <1>7, <1>10 DEF Phased, NoStart
<1>12. FileJobs(t.p) = FileJobs(s.p)
  BY <1>3, <1>4, <1>7, <1>9 DEF FileJobs
<1>13. Same(s, t)
  BY <1>7, <1>12 DEF Same
<1>14. ASSUME NEW z \in 0..2, NEW i \in Nat, At(h, told, z, i)
       PROVE  \/ z = 0 /\ At(h, s.p, 0, i) /\ Event(h, told, z, i) = Event(h, s.p, 0, i)
                 /\ Event(h, s.p, 0, i) \in Placed(h, s.p)
              \/ z = 2 /\ i \in 1..(k - 1) /\ Event(h, told, z, i) = a[i]
  <2>1. CASE z = 0
    <3>1. At(h, s.p, 0, i) /\ Event(h, told, z, i) = h[i] /\ Event(h, s.p, 0, i) = h[i] /\ i \in DOMAIN h
      BY <1>14, <2>1 DEF At, Event
    <3>2. h[i] \in Cli!Parts /\ 0 \in 0..2
      BY <3>1 DEF Heards
    <3> QED BY <2>1, <3>1, <3>2 DEF Placed
  <2>2. CASE z # 0
    <3>1. i \in DOMAIN told
      BY <1>14, <2>2 DEF At
    <3>2. told[i].do = "say" /\ told[i].event = a[i]
      BY <1>3, <1>4, <3>1
    <3>3. z = 2
      BY <1>14, <2>2, <3>2 DEF At
    <3> QED BY <1>4, <2>2, <3>1, <3>2, <3>3 DEF Event
  <2> QED BY <2>1, <2>2
<1>15. Main(Cli!Part("data", 0)) /\ \A i \in 1..(k - 1) : Main(a[i]) /\ a[i].kind # "close" /\ a[i] \in Cli!Parts
  BY <1>3 DEF Main, Cli!Part
<1>16. ASSUME NEW x \in Placed(h, s.p), NEW i \in 1..(k - 1)
       PROVE  <<x, a[i]>> \in Good(slips)
  <2>1. x \in Cli!Parts /\ x.kind # "close"
    BY <1>1, <1>8 DEF Talks, Placed
  <2>2. Main(x) => Rank(x) < Rank(a[i])
    BY <1>1, <1>3, <1>15 DEF Talks
  <2> QED BY <1>15, <2>1, <2>2 DEF Good
<1>17. ASSUME NEW i \in 1..(k - 1), NEW j \in 1..(k - 1), i < j
       PROVE  <<a[i], a[j]>> \in Good(slips)
  <2>1. Rank(a[i]) < Rank(a[j])
    BY <1>3, <1>15, <1>17 DEF AnAnswer
  <2> QED BY <1>15, <2>1 DEF Good
<1>18. Ordered(h, told, Good(slips))
  <2>1. ASSUME NEW z \in 0..2, NEW y \in 0..2, NEW i \in Nat, NEW j \in Nat,
               At(h, told, z, i), At(h, told, y, j), Earlier(z, i, y, j)
        PROVE  <<Event(h, told, z, i), Event(h, told, y, j)>> \in Good(slips)
    <3>1. CASE z = 0 /\ y = 0
      <4>1. At(h, s.p, 0, i) /\ Event(h, told, z, i) = Event(h, s.p, 0, i)
        BY <1>14, <2>1, <3>1
      <4>2. At(h, s.p, 0, j) /\ Event(h, told, y, j) = Event(h, s.p, 0, j)
        BY <1>14, <2>1, <3>1
      <4>3. Earlier(0, i, 0, j) /\ 0 \in 0..2
        BY <2>1, <3>1
      <4> QED BY <1>1, <4>1, <4>2, <4>3 DEF Talks, Ordered
    <3>2. CASE z = 0 /\ y # 0
      BY <1>14, <1>16, <2>1, <3>2
    <3>3. CASE z # 0
      <4>1. z = 2 /\ i \in 1..(k - 1) /\ Event(h, told, z, i) = a[i]
        BY <1>14, <2>1, <3>3
      <4>2. y = 2 /\ i < j
        BY <2>1, <4>1 DEF Earlier
      <4>3. j \in 1..(k - 1) /\ Event(h, told, y, j) = a[j]
        BY <1>14, <2>1, <4>2
      <4> QED BY <1>17, <4>1, <4>2, <4>3
    <3> QED BY <3>1, <3>2, <3>3
  <2> QED BY <2>1 DEF Ordered
<1>19. ASSUME NEW x \in Placed(h, told)
       PROVE  x \in Placed(h, s.p) \/ \E i \in 1..(k - 1) : x = a[i]
  <2>1. PICK z \in 0..2, i \in Nat : At(h, told, z, i) /\ x = Event(h, told, z, i)
    BY DEF Placed
  <2> QED BY <1>14, <2>1
<1>20. ASSUME NEW x \in Placed(h, s.p)
       PROVE  x \in Placed(h, told)
  <2>1. PICK z \in 0..2, i \in Nat : At(h, s.p, z, i) /\ x = Event(h, s.p, z, i)
    BY DEF Placed
  <2>2. z = 0 /\ x \in Cli!Parts
    BY <1>9, <2>1 DEF At, Placed
  <2>3. At(h, told, 0, i) /\ x = Event(h, told, 0, i) /\ 0 \in 0..2
    BY <2>1, <2>2 DEF At, Event
  <2> QED BY <2>2, <2>3 DEF Placed
<1>21. ASSUME NEW i \in 1..(k - 1)
       PROVE  a[i] \in Placed(h, told)
  <2>1. At(h, told, 2, i) /\ a[i] = Event(h, told, 2, i) /\ 2 \in 0..2 /\ i \in Nat /\ a[i] \in Cli!Parts
    BY <1>3, <1>4 DEF At, Event
  <2> QED BY <2>1 DEF Placed
<1>22. Talks(t, h, a, k - 1, slips)
  <2>1. \A x \in Placed(h, told) : x.kind = "close" => s.c.closed
    BY <1>1, <1>15, <1>19 DEF Talks
  <2>a. \A i \in 1..(k - 1) : a[i].kind = "data" => a[i].n \in 1..Answer
    BY <1>4 DEF AnAnswer
  <2>b. \A x \in Placed(h, told) : x.kind = "data" => x.n \in 1..Answer
    BY <1>1, <1>19, <2>a DEF Talks
  <2>2. ASSUME NEW x \in Placed(h, told), NEW i \in DOMAIN a, i > k - 1, Main(x), Main(a[i])
        PROVE  Rank(x) < Rank(a[i])
    <3>1. CASE x \in Placed(h, s.p)
      <4>1. i > 0
        BY <1>2, <2>2
      <4> QED BY <1>1, <2>2, <3>1, <4>1 DEF Talks
    <3>2. CASE \E j \in 1..(k - 1) : x = a[j]
      <4>1. PICK j \in 1..(k - 1) : x = a[j]
        BY <3>2
      <4>2. j < i /\ j \in DOMAIN a
        BY <1>2, <2>2
      <4> QED BY <2>2, <4>1, <4>2 DEF AnAnswer
    <3> QED BY <1>19, <3>1, <3>2
  <2>3. ASSUME NEW n \in 1..Answer
        PROVE  \/ Cli!Part("data", n) \in Placed(h, told)
               \/ \E i \in DOMAIN a : i > k - 1 /\ a[i] = Cli!Part("data", n)
    <3>1. CASE Cli!Part("data", n) \in Placed(h, s.p)
      BY <1>20, <3>1
    <3>2. CASE \E i \in DOMAIN a : i > 0 /\ a[i] = Cli!Part("data", n)
      <4>1. PICK i \in DOMAIN a : a[i] = Cli!Part("data", n)
        BY <3>2
      <4>2. i > k - 1 \/ i \in 1..(k - 1)
        BY <1>2
      <4> QED BY <1>21, <4>1, <4>2
    <3> QED BY <1>1, <3>1, <3>2 DEF Talks
  <2>4. t.p = told /\ t.c.sent /\ t.c.closed = s.c.closed
    BY <1>7, <1>8
  <2> QED BY <1>18, <2>1, <2>b, <2>2, <2>3, <2>4 DEF Talks
<1>23. TidyAfter(s, t, h, a, k - 1, slips)
  BY <1>7, <1>10, <1>11, <1>13, <1>22 DEF Tidy, TidyAfter
<1> QED BY <1>23 DEF told, t

\* The last part of a read, a[k].
LEMMA PartIsTold ==
  ASSUME NEW s, NEW h \in Seq(Heards), NEW a, NEW k \in 1..Len(a), NEW slips,
         Tidy(s, h, a, k - 1, slips), AnAnswer(a), ~s.c.closed, s.c.sent,
         NEW kind \in {"response", "data", "end"}, a[k].kind = kind,
         NEW n \in Nat, kind = "end" \/ n = a[k].n
  PROVE  /\ Tidy(Cli!Emit(s, kind, n), h, a, k, slips)
         /\ Cli!Emit(s, kind, n).c = s.c /\ Same(s, Cli!Emit(s, kind, n))
<1> DEFINE x == Cli!Part(kind, n)
<1>1. a \in Seq(Cli!Parts) /\ Talks(s, h, a, k - 1, slips)
  BY DEF AnAnswer, Tidy
<1>2. k \in Nat /\ k \in DOMAIN a /\ DOMAIN a = 1..Len(a) /\ Len(a) \in Nat /\ k > k - 1
  BY <1>1
<1>3. a[k] \in Cli!Parts /\ Main(a[k])
  BY <1>1, <1>2 DEF Main
<1>4. kind \in Cli!Kinds /\ x \in Cli!Parts /\ x.kind = kind /\ Main(x) /\ x.kind # "close"
  BY DEF Cli!Kinds, Cli!Parts, Cli!Part, Main
<1>5. Rank(x) = Rank(a[k]) /\ (kind = "data" => x = a[k])
  BY <1>3 DEF Rank, Cli!Part, Cli!Parts
<1>6. \A y \in Placed(h, s.p) : y.kind # "close" /\ (Main(y) => Rank(y) < Rank(x)) /\ y \in Cli!Parts
  BY <1>1, <1>2, <1>3, <1>5 DEF Talks, Placed
<1>7. \A i \in DOMAIN a : i > k /\ Main(a[i]) => Rank(x) < Rank(a[i])
  BY <1>2, <1>3, <1>5 DEF AnAnswer
<1> HIDE DEF x
<1>8. \A y \in Placed(h, s.p) : <<y, x>> \in Good(slips)
  BY <1>4, <1>6 DEF Good
<1>a. x.kind = "data" => x.n \in 1..Answer
  BY <1>2, <1>4, <1>5 DEF AnAnswer
<1>9. MaySay(s, h, a, k, slips, x)
  BY <1>4, <1>7, <1>8, <1>a DEF MaySay
<1>10. GoesOn(a, k - 1, k, x)
  <2>1. ASSUME NEW i \in DOMAIN a
        PROVE  (i > k => i > k - 1) /\ (i > k - 1 => i > k \/ i = k)
    BY <1>2
  <2> QED BY <1>5, <2>1 DEF GoesOn
<1> QED BY <1>4, <1>9, <1>10, EventIsSaidOn DEF x

\* What is not an event of the listeners is passed over.
LEMMA PartIsPassed ==
  ASSUME NEW s, NEW h, NEW a, NEW k \in 1..Len(a), NEW slips,
         Tidy(s, h, a, k - 1, slips), AnAnswer(a), a[k].kind # "data"
  PROVE  Tidy(s, h, a, k, slips)
<1>1. a \in Seq(Cli!Parts) /\ Talks(s, h, a, k - 1, slips)
  BY DEF AnAnswer, Tidy
<1>2. k \in Nat /\ DOMAIN a = 1..Len(a) /\ Len(a) \in Nat
  BY <1>1
<1>3. ASSUME NEW i \in DOMAIN a
      PROVE  (i > k => i > k - 1) /\ (i > k - 1 => i > k \/ i = k)
  BY <1>2
<1>4. \A x \in Placed(h, s.p), i \in DOMAIN a :
        i > k /\ Main(x) /\ Main(a[i]) => Rank(x) < Rank(a[i])
  BY <1>1, <1>3 DEF Talks
<1>5. ASSUME NEW n \in 1..Answer
      PROVE  Cli!Part("data", n) \in Placed(h, s.p) \/ \E i \in DOMAIN a : i > k /\ a[i] = Cli!Part("data", n)
  <2>1. CASE \E i \in DOMAIN a : i > k - 1 /\ a[i] = Cli!Part("data", n)
    <3>1. PICK i \in DOMAIN a : i > k - 1 /\ a[i] = Cli!Part("data", n)
      BY <2>1
    <3>2. i # k
      BY <3>1 DEF Cli!Part
    <3> QED BY <1>3, <3>1, <3>2
  <2> QED BY <1>1, <2>1 DEF Talks
<1>6. Talks(s, h, a, k, slips)
  BY <1>1, <1>4, <1>5 DEF Talks
<1> QED BY <1>6 DEF Tidy

\* What was read is no longer in the input.
LEMMA RestOfAnswer ==
  ASSUME NEW s, NEW h, NEW a, NEW k \in 1..Len(a), NEW slips, Tidy(s, h, a, k, slips), AnAnswer(a),
         NEW b, b = SubSeq(a, k + 1, Len(a))
  PROVE  Tidy(s, h, b, 0, slips) /\ AnAnswer(b)
<1>1. a \in Seq(Cli!Parts) /\ Talks(s, h, a, k, slips)
  BY DEF AnAnswer, Tidy
<1>2. k \in Nat /\ DOMAIN a = 1..Len(a) /\ Len(a) \in Nat /\ k <= Len(a)
  BY <1>1
<1>3. b \in Seq(Cli!Parts) /\ Len(b) = Len(a) - k /\ \A i \in 1..(Len(a) - k) : b[i] = a[k + i]
  BY <1>1, <1>2, SubSeqProperties
<1>4. DOMAIN b = 1..Len(b)
  BY <1>3
<1>5. ASSUME NEW i \in DOMAIN b
      PROVE  i \in Nat /\ k + i \in DOMAIN a /\ b[i] = a[k + i] /\ k + i > k /\ i > 0
             /\ (k + i = Len(a) => i = Len(b))
  <2>1. i \in 1..(Len(a) - k)
    BY <1>3, <1>4
  <2>2. b[i] = a[k + i]
    BY <1>3, <2>1
  <2>3. i \in Nat /\ k + i \in 1..Len(a) /\ k + i > k /\ i > 0 /\ (k + i = Len(a) => i = Len(a) - k)
    BY <1>2, <2>1
  <2> QED BY <1>2, <1>3, <2>2, <2>3
<1>6. ASSUME NEW i \in DOMAIN a, i > k
      PROVE  i - k \in DOMAIN b /\ b[i - k] = a[i] /\ i - k > 0
  <2>1. i - k \in 1..(Len(a) - k) /\ k + (i - k) = i
    BY <1>2, <1>6
  <2> QED BY <1>3, <1>4, <2>1
<1>7. AnAnswer(b)
  <2>1. \A i \in DOMAIN b :
          /\ b[i].kind \in {"response", "data", "end", "bad", "eof", "reset"}
          /\ b[i].kind = "data" => b[i].n \in 1..Answer
          /\ b[i].kind \notin {"response", "data"} => i = Len(b)
    BY <1>5 DEF AnAnswer
  <2>2. ASSUME NEW i \in DOMAIN b, NEW j \in DOMAIN b, i < j, Main(b[i]), Main(b[j])
        PROVE  Rank(b[i]) < Rank(b[j])
    <3>1. k + i \in DOMAIN a /\ k + j \in DOMAIN a /\ b[i] = a[k + i] /\ b[j] = a[k + j] /\ i \in Nat /\ j \in Nat
      BY <1>5
    <3>2. k + i < k + j
      BY <1>2, <2>2, <3>1
    <3> QED BY <2>2, <3>1, <3>2 DEF AnAnswer
  <2> QED BY <1>3, <2>1, <2>2 DEF AnAnswer
<1>8. \A x \in Placed(h, s.p), i \in DOMAIN b :
        i > 0 /\ Main(x) /\ Main(b[i]) => Rank(x) < Rank(b[i])
  BY <1>1, <1>5 DEF Talks
<1>9. ASSUME NEW n \in 1..Answer
      PROVE  Cli!Part("data", n) \in Placed(h, s.p) \/ \E i \in DOMAIN b : i > 0 /\ b[i] = Cli!Part("data", n)
  BY <1>1, <1>6 DEF Talks
<1>10. Talks(s, h, b, 0, slips)
  BY <1>1, <1>8, <1>9 DEF Talks
<1> QED BY <1>7, <1>10 DEF Tidy

\* The parts of a read, parsed.
LEMMA ReadIs ==
  ASSUME NEW s, NEW h \in Seq(Heards), NEW a, NEW slips, Tidy(s, h, a, 0, slips), AnAnswer(a),
         s.p = <<>>, s.c.phase = "open", NEW k \in 1..Len(a),
         NEW t, t = After(s, Said(a, k)),
         NEW b, b = SubSeq(a, k + 1, Len(a))
  PROVE  /\ Tidy(Cli!Parse(t, a[k]), h, b, 0, slips) /\ AnAnswer(b)
         /\ \A g : Uploads(s, g) => Uploads(Cli!Parse(t, a[k]), g)
<1> DEFINE x == a[k]
           u == Cli!Emit(t, x.kind, x.n)
           v == Cli!Parse(t, x)
           r == [t EXCEPT !.c.phase = "broken"]
<1>1. Tidy(t, h, a, k - 1, slips) /\ Same(s, t) /\ t.c = s.c /\ NoStart(t)
  <2>1. TidyAfter(s, After(s, Said(a, k)), h, a, k - 1, slips)
    BY PartsAreSaid
  <2> QED BY <2>1 DEF TidyAfter
<1>2. s.c.sent /\ ~s.c.closed
  BY DEF Tidy, Phased
<1>3. x.kind \in {"response", "data", "end", "bad", "eof", "reset"}
  <2>1. k \in DOMAIN a
    BY DEF AnAnswer
  <2> QED BY <2>1 DEF AnAnswer
<1>p. t \in Pairs /\ t.c \in Conns
  BY <1>1 DEF Tidy, Pairs
<1>4. CASE x.kind \in {"response", "data"}
  <2>1. v = u
    BY <1>4 DEF Cli!Parse
  <2>2. a \in Seq(Cli!Parts)
    BY DEF AnAnswer
  <2>8. x \in Cli!Parts
    BY <2>2
  <2>4. x.n \in Nat
    BY <2>8 DEF Cli!Parts
  <2>5. t.c.sent /\ ~t.c.closed
    BY <1>1, <1>2
  <2>6. Tidy(u, h, a, k, slips) /\ Same(t, u)
    BY <1>1, <1>4, <2>4, <2>5, PartIsTold
  <2> HIDE DEF u
  <2>3. Same(s, u)
    BY <1>1, <2>6, SameIsTransitive
  <2>7. Tidy(u, h, b, 0, slips) /\ AnAnswer(b)
    BY <2>6, RestOfAnswer
  <2> QED BY <2>1, <2>3, <2>7, UploadsKept
<1>5. CASE x.kind = "end"
  <2> DEFINE w == Cli!Emit(t, "end", 0)
             z == Cli!Post(w, Cli!Task("close"))
             y == Cli!Post(u, Cli!Task("close"))
  <2>1. v = z
    BY <1>5 DEF Cli!Parse, Cli!CloseConnection
  <2>2. ~t.c.closed /\ t.c.sent
    BY <1>1, <1>2
  <2> HIDE DEF w
  <2>3. Tidy(w, h, a, k, slips) /\ Same(t, w)
    <3>1. "end" \in {"response", "data", "end"} /\ 0 \in Nat /\ a[k].kind = "end"
      BY <1>5
    <3>2. "end" = "end" \/ 0 = a[k].n
      OBVIOUS
    <3> QED BY <1>1, <2>2, <3>1, <3>2, PartIsTold DEF w
  <2>4. Tidy(z, h, a, k, slips) /\ Same(w, z)
    BY <2>3, JobIsPosted
  <2> HIDE DEF z
  <2>5. Same(s, z)
    BY <1>1, <2>3, <2>4, SameIsTransitive
  <2> HIDE DEF v
  <2>6. Tidy(z, h, b, 0, slips) /\ AnAnswer(b)
    BY <2>4, RestOfAnswer
  <2> QED BY <2>1, <2>5, <2>6, UploadsKept DEF v
<1>6. CASE x.kind \in {"bad", "eof", "reset"}
  <2>1. Tidy(t, h, a, k, slips)
    BY <1>1, <1>6, PartIsPassed
  <2>2. Tidy(t, h, b, 0, slips) /\ AnAnswer(b)
    BY <2>1, RestOfAnswer
  <2>3. CASE x.kind = "bad"
    <3>1. v = Cli!Fail(t)
      BY <2>3 DEF Cli!Parse
    <3>2. ~t.c.closed
      BY <1>1, <1>2
    <3>3. Tidy(Cli!Fail(t), h, b, 0, slips) /\ Same(t, Cli!Fail(t))
      BY <2>2, <3>2, FailIsSaid
    <3>4. Same(s, Cli!Fail(t))
      BY <1>1, <3>3, SameIsTransitive
    <3> QED BY <2>2, <3>1, <3>3, <3>4, UploadsKept
  <2>4. CASE x.kind = "eof"
    <3> DEFINE z == Cli!Post(t, Cli!Task("close"))
    <3>1. v = z
      BY <2>4 DEF Cli!Parse, Cli!CloseConnection
    <3>3. Tidy(z, h, b, 0, slips) /\ Same(t, z)
      BY <2>2, JobIsPosted
    <3> HIDE DEF z, v
    <3>4. Same(s, z)
      BY <1>1, <3>3, SameIsTransitive
    <3> QED BY <2>2, <3>1, <3>3, <3>4, UploadsKept DEF v
  <2>5. CASE x.kind = "reset"
    <3>1. v = Cli!Fail(r)
      BY <2>5 DEF Cli!Parse
    <3>2. r \in Pairs /\ r.p = t.p /\ r.c = [t.c EXCEPT !.phase = "broken"]
      BY <1>p DEF Pairs, Conns, Cli!Phases
    <3> HIDE DEF r
    <3>3. /\ r.c.up = t.c.up /\ r.c.queue = t.c.queue /\ r.c.complete = t.c.complete
          /\ r.c.sent = t.c.sent /\ r.c.body = t.c.body /\ r.c.phase = "broken" /\ r.c.closed = t.c.closed
      BY <1>p, <3>2 DEF Conns
    <3>4. Tidy(r, h, b, 0, slips)
      BY <1>1, <1>2, <2>2, <3>2, <3>3, PhaseChanges DEF Suits
    <3>5. Same(t, r) /\ ~r.c.closed
      BY <1>1, <1>2, <3>2, <3>3 DEF Same
    <3>6. Tidy(Cli!Fail(r), h, b, 0, slips) /\ Same(r, Cli!Fail(r))
      BY <3>4, <3>5, FailIsSaid
    <3>7. Same(s, Cli!Fail(r))
      <4>1. Same(s, r)
        BY <1>1, <3>5, SameIsTransitive
      <4> QED BY <3>6, <4>1, SameIsTransitive
    <3> QED BY <2>2, <3>1, <3>6, <3>7, UploadsKept
  <2> QED BY <1>6, <2>3, <2>4, <2>5
<1> QED BY <1>3, <1>4, <1>5, <1>6

\* The actions of the client.
LEMMA ClientHolds ==
  ASSUME ClientInv
  PROVE  /\ Tidy(Cli!State, ch.heard, input, 0, ch.slips) /\ AnAnswer(input)
         /\ Cli!State \in Pairs /\ Cli!State.c = cl /\ Cli!State.p = posted
         /\ ch \in Stories /\ ch.heard \in Seq(Heards) /\ ch.given \in Nat
         /\ ran \in {"script", "loop"}
         /\ "misplaced" \notin ch.slips => Uploads(Cli!State, ch.given)
BY DEF ClientInv, Tidy, Cli!State, Stories

\* The pair becomes t: what is to be shown of it.
LEMMA ClientBecomes ==
  ASSUME NEW t, Cli!Becomes(t), ch' \in Stories, ran' \in {"script", "loop"}, AnAnswer(input'),
         Tidy(t, ch'.heard, input', 0, ch'.slips), "misplaced" \notin ch'.slips => Uploads(t, ch'.given)
  PROVE  ClientInv'
<1>1. t \in Pairs /\ t = [c |-> t.c, p |-> t.p] /\ Phased(t) /\ Talks(t, ch'.heard, input', 0, ch'.slips)
  BY PairIs DEF Tidy
<1>2. Cli!State' = t
  BY <1>1 DEF Cli!Becomes, Cli!State
<1> QED BY <1>1, <1>2 DEF ClientInv

\* What slipped only excuses.
LEMMA ClientSlipsGrow ==
  ASSUME NEW s, NEW h, NEW a, NEW m, NEW slips, NEW k, Tidy(s, h, a, m, slips), slips \subseteq k
  PROVE  Tidy(s, h, a, m, k)
<1>1. Good(slips) \subseteq Good(k)
  BY DEF Good
<1>2. Ordered(h, s.p, Good(k))
  BY <1>1 DEF Tidy, Talks, Ordered
<1>3. Talks(s, h, a, m, k)
  BY <1>2 DEF Tidy, Talks
<1> QED BY <1>3 DEF Tidy

\* A call of the script is counted.
LEMMA ClientCounted ==
  ASSUME HttpConstants, ch \in Stories, ch.calls < ClientCalls,
         NEW slip \in SUBSET {"misplaced", "late", "inFlight"}, NEW g \in Nat
  PROVE  /\ Cli!CCounted(slip) \in Stories /\ Cli!CCounted(slip).heard = ch.heard
         /\ Cli!CCounted(slip).given = ch.given /\ Cli!CCounted(slip).slips = ch.slips \cup slip
         /\ [Cli!CCounted(slip) EXCEPT !.given = g] \in Stories
         /\ [Cli!CCounted(slip) EXCEPT !.given = g].heard = ch.heard
         /\ [Cli!CCounted(slip) EXCEPT !.given = g].given = g
         /\ [Cli!CCounted(slip) EXCEPT !.given = g].slips = ch.slips \cup slip
<1> DEFINE w == ch.slips \cup slip
           c == ch.calls + 1
           x == [ch EXCEPT !.calls = c, !.slips = w]
<1>1. w \in SUBSET {"misplaced", "late", "inFlight"} /\ c \in 0..ClientCalls
  <2>1. ch.calls \in Nat /\ ClientCalls \in Nat
    BY DEF Stories, HttpConstants, Cli!ClientAssumption
  <2>2. c \in 0..ClientCalls
    BY <2>1
  <2> QED BY <2>2 DEF Stories
<1>2. Cli!CCounted(slip) = x
  BY DEF Cli!CCounted
<1> HIDE DEF w, c
<1>3. x \in Stories /\ x.heard = ch.heard /\ x.given = ch.given /\ x.slips = w
  BY <1>1 DEF Stories
<1> HIDE DEF x
<1>4. /\ [x EXCEPT !.given = g] \in Stories /\ [x EXCEPT !.given = g].heard = x.heard
      /\ [x EXCEPT !.given = g].given = g /\ [x EXCEPT !.given = g].slips = x.slips
  BY <1>3 DEF Stories
<1> QED BY <1>2, <1>3, <1>4 DEF w

\* What stays where it is.
LEMMA NothingCalled ==
  ASSUME HttpConstants, ClientInv, UNCHANGED <<cl, posted, input, ch>>, ran' \in {"script", "loop"}
  PROVE  ClientInv'
<1>1. Cli!State' = Cli!State
  BY DEF Cli!State
<1> QED BY <1>1 DEF ClientInv

\* One lemma for each call, task and callback: ClientInv holds after it. A chunk is
\* refused before the head was sent, and slips after the end.
LEMMA WriteCallKeeps ==
  ASSUME HttpConstants, ClientInv, Cli!WriteCall
  PROVE  ClientInv'
<1> DEFINE s == Cli!State
           h == ch.heard
           x == Cli!Part("chunk", ch.given + 1)
           t == Cli!QueueWrite(s, x)
           slip == Cli!Unless(~cl.complete, "misplaced")
           g == ch.given + 1
           c == [Cli!CCounted(slip) EXCEPT !.given = g]
<1>1. /\ Tidy(s, h, input, 0, ch.slips) /\ AnAnswer(input) /\ s \in Pairs /\ s.c = cl
      /\ ch \in Stories /\ h \in Seq(Heards) /\ ch.given \in Nat
      /\ "misplaced" \notin ch.slips => Uploads(s, ch.given)
  BY ClientHolds
<1>2. /\ ch.calls < ClientCalls /\ cl.sent /\ cl.body = "stream" /\ Cli!Becomes(t)
      /\ input' = input /\ ran' = ran
  BY DEF Cli!WriteCall, Cli!CCall
<1>3. x \in Cli!Parts /\ x.kind = "chunk" /\ x.n = g /\ g \in Nat
  BY <1>1 DEF Cli!Part, Cli!Parts, Cli!Kinds
<1>4. slip \in SUBSET {"misplaced", "late", "inFlight"} /\ ("misplaced" \notin slip => ~cl.complete)
  BY DEF Cli!Unless
<1>5. ch' = c
  <2>1. [Cli!CCounted(slip) EXCEPT !.given = @ + 1] = [Cli!CCounted(slip) EXCEPT !.given = Cli!CCounted(slip).given + 1]
    OBVIOUS
  <2>2. Cli!CCounted(slip).given = ch.given
    BY <1>1, <1>2, <1>4, ClientCounted
  <2> QED BY <2>1, <2>2 DEF Cli!WriteCall
<1> HIDE DEF slip, x
<1>6. c \in Stories /\ c.heard = h /\ c.given = g /\ c.slips = ch.slips \cup slip
  BY <1>1, <1>2, <1>3, <1>4, ClientCounted
<1> HIDE DEF g, c, s
<1>7. Tidy(t, h, input, 0, ch.slips) /\ Queued(s, t, x)
  BY <1>1, <1>3, QueueWriteKeeps
<1>8. Tidy(t, h, input, 0, c.slips)
  BY <1>6, <1>7, ClientSlipsGrow
<1> HIDE DEF t
<1>9. ASSUME "misplaced" \notin c.slips
      PROVE  Uploads(t, g)
  <2>1. Uploads(s, ch.given) /\ ~s.c.complete
    BY <1>1, <1>4, <1>6, <1>9
  <2>2. /\ t.c.up = s.c.up /\ t.c.queue = Append(s.c.queue, x) /\ t.c.sent /\ t.c.phase = s.c.phase
        /\ t.c.body = "stream" /\ ~t.c.complete /\ t \in Pairs /\ FileJobs(t.p) = FileJobs(s.p) /\ s.c.body = "stream"
    BY <1>1, <1>2, <1>7, <2>1 DEF Queued, Tidy
  <2>3. FileJobs(t.p) = {}
    BY <2>1, <2>2 DEF Uploads
  <2>4. Upload(t.c.up, g, t.c.complete)
    BY <2>1, <2>2, NoLast
  <2>5. t.c.phase = "open" =>
          /\ Upload(Up(s), ch.given, s.c.complete) /\ \A i \in DOMAIN Up(s) : Up(s)[i].kind # "last"
    BY <2>1, <2>2, NoLast
  <2>6. t.c.phase = "open" => Len(Up(s)) = g /\ Up(s) # <<>> /\ g \in Nat
    <3>1. t.c.phase = "open" => Len(Up(s)) = ch.given + 1 + 0 /\ Up(s) # <<>>
      BY <2>1, <2>2 DEF Uploads, Up
    <3>2. ch.given + 1 + 0 = g
      BY <1>1 DEF g
    <3> QED BY <1>3, <3>1, <3>2
  <2>7. t.c.phase = "open" =>
          /\ (x.kind = "head" <=> Up(s) = <<>>) /\ (x.kind = "chunk" => x.n = Len(Up(s)))
          /\ (x.kind = "last" => Len(Up(s)) + 1 = g + 2 /\ t.c.complete)
          /\ t.c.body = "stream" => Len(Up(s)) + 1 = g + 1 + (IF t.c.complete THEN 1 ELSE 0)
    BY <1>3, <2>2, <2>6
  <2> QED BY <1>1, <1>3, <2>1, <2>2, <2>3, <2>4, <2>5, <2>7, UploadsGrow
<1>10. ran' \in {"script", "loop"}
  BY <1>2, ClientHolds
<1> QED BY <1>1, <1>2, <1>5, <1>6, <1>8, <1>9, <1>10, ClientBecomes

\* request.end, at its time.
LEMMA EndCallKeeps ==
  ASSUME HttpConstants, ClientInv, Cli!EndCall
  PROVE  ClientInv'
<1> DEFINE s == Cli!State
           h == ch.heard
           x == Cli!Part("chunk", ch.given + 1)
           z == Cli!Part("last", 0)
           slip == Cli!Unless(cl.sent, "misplaced")
<1>1. /\ Tidy(s, h, input, 0, ch.slips) /\ AnAnswer(input) /\ s \in Pairs /\ s.c = cl
      /\ ch \in Stories /\ h \in Seq(Heards) /\ ch.given \in Nat /\ ran \in {"script", "loop"}
      /\ "misplaced" \notin ch.slips => Uploads(s, ch.given)
  BY ClientHolds
<1>2. /\ ch.calls < ClientCalls /\ ~cl.complete /\ input' = input /\ ran' = ran
  BY DEF Cli!EndCall, Cli!CCall
<1>3. PICK data \in BOOLEAN, callback \in BOOLEAN :
        LET b == IF data THEN Cli!QueueWrite(s, x) ELSE s
            t == IF cl.body = "stream" THEN Cli!QueueWrite(b, z) ELSE b
            u == [t EXCEPT !.c.complete = TRUE] IN
        /\ data => cl.body = "stream"
        /\ Cli!Becomes(IF callback THEN Cli!Emit(u, "drain", 0) ELSE u)
        /\ ch' = [Cli!CCounted(slip) EXCEPT !.given = IF data THEN @ + 1 ELSE @]
  BY DEF Cli!EndCall
<1> DEFINE b == IF data THEN Cli!QueueWrite(s, x) ELSE s
           t == IF cl.body = "stream" THEN Cli!QueueWrite(b, z) ELSE b
           u == [t EXCEPT !.c.complete = TRUE]
           v == Cli!Emit(u, "drain", 0)
           g == IF data THEN ch.given + 1 ELSE ch.given
           c == [Cli!CCounted(slip) EXCEPT !.given = g]
<1>4. /\ data => cl.body = "stream"
      /\ Cli!Becomes(IF callback THEN v ELSE u)
  BY <1>3
<1>5. slip \in SUBSET {"misplaced", "late", "inFlight"} /\ ("misplaced" \notin slip => cl.sent)
  BY DEF Cli!Unless
<1>6. ch' = c
  <2>1. Cli!CCounted(slip).given = ch.given
    BY <1>1, <1>2, <1>5, ClientCounted
  <2>2. [Cli!CCounted(slip) EXCEPT !.given = IF data THEN @ + 1 ELSE @]
          = [Cli!CCounted(slip) EXCEPT !.given = IF data THEN Cli!CCounted(slip).given + 1 ELSE Cli!CCounted(slip).given]
    OBVIOUS
  <2> QED BY <1>3, <2>1, <2>2
<1>7. /\ x \in Cli!Parts /\ x.kind = "chunk" /\ x.n = ch.given + 1 /\ g \in Nat
      /\ z \in Cli!Parts /\ z.kind = "last"
  BY <1>1 DEF Cli!Part, Cli!Parts, Cli!Kinds
<1>g. g = IF data THEN ch.given + 1 ELSE ch.given
  OBVIOUS
<1> HIDE DEF slip, x, z, g
<1>8. c \in Stories /\ c.heard = h /\ c.given = g /\ c.slips = ch.slips \cup slip
  BY <1>1, <1>2, <1>5, <1>7, ClientCounted
<1> HIDE DEF s, c
<1>9. Tidy(b, h, input, 0, ch.slips) /\ (data => Queued(s, b, x)) /\ (~data => b = s)
  BY <1>1, <1>7, QueueWriteKeeps
<1> HIDE DEF b
<1>10. /\ Tidy(t, h, input, 0, ch.slips) /\ (cl.body = "stream" => Queued(b, t, z))
       /\ (cl.body # "stream" => t = b)
  BY <1>7, <1>9, <1>1, QueueWriteKeeps
<1> HIDE DEF t
<1>11. t \in Pairs /\ t.c \in Conns /\ b \in Pairs
  BY <1>9, <1>10 DEF Tidy, Pairs
<1>12. u \in Pairs /\ u.p = t.p /\ u.c = [t.c EXCEPT !.complete = TRUE]
  BY <1>11 DEF Pairs, Conns
<1> HIDE DEF u
<1>13. /\ u.c.up = t.c.up /\ u.c.queue = t.c.queue /\ u.c.complete
       /\ u.c.sent = t.c.sent /\ u.c.body = t.c.body /\ u.c.phase = t.c.phase /\ u.c.closed = t.c.closed
  BY <1>11, <1>12 DEF Conns
<1>14. Tidy(u, h, input, 0, ch.slips)
  BY <1>10, <1>12, <1>13, FieldsChange
<1>15. Tidy(v, h, input, 0, ch.slips) /\ Same(u, v)
  BY <1>1, <1>14, DrainIsSaid
<1> HIDE DEF v
<1>16. Tidy(u, h, input, 0, c.slips) /\ Tidy(v, h, input, 0, c.slips)
  BY <1>8, <1>14, <1>15, ClientSlipsGrow
<1>17. ASSUME "misplaced" \notin c.slips
       PROVE  Uploads(u, g)
  <2>1. Uploads(s, ch.given) /\ ~s.c.complete /\ s.c.sent
    BY <1>1, <1>2, <1>5, <1>8, <1>17
  <2>2. CASE cl.body # "stream"
    <3>1. t = s /\ g = ch.given
      BY <1>4, <1>9, <1>10, <1>g, <2>2
    <3>2. u.c.body # "stream"
      BY <1>1, <1>13, <2>2, <3>1
    <3> QED BY <1>12, <1>13, <2>1, <3>1, <3>2, UploadsEnd
  <2>3. CASE cl.body = "stream"
    <3>1. /\ b.c.up = s.c.up /\ b.c.sent /\ b.c.phase = s.c.phase /\ b.c.body = "stream" /\ s.c.body = "stream"
          /\ ~b.c.complete /\ FileJobs(b.p) = FileJobs(s.p) /\ (data => b.c.queue = Append(s.c.queue, x))
      BY <1>1, <1>9, <2>1, <2>3 DEF Queued
    <3>2. FileJobs(b.p) = {}
      BY <2>1, <3>1 DEF Uploads
    <3>3. Uploads(b, g)
      <4>1. CASE ~data
        BY <1>9, <1>g, <2>1, <4>1
      <4>2. CASE data
        <5>1. Upload(b.c.up, g, b.c.complete)
          BY <2>1, <3>1, NoLast
        <5>2. b.c.phase = "open" =>
                /\ Upload(Up(s), ch.given, s.c.complete) /\ \A i \in DOMAIN Up(s) : Up(s)[i].kind # "last"
          BY <2>1, <3>1, NoLast
        <5>3. g = ch.given + 1 /\ ch.given \in Nat
          BY <1>1, <1>g, <4>2
        <5>4. b.c.phase = "open" => Len(Up(s)) = g /\ Up(s) # <<>>
          <6>1. b.c.phase = "open" => Len(Up(s)) = ch.given + 1 + 0 /\ Up(s) # <<>>
            BY <2>1, <3>1 DEF Uploads, Up
          <6>2. ch.given + 1 + 0 = ch.given + 1
            BY <1>1
          <6> QED BY <5>3, <6>1, <6>2
        <5>5. b.c.phase = "open" =>
                /\ (x.kind = "head" <=> Up(s) = <<>>) /\ (x.kind = "chunk" => x.n = Len(Up(s)))
                /\ (x.kind = "last" => Len(Up(s)) + 1 = g + 2 /\ b.c.complete)
                /\ b.c.body = "stream" => Len(Up(s)) + 1 = g + 1 + (IF b.c.complete THEN 1 ELSE 0)
          BY <1>7, <3>1, <5>3, <5>4
        <5>6. b.c.queue = Append(s.c.queue, x)
          BY <3>1, <4>2
        <5> QED BY <1>1, <1>7, <1>11, <2>1, <3>1, <3>2, <5>1, <5>2, <5>5, <5>6, UploadsGrow
      <4> QED BY <4>1, <4>2
    <3>4. /\ u.c.up = b.c.up /\ u.c.queue = Append(b.c.queue, z) /\ u.c.sent /\ u.c.phase = b.c.phase
          /\ u.c.body = "stream" /\ u.c.complete /\ FileJobs(u.p) = {}
      BY <1>10, <1>12, <1>13, <2>3, <3>1, <3>2 DEF Queued
    <3>5. Upload(u.c.up, g, u.c.complete)
      BY <3>1, <3>3, <3>4, NoLast
    <3>6. u.c.phase = "open" =>
            /\ Upload(Up(b), g, b.c.complete) /\ \A i \in DOMAIN Up(b) : Up(b)[i].kind # "last"
      BY <3>1, <3>3, <3>4, NoLast
    <3>7. u.c.phase = "open" => Len(Up(b)) = g + 1 /\ Up(b) # <<>>
      <4>1. u.c.phase = "open" => Len(Up(b)) = g + 1 + 0 /\ Up(b) # <<>>
        BY <3>1, <3>3, <3>4 DEF Uploads, Up
      <4>2. g + 1 + 0 = g + 1
        BY <1>7
      <4> QED BY <4>1, <4>2
    <3>8. u.c.phase = "open" =>
            /\ (z.kind = "head" <=> Up(b) = <<>>) /\ (z.kind = "chunk" => z.n = Len(Up(b)))
            /\ (z.kind = "last" => Len(Up(b)) + 1 = g + 2 /\ u.c.complete)
            /\ u.c.body = "stream" => Len(Up(b)) + 1 = g + 1 + (IF u.c.complete THEN 1 ELSE 0)
      BY <1>7, <3>4, <3>7
    <3> QED BY <1>7, <1>11, <1>12, <3>3, <3>4, <3>5, <3>6, <3>8, UploadsGrow
  <2> QED BY <2>2, <2>3
<1>18. "misplaced" \notin c.slips => Uploads(v, g)
  BY <1>15, <1>17, UploadsKept
<1>19. CASE callback
  <2>1. Cli!Becomes(v)
    BY <1>4, <1>19
  <2> QED BY <1>1, <1>2, <1>6, <1>8, <1>16, <1>18, <2>1, ClientBecomes
<1>20. CASE ~callback
  <2>1. Cli!Becomes(u)
    BY <1>4, <1>20
  <2> QED BY <1>1, <1>2, <1>6, <1>8, <1>16, <1>17, <2>1, ClientBecomes
<1> QED BY <1>19, <1>20

\* pause and resume only post their task.
LEMMA PauseOrResumeKeeps ==
  ASSUME HttpConstants, ClientInv, Cli!PauseOrResume
  PROVE  ClientInv'
<1> DEFINE s == Cli!State
           h == ch.heard
<1>1. /\ Tidy(s, h, input, 0, ch.slips) /\ AnAnswer(input) /\ ch \in Stories /\ ch.given \in Nat
      /\ ran \in {"script", "loop"} /\ ("misplaced" \notin ch.slips => Uploads(s, ch.given))
  BY ClientHolds
<1>2. PICK what \in {"pause", "resume"} : Cli!Becomes(Cli!Post(s, Cli!Task(what)))
  BY DEF Cli!PauseOrResume
<1>3. ch.calls < ClientCalls /\ ch' = Cli!CCounted({}) /\ input' = input /\ ran' = ran
  BY DEF Cli!PauseOrResume, Cli!CCall
<1> DEFINE t == Cli!Post(s, Cli!Task(what))
<1>4. Tidy(t, h, input, 0, ch.slips) /\ Same(s, t)
  BY <1>1, JobIsPosted
<1>5. Cli!Becomes(t)
  BY <1>2
<1> HIDE DEF t, s
<1>a. {} \in SUBSET {"misplaced", "late", "inFlight"} /\ ch.slips \cup {} = ch.slips
  OBVIOUS
<1>b. /\ Cli!CCounted({}) \in Stories /\ Cli!CCounted({}).heard = ch.heard
      /\ Cli!CCounted({}).given = ch.given /\ Cli!CCounted({}).slips = ch.slips \cup {}
  BY <1>1, <1>3, <1>a, ClientCounted
<1>6. ch' \in Stories /\ ch'.heard = h /\ ch'.given = ch.given /\ ch'.slips = ch.slips
  BY <1>3, <1>a, <1>b
<1>7. "misplaced" \notin ch.slips => Uploads(t, ch.given)
  BY <1>1, <1>4, UploadsKept
<1> QED BY <1>1, <1>3, <1>4, <1>5, <1>6, <1>7, ClientBecomes

\* abort() tells an error, at its time before the close is posted.
LEMMA AbortKeeps ==
  ASSUME HttpConstants, ClientInv, Cli!Abort
  PROVE  ClientInv'
<1> DEFINE s == Cli!State
           h == ch.heard
           t == Cli!Fail(s)
           slip == Cli!Unless(Cli!NotClosing, "late")
           w == ch.slips \cup slip
<1>1. /\ Tidy(s, h, input, 0, ch.slips) /\ AnAnswer(input) /\ ch \in Stories /\ ch.given \in Nat
      /\ s.c = cl /\ h \in Seq(Heards)
      /\ ran \in {"script", "loop"} /\ ("misplaced" \notin ch.slips => Uploads(s, ch.given))
  BY ClientHolds
<1>2. /\ Cli!Becomes(t) /\ ch.calls < ClientCalls /\ ch' = Cli!CCounted(slip)
      /\ input' = input /\ ran' = ran
  BY DEF Cli!Abort, Cli!CCall
<1>3. slip \in SUBSET {"misplaced", "late", "inFlight"} /\ (cl.closed => "late" \in slip)
  BY DEF Cli!Unless, Cli!NotClosing
<1> HIDE DEF slip, s
<1>4. ch' \in Stories /\ ch'.heard = h /\ ch'.given = ch.given /\ ch'.slips = w
  BY <1>1, <1>2, <1>3, ClientCounted
<1>5. Tidy(s, h, input, 0, w)
  BY <1>1, ClientSlipsGrow
<1>6. ~s.c.closed \/ w \cap {"inFlight", "late"} # {}
  BY <1>1, <1>3
<1>w. "misplaced" \notin w => "misplaced" \notin ch.slips
  OBVIOUS
<1> HIDE DEF w
<1>7. Tidy(t, h, input, 0, w) /\ Same(s, t)
  BY <1>1, <1>5, <1>6, FailIsSaid
<1>8. "misplaced" \notin w => Uploads(t, ch.given)
  BY <1>1, <1>7, <1>w, UploadsKept
<1> QED BY <1>1, <1>2, <1>4, <1>7, <1>8, ClientBecomes

\* The first task looks the host up, or fails.
LEMMA StartKeeps ==
  ASSUME HttpConstants, ClientInv, Cli!Start
  PROVE  ClientInv'
<1> DEFINE s == Cli!State
           h == ch.heard
           r == Cli!Rest
           t == [r EXCEPT !.c.phase = "resolving"]
           u == [r EXCEPT !.c.phase = "failed"]
           v == Cli!Fail(u)
<1>1. /\ Tidy(s, h, input, 0, ch.slips) /\ AnAnswer(input) /\ ch \in Stories /\ ch.given \in Nat
      /\ s.c = cl /\ s.p = posted /\ h \in Seq(Heards)
      /\ ran \in {"script", "loop"} /\ ("misplaced" \notin ch.slips => Uploads(s, ch.given))
  BY ClientHolds
<1>2. /\ posted # <<>> /\ Head(posted).do = "start" /\ (Cli!Becomes(t) \/ Cli!Becomes(v))
      /\ input' = input /\ ran' = ran /\ ch' = ch
  BY DEF Cli!Start, Cli!Next1
<1>3. s.p \in Seq(Cli!Jobs) /\ Phased(s) /\ s.c \in Conns
  BY <1>1 DEF Tidy, Pairs
<1>4. s.p[1].do = "start" /\ 1 \in DOMAIN s.p /\ s.p # <<>>
  BY <1>1, <1>2, <1>3
<1>5. s.c.phase = "queued"
  BY <1>3, <1>4 DEF Phased
<1>6. ~s.c.sent /\ ~s.c.closed
  BY <1>3, <1>5 DEF Phased
<1>7. r = [c |-> s.c, p |-> Tail(s.p)]
  BY <1>1 DEF Cli!Rest
<1>8. s.p[1].do \notin Chat
  BY <1>4 DEF Chat
<1> HIDE DEF s, r
<1>9. Tidy(r, h, input, 0, ch.slips)
  BY <1>1, <1>4, <1>7, <1>8, RestIsTidy
<1>10. NoStart(r) /\ (\A g : Uploads(s, g) => Uploads(r, g)) /\ r \in Pairs
  BY <1>1, <1>4, <1>7, RestIs
<1>11. r.c = s.c
  BY <1>7
<1>12. t \in Pairs /\ t.p = r.p /\ t.c = [s.c EXCEPT !.phase = "resolving"]
  BY <1>3, <1>10, <1>11 DEF Pairs, Conns, Cli!Phases
<1>13. u \in Pairs /\ u.p = r.p /\ u.c = [s.c EXCEPT !.phase = "failed"]
  BY <1>3, <1>10, <1>11 DEF Pairs, Conns, Cli!Phases
<1> HIDE DEF t, u
<1>14. /\ t.c.up = s.c.up /\ t.c.queue = s.c.queue /\ t.c.complete = s.c.complete
       /\ t.c.sent = s.c.sent /\ t.c.body = s.c.body /\ t.c.phase = "resolving" /\ t.c.closed = s.c.closed
  BY <1>3, <1>12 DEF Conns
<1>15. /\ u.c.up = s.c.up /\ u.c.queue = s.c.queue /\ u.c.complete = s.c.complete
       /\ u.c.sent = s.c.sent /\ u.c.body = s.c.body /\ u.c.phase = "failed" /\ u.c.closed = s.c.closed
  BY <1>3, <1>13 DEF Conns
<1>16. Tidy(t, h, input, 0, ch.slips) /\ Same(r, t)
  BY <1>6, <1>9, <1>10, <1>11, <1>12, <1>14, PhaseChanges DEF Suits, Same
<1>17. Tidy(u, h, input, 0, ch.slips) /\ Same(r, u)
  BY <1>6, <1>9, <1>10, <1>11, <1>13, <1>15, PhaseChanges DEF Suits, Same
<1>18. ~u.c.closed
  BY <1>6, <1>15
<1>19. Tidy(v, h, input, 0, ch.slips) /\ Same(u, v)
  BY <1>1, <1>17, <1>18, FailIsSaid
<1> HIDE DEF v
<1>20. Same(r, v)
  BY <1>17, <1>19, SameIsTransitive
<1>21. "misplaced" \notin ch.slips => Uploads(t, ch.given) /\ Uploads(v, ch.given)
  BY <1>1, <1>10, <1>16, <1>20, UploadsKept
<1> QED BY <1>1, <1>2, <1>16, <1>19, <1>21, ClientBecomes

\* A task of the request's own, also when the request is gone.
LEMMA RunTaskKeeps ==
  ASSUME HttpConstants, ClientInv, Cli!RunTask
  PROVE  ClientInv'
<1> DEFINE s == Cli!State
           h == ch.heard
           r == Cli!Rest
<1>1. /\ Tidy(s, h, input, 0, ch.slips) /\ AnAnswer(input) /\ ch \in Stories /\ ch.given \in Nat
      /\ s.c = cl /\ s.p = posted /\ h \in Seq(Heards)
      /\ ran \in {"script", "loop"} /\ ("misplaced" \notin ch.slips => Uploads(s, ch.given))
  BY ClientHolds
<1>2. PICK what \in {"flush", "close", "file", "pause", "resume"} :
        /\ posted # <<>> /\ Head(posted).do = what
        /\ IF cl.phase = "gone" THEN Cli!Becomes(r) ELSE Cli!Becomes(Cli!Run(r, what))
        /\ ch' = [ch EXCEPT !.slips = IF what = "close" /\ ~cl.closed /\ Cli!InFlight
                                      THEN @ \cup {"inFlight"} ELSE @]
        /\ input' = input /\ ran' = ran
  BY DEF Cli!RunTask, Cli!Next1
<1> DEFINE t == Cli!Run(r, what)
           w == IF what = "close" /\ ~cl.closed /\ Cli!InFlight THEN ch.slips \cup {"inFlight"} ELSE ch.slips
<1>3. s.p \in Seq(Cli!Jobs)
  BY <1>1 DEF Tidy, Pairs
<1>4. s.p[1].do = what /\ s.p # <<>>
  BY <1>1, <1>2, <1>3
<1>5. r = [c |-> s.c, p |-> Tail(s.p)]
  BY <1>1 DEF Cli!Rest
<1>6. s.p[1].do \notin Chat
  BY <1>4 DEF Chat
<1>7. ch' = [ch EXCEPT !.slips = w]
  BY <1>2
<1>8. w \in SUBSET {"misplaced", "late", "inFlight"} /\ ch.slips \subseteq w
  BY <1>1 DEF Stories
<1> HIDE DEF s, r, w
<1>9. ch' \in Stories /\ ch'.heard = h /\ ch'.given = ch.given /\ ch'.slips = w
  BY <1>1, <1>7, <1>8 DEF Stories
<1>10. Tidy(r, h, input, 0, ch.slips)
  BY <1>1, <1>4, <1>5, <1>6, RestIsTidy
<1>a. NoStart(r) /\ (\A g : Uploads(s, g) => Uploads(r, g)) /\ r \in Pairs
  BY <1>1, <1>4, <1>5, RestIs
<1>b. ASSUME NEW g, Uploads(s, g), s.p[1].do = "file"
      PROVE  /\ FileJobs(r.p) = {} /\ r.c.sent /\ r.c.body = "file"
             /\ r.c.phase = "open" => Len(Up(r)) = 1
  <2>1. s \in Pairs /\ r.c = s.c /\ r.p = Tail(s.p)
    BY <1>1, <1>5 DEF Tidy
  <2> QED BY <1>4, <1>b, <2>1, FileIsNext
<1>11. /\ NoStart(r) /\ (\A g : Uploads(s, g) => Uploads(r, g)) /\ r \in Pairs
       /\ \A g : Uploads(s, g) /\ s.p[1].do = "file" =>
              /\ FileJobs(r.p) = {} /\ r.c.sent /\ r.c.body = "file"
              /\ r.c.phase = "open" => Len(Up(r)) = 1
  BY <1>a, <1>b
<1>12. /\ Tidy(t, h, input, 0, ch.slips)
       /\ \A g : /\ Uploads(r, g)
                 /\ what = "file" => /\ FileJobs(r.p) = {} /\ r.c.sent /\ r.c.body = "file"
                                     /\ r.c.phase = "open" => Len(Up(r)) = 1
                 => Uploads(t, g)
  BY <1>1, <1>10, <1>11, RunIs
<1> HIDE DEF t
<1>13. Tidy(r, h, input, 0, w) /\ Tidy(t, h, input, 0, w)
  BY <1>8, <1>10, <1>12, ClientSlipsGrow
<1>14. "misplaced" \notin w => Uploads(r, ch.given) /\ Uploads(t, ch.given)
  <2>1. ASSUME "misplaced" \notin w
        PROVE  Uploads(s, ch.given)
    BY <1>1, <1>8, <2>1
  <2>2. ASSUME "misplaced" \notin w
        PROVE  Uploads(r, ch.given)
    BY <1>11, <2>1, <2>2
  <2>3. ASSUME "misplaced" \notin w, what = "file"
        PROVE  /\ FileJobs(r.p) = {} /\ r.c.sent /\ r.c.body = "file"
               /\ r.c.phase = "open" => Len(Up(r)) = 1
    BY <1>4, <1>11, <2>1, <2>3
  <2> QED BY <1>12, <2>2, <2>3
<1>15. CASE cl.phase = "gone"
  <2>1. Cli!Becomes(r)
    BY <1>2, <1>15
  <2> QED BY <1>1, <1>2, <1>9, <1>13, <1>14, <2>1, ClientBecomes
<1>16. CASE cl.phase # "gone"
  <2>1. Cli!Becomes(t)
    BY <1>2, <1>16 DEF t
  <2> QED BY <1>1, <1>2, <1>9, <1>13, <1>14, <2>1, ClientBecomes
<1> QED BY <1>15, <1>16

\* The task of an event gives way to the one that lets a listener hear it.
LEMMA RelayKeeps ==
  ASSUME HttpConstants, ClientInv, Cli!Relay
  PROVE  ClientInv'
<1> DEFINE s == Cli!State
           h == ch.heard
           r == Cli!Rest
           j == [Head(posted) EXCEPT !.do = "hear"]
           t == Cli!Post(r, j)
<1>1. /\ Tidy(s, h, input, 0, ch.slips) /\ AnAnswer(input) /\ ch \in Stories /\ ch.given \in Nat
      /\ s.c = cl /\ s.p = posted /\ h \in Seq(Heards)
      /\ ran \in {"script", "loop"} /\ ("misplaced" \notin ch.slips => Uploads(s, ch.given))
  BY ClientHolds
<1>2. /\ posted # <<>> /\ Head(posted).do = "say" /\ Cli!Becomes(t)
      /\ input' = input /\ ran' = ran /\ ch' = ch
  BY DEF Cli!Relay, Cli!Next1
<1>3. s.p \in Seq(Cli!Jobs) /\ Ordered(h, s.p, Good(ch.slips)) /\ Talks(s, h, input, 0, ch.slips)
  BY <1>1 DEF Tidy, Pairs, Talks
<1>4. s.p[1].do = "say" /\ s.p # <<>> /\ Head(s.p) = s.p[1] /\ s.p[1] \in Cli!Jobs
  BY <1>1, <1>2, <1>3
<1>5. j = [s.p[1] EXCEPT !.do = "hear"]
  BY <1>1, <1>4
<1>6. j \in Cli!Jobs /\ j.do = "hear" /\ j.event = s.p[1].event
  BY <1>4, <1>5 DEF Cli!Jobs
<1>7. r = [c |-> s.c, p |-> Tail(s.p)]
  BY <1>1 DEF Cli!Rest
<1>8. r.c = s.c /\ r.p = Tail(s.p)
  BY <1>7
<1> HIDE DEF s, r, j
<1>9. NoStart(r) /\ (\A g : Uploads(s, g) => Uploads(r, g)) /\ r \in Pairs
  BY <1>1, <1>4, <1>7, RestIs
<1>10. Phased(r)
  BY <1>1, <1>4, <1>7, RestIs
<1>11. /\ Ordered(h, Append(Tail(s.p), j), Good(ch.slips))
       /\ Placed(h, Append(Tail(s.p), j)) = Placed(h, s.p)
  BY <1>3, <1>4, <1>6, EventIsRelayed
<1>12. t \in Pairs /\ t.c = r.c /\ t.p = Append(r.p, j)
  BY <1>6, <1>9, PostIs
<1>13. Phased(t) /\ Same(r, t)
  BY <1>6, <1>9, <1>10, PostKeeps
<1> HIDE DEF t
<1>14. Ordered(h, t.p, Good(ch.slips)) /\ Placed(h, t.p) = Placed(h, s.p) /\ t.c = s.c
  BY <1>8, <1>11, <1>12
<1>15. Talks(t, h, input, 0, ch.slips)
  BY <1>3, <1>14 DEF Talks
<1>16. Tidy(t, h, input, 0, ch.slips)
  BY <1>12, <1>13, <1>15 DEF Tidy
<1>17. "misplaced" \notin ch.slips => Uploads(t, ch.given)
  BY <1>1, <1>9, <1>13, UploadsKept
<1> QED BY <1>1, <1>2, <1>16, <1>17, ClientBecomes

\* A listener hears: the history of drains is not kept.
LEMMA HearKeeps ==
  ASSUME HttpConstants, ClientInv, Cli!Hear
  PROVE  ClientInv'
<1> DEFINE s == Cli!State
           h == ch.heard
           r == Cli!Rest
           x == s.p[1].event
           k == IF x.kind = "drain" THEN h ELSE Append(h, x)
<1>1. /\ Tidy(s, h, input, 0, ch.slips) /\ AnAnswer(input) /\ ch \in Stories /\ ch.given \in Nat
      /\ s.c = cl /\ s.p = posted /\ h \in Seq(Heards)
      /\ ran \in {"script", "loop"} /\ ("misplaced" \notin ch.slips => Uploads(s, ch.given))
  BY ClientHolds
<1>2. /\ posted # <<>> /\ Head(posted).do = "hear" /\ Cli!Becomes(r)
      /\ input' = input /\ ran' = "script"
      /\ ch' = [ch EXCEPT !.heard = IF Head(posted).event.kind = "drain" THEN @
                                    ELSE Append(@, Head(posted).event)]
  BY DEF Cli!Hear, Cli!Next1
<1>3. s.p \in Seq(Cli!Jobs) /\ Ordered(h, s.p, Good(ch.slips)) /\ Talks(s, h, input, 0, ch.slips)
  BY <1>1 DEF Tidy, Pairs, Talks
<1>4. s.p[1].do = "hear" /\ s.p # <<>> /\ Head(s.p) = s.p[1] /\ s.p[1] \in Cli!Jobs
  BY <1>1, <1>2, <1>3
<1>5. x \in Cli!Parts
  BY <1>4 DEF Cli!Jobs
<1>6. ch' = [ch EXCEPT !.heard = k]
  BY <1>1, <1>2, <1>4
<1>7. x.kind # "drain" => x \in Heards
  BY <1>5 DEF Heards
<1> HIDE DEF x
<1>8. k \in Seq(Heards)
  BY <1>1, <1>7
<1> HIDE DEF k
<1>9. ch' \in Stories /\ ch'.heard = k /\ ch'.given = ch.given /\ ch'.slips = ch.slips
  BY <1>1, <1>6, <1>8 DEF Stories
<1>10. r = [c |-> s.c, p |-> Tail(s.p)]
  BY <1>1 DEF Cli!Rest
<1>11. r.c = s.c /\ r.p = Tail(s.p)
  BY <1>10
<1> HIDE DEF s, r
<1>12. NoStart(r) /\ (\A g : Uploads(s, g) => Uploads(r, g)) /\ r \in Pairs
  BY <1>1, <1>4, <1>10, RestIs
<1>13. Phased(r)
  BY <1>1, <1>4, <1>10, RestIs
<1>14. /\ Ordered(k, Tail(s.p), Good(ch.slips)) /\ Placed(k, Tail(s.p)) \subseteq Placed(h, s.p)
       /\ \A y \in Placed(h, s.p) : y.kind # "drain" => y \in Placed(k, Tail(s.p))
  <2>1. CASE x.kind = "drain"
    <3>1. /\ Ordered(h, Tail(s.p), Good(ch.slips)) /\ Placed(h, Tail(s.p)) \subseteq Placed(h, s.p)
          /\ Placed(h, s.p) \subseteq Placed(h, Tail(s.p)) \cup {y \in {s.p[1].event} : s.p[1].do \in Chat}
      BY <1>3, <1>4, HeadGoes
    <3>2. \A y \in Placed(h, s.p) : y.kind # "drain" => y \in Placed(h, Tail(s.p))
      BY <2>1, <3>1 DEF x
    <3>3. k = h
      BY <2>1 DEF k
    <3> QED BY <3>1, <3>2, <3>3
  <2>2. CASE x.kind # "drain"
    <3>1. s.p[1].event \in Heards
      BY <1>7, <2>2 DEF x
    <3>2. /\ Ordered(Append(h, s.p[1].event), Tail(s.p), Good(ch.slips))
          /\ Placed(Append(h, s.p[1].event), Tail(s.p)) = Placed(h, s.p)
      BY <1>1, <1>3, <1>4, <3>1, EventIsHeard
    <3>3. k = Append(h, s.p[1].event)
      BY <2>2 DEF k, x
    <3> QED BY <3>2, <3>3
  <2> QED BY <2>1, <2>2
<1>15. /\ Ordered(k, r.p, Good(ch.slips)) /\ Placed(k, r.p) \subseteq Placed(h, s.p)
       /\ \A y \in Placed(h, s.p) : y.kind # "drain" => y \in Placed(k, r.p)
  BY <1>11, <1>14
<1>16. \A n \in Nat : Cli!Part("data", n).kind # "drain"
  BY DEF Cli!Part
<1>17. Talks(r, k, input, 0, ch.slips)
  <2>1. /\ ~r.c.sent => \A y \in Placed(k, r.p) : ~Main(y)
        /\ \A y \in Placed(k, r.p) : y.kind = "close" => r.c.closed
        /\ \A y \in Placed(k, r.p), i \in DOMAIN input :
             i > 0 /\ Main(y) /\ Main(input[i]) => Rank(y) < Rank(input[i])
    BY <1>3, <1>11, <1>15 DEF Talks
  <2>a. \A y \in Placed(k, r.p) : y.kind = "data" => y.n \in 1..Answer
    BY <1>3, <1>15 DEF Talks
  <2>2. ASSUME NEW n \in 1..Answer
        PROVE  \/ Cli!Part("data", n) \in Placed(k, r.p)
               \/ \E i \in DOMAIN input : i > 0 /\ input[i] = Cli!Part("data", n)
    <3>1. n \in Nat
      BY DEF HttpConstants
    <3>2. \/ Cli!Part("data", n) \in Placed(h, s.p)
          \/ \E i \in DOMAIN input : i > 0 /\ input[i] = Cli!Part("data", n)
      BY <1>3 DEF Talks
    <3> QED BY <1>15, <1>16, <3>1, <3>2
  <2> QED BY <1>15, <2>1, <2>a, <2>2 DEF Talks
<1>18. Tidy(r, k, input, 0, ch.slips)
  BY <1>12, <1>13, <1>17 DEF Tidy
<1>19. "misplaced" \notin ch.slips => Uploads(r, ch.given)
  BY <1>1, <1>12
<1> QED BY <1>1, <1>2, <1>9, <1>18, <1>19, ClientBecomes

\* What holds when uv polls.
LEMMA ClientPolls ==
  ASSUME ClientInv, Cli!Polls
  PROVE  NoStart(Cli!State) /\ Cli!State.p = <<>>
BY ClientHolds DEF Cli!Polls, NoStart

\* The connection is not made, for now or for ever.
LEMMA PhaseIsTidy ==
  ASSUME NEW s, NEW h, NEW a, NEW m, NEW slips, Tidy(s, h, a, m, slips), NoStart(s), ~s.c.sent, ~s.c.closed,
         NEW phase \in {"connecting", "stuck", "failed"}, NEW t, t = [s EXCEPT !.c.phase = phase]
  PROVE  Tidy(t, h, a, m, slips) /\ Same(s, t) /\ ~t.c.closed
<1>1. s \in Pairs /\ s.c \in Conns /\ phase \in Cli!Phases
  BY DEF Tidy, Pairs, Cli!Phases
<1>a. t \in Pairs /\ t.p = s.p /\ t.c = [s.c EXCEPT !.phase = phase]
  BY <1>1 DEF Pairs, Conns
<1>2. /\ t \in Pairs /\ t.p = s.p
      /\ t.c.up = s.c.up /\ t.c.queue = s.c.queue /\ t.c.complete = s.c.complete
      /\ t.c.sent = s.c.sent /\ t.c.body = s.c.body /\ t.c.phase = phase /\ t.c.closed = s.c.closed
  BY <1>1, <1>a DEF Conns
<1>3. Suits(t.c)
  BY <1>2 DEF Suits
<1>4. Tidy(t, h, a, m, slips)
  BY <1>2, <1>3, PhaseChanges
<1> QED BY <1>2, <1>4 DEF Same

\* The host is found, or not.
LEMMA OnResolvedKeeps ==
  ASSUME HttpConstants, ClientInv, Cli!OnResolved
  PROVE  ClientInv'
<1> DEFINE s == Cli!State
           h == ch.heard
           u == [s EXCEPT !.c.phase = "failed"]
           v == Cli!Fail(u)
<1>1. /\ Tidy(s, h, input, 0, ch.slips) /\ AnAnswer(input) /\ ch \in Stories /\ ch.given \in Nat
      /\ s.c = cl /\ s.p = posted /\ h \in Seq(Heards)
      /\ ran \in {"script", "loop"} /\ ("misplaced" \notin ch.slips => Uploads(s, ch.given))
  BY ClientHolds
<1>2. /\ cl.phase = "resolving" /\ Cli!Polls /\ input' = input /\ ran' = ran /\ ch' = ch
      /\ \/ \E phase \in {"connecting", "stuck"} : Cli!Becomes([s EXCEPT !.c.phase = phase])
         \/ Cli!Becomes(v)
  BY DEF Cli!OnResolved
<1>3. NoStart(s)
  BY <1>2, ClientPolls
<1> HIDE DEF s
<1>4. ~s.c.sent /\ ~s.c.closed
  BY <1>1, <1>2 DEF Tidy, Phased
<1>5. CASE \E phase \in {"connecting", "stuck"} : Cli!Becomes([s EXCEPT !.c.phase = phase])
  <2>1. PICK phase \in {"connecting", "stuck"} : Cli!Becomes([s EXCEPT !.c.phase = phase])
    BY <1>5
  <2> DEFINE t == [s EXCEPT !.c.phase = phase]
  <2>2. phase \in {"connecting", "stuck", "failed"}
    OBVIOUS
  <2>3. Tidy(t, h, input, 0, ch.slips) /\ Same(s, t)
    BY <1>1, <1>3, <1>4, <2>2, PhaseIsTidy
  <2>4. Cli!Becomes(t)
    BY <2>1
  <2> HIDE DEF t
  <2>5. "misplaced" \notin ch.slips => Uploads(t, ch.given)
    BY <1>1, <2>3, UploadsKept
  <2> QED BY <1>1, <1>2, <2>3, <2>4, <2>5, ClientBecomes
<1>6. CASE Cli!Becomes(v)
  <2>1. "failed" \in {"connecting", "stuck", "failed"}
    OBVIOUS
  <2>2. Tidy(u, h, input, 0, ch.slips) /\ Same(s, u) /\ ~u.c.closed
    BY <1>1, <1>3, <1>4, <2>1, PhaseIsTidy
  <2> HIDE DEF u
  <2>3. Tidy(v, h, input, 0, ch.slips) /\ Same(u, v)
    BY <1>1, <2>2, FailIsSaid
  <2>4. Cli!Becomes(v)
    BY <1>6
  <2> HIDE DEF v
  <2>5. Same(s, v)
    BY <2>2, <2>3, SameIsTransitive
  <2>6. "misplaced" \notin ch.slips => Uploads(v, ch.given)
    BY <1>1, <2>5, UploadsKept
  <2> QED BY <1>1, <1>2, <2>3, <2>4, <2>6, ClientBecomes
<1> QED BY <1>2, <1>5, <1>6

\* The connection stands, and the head goes first; or it fails.
LEMMA OnConnectKeeps ==
  ASSUME HttpConstants, ClientInv, Cli!OnConnect
  PROVE  ClientInv'
<1> DEFINE s == Cli!State
           h == ch.heard
           q == [s EXCEPT !.c.phase = "open", !.c.reading = TRUE]
           t == Cli!SendInitialRequest(q)
           u == [s EXCEPT !.c.phase = "failed"]
           v == Cli!Fail(u)
           w == Cli!Written(v, FALSE)
<1>1. /\ Tidy(s, h, input, 0, ch.slips) /\ AnAnswer(input) /\ ch \in Stories /\ ch.given \in Nat
      /\ s.c = cl /\ s.p = posted /\ h \in Seq(Heards)
      /\ ran \in {"script", "loop"} /\ ("misplaced" \notin ch.slips => Uploads(s, ch.given))
  BY ClientHolds
<1>2. /\ cl.phase = "connecting" /\ Cli!Polls /\ input' = input /\ ran' = ran /\ ch' = ch
      /\ Cli!Becomes(t) \/ Cli!Becomes(v) \/ Cli!Becomes(w)
  BY DEF Cli!OnConnect
<1>3. NoStart(s) /\ Answer \in Nat
  BY <1>2, ClientPolls DEF HttpConstants, Cli!ClientAssumption
<1> HIDE DEF s
<1>4. ~s.c.sent /\ ~s.c.closed /\ s.c.phase = "connecting"
  BY <1>1, <1>2 DEF Tidy, Phased
<1>5. CASE Cli!Becomes(t)
  <2>1. Tidy(t, h, input, 0, ch.slips) /\ \A g : Uploads(s, g) => Uploads(t, g)
    BY <1>1, <1>3, <1>4, RequestIsSent
  <2>2. Cli!Becomes(t)
    BY <1>5
  <2> HIDE DEF t
  <2>3. "misplaced" \notin ch.slips => Uploads(t, ch.given)
    BY <1>1, <2>1
  <2> QED BY <1>1, <1>2, <2>1, <2>2, <2>3, ClientBecomes
<1>6. CASE Cli!Becomes(v) \/ Cli!Becomes(w)
  <2>1. "failed" \in {"connecting", "stuck", "failed"}
    OBVIOUS
  <2>2. Tidy(u, h, input, 0, ch.slips) /\ Same(s, u) /\ ~u.c.closed
    BY <1>1, <1>3, <1>4, <2>1, PhaseIsTidy
  <2> HIDE DEF u
  <2>3. Tidy(v, h, input, 0, ch.slips) /\ Same(u, v) /\ v.c = u.c
    BY <1>1, <2>2, FailIsSaid
  <2> HIDE DEF v
  <2>4. ~v.c.closed /\ FALSE \in BOOLEAN
    BY <2>2, <2>3
  <2>5. Tidy(w, h, input, 0, ch.slips) /\ Same(v, w)
    BY <1>1, <2>3, <2>4, WrittenKeeps
  <2> HIDE DEF w
  <2>6. Same(s, v)
    BY <2>2, <2>3, SameIsTransitive
  <2>7. Same(s, w)
    BY <2>5, <2>6, SameIsTransitive
  <2>8. "misplaced" \notin ch.slips => Uploads(v, ch.given) /\ Uploads(w, ch.given)
    BY <1>1, <2>6, <2>7, UploadsKept
  <2>9. CASE Cli!Becomes(v)
    BY <1>1, <1>2, <2>3, <2>8, <2>9, ClientBecomes
  <2>10. CASE Cli!Becomes(w)
    BY <1>1, <1>2, <2>5, <2>8, <2>10, ClientBecomes
  <2> QED BY <1>6, <2>9, <2>10
<1> QED BY <1>2, <1>5, <1>6

\* A write is done, and the next one goes.
LEMMA OnWriteCompleteKeeps ==
  ASSUME HttpConstants, ClientInv, Cli!OnWriteComplete
  PROVE  ClientInv'
<1> DEFINE s == Cli!State
           h == ch.heard
<1>1. /\ Tidy(s, h, input, 0, ch.slips) /\ AnAnswer(input) /\ ch \in Stories /\ ch.given \in Nat
      /\ s.c = cl /\ h \in Seq(Heards)
      /\ ran \in {"script", "loop"} /\ ("misplaced" \notin ch.slips => Uploads(s, ch.given))
  BY ClientHolds
<1>2. /\ cl.phase \in {"open", "broken"} /\ input' = input /\ ran' = ran /\ ch' = ch
      /\ \E ok \in BOOLEAN : Cli!Becomes(Cli!Written(s, ok))
  BY DEF Cli!OnWriteComplete
<1> HIDE DEF s
<1>3. ~s.c.closed
  BY <1>1, <1>2 DEF Tidy, Phased
<1>4. PICK ok \in BOOLEAN : Cli!Becomes(Cli!Written(s, ok))
  BY <1>2
<1> DEFINE t == Cli!Written(s, ok)
<1>5. Tidy(t, h, input, 0, ch.slips) /\ Same(s, t)
  BY <1>1, <1>3, WrittenKeeps
<1>6. Cli!Becomes(t)
  BY <1>4
<1> HIDE DEF t
<1>7. "misplaced" \notin ch.slips => Uploads(t, ch.given)
  BY <1>1, <1>5, UploadsKept
<1> QED BY <1>1, <1>2, <1>5, <1>6, <1>7, ClientBecomes

\* What was read of the answer is told, and is read no more.
LEMMA OnReadKeeps ==
  ASSUME HttpConstants, ClientInv, Cli!OnRead
  PROVE  ClientInv'
<1> DEFINE s == Cli!State
           h == ch.heard
<1>1. /\ Tidy(s, h, input, 0, ch.slips) /\ AnAnswer(input) /\ ch \in Stories /\ ch.given \in Nat
      /\ s.c = cl /\ h \in Seq(Heards)
      /\ ran \in {"script", "loop"} /\ ("misplaced" \notin ch.slips => Uploads(s, ch.given))
  BY ClientHolds
<1>2. cl.phase = "open" /\ Cli!Polls /\ ran' = ran /\ ch' = ch
  BY DEF Cli!OnRead
<1>3. PICK k \in 1..Len(input) :
        /\ LET told == [i \in 1..(k - 1) |-> Cli!Say(input[i].kind, input[i].n)]
           IN  Cli!Becomes(Cli!Parse([Cli!State EXCEPT !.p = @ \o told], input[k]))
        /\ input' = SubSeq(input, k + 1, Len(input))
  BY DEF Cli!OnRead
<1> DEFINE t == After(s, Said(input, k))
           v == Cli!Parse(t, input[k])
           b == SubSeq(input, k + 1, Len(input))
<1>4. Cli!Becomes(v)
  BY <1>3 DEF After, Said
<1>5. s.p = <<>>
  BY <1>2, ClientPolls
<1>6. input' = b
  BY <1>3
<1> HIDE DEF s
<1>7. s.c.phase = "open"
  BY <1>1, <1>2
<1>8. /\ Tidy(v, h, b, 0, ch.slips) /\ AnAnswer(b)
      /\ \A g : Uploads(s, g) => Uploads(v, g)
  BY <1>1, <1>5, <1>7, ReadIs
<1> HIDE DEF v, t, b
<1>9. "misplaced" \notin ch.slips => Uploads(v, ch.given)
  BY <1>1, <1>8
<1> QED BY <1>1, <1>2, <1>4, <1>6, <1>8, <1>9, ClientBecomes

\* The socket is closed; what was in flight is told of only then.
LEMMA OnClosedKeeps ==
  ASSUME HttpConstants, ClientInv, Cli!OnClosed
  PROVE  ClientInv'
<1> DEFINE s == Cli!State
           h == ch.heard
           t == [s EXCEPT !.c.phase = "gone", !.c.flight = FALSE]
           v == Cli!Fail(t)
<1>1. /\ Tidy(s, h, input, 0, ch.slips) /\ AnAnswer(input) /\ ch \in Stories /\ ch.given \in Nat
      /\ s.c = cl /\ h \in Seq(Heards) /\ s \in Pairs
      /\ ran \in {"script", "loop"} /\ ("misplaced" \notin ch.slips => Uploads(s, ch.given))
  BY ClientHolds
<1>2. /\ cl.phase = "closing" /\ Cli!Polls /\ input' = input /\ ran' = ran /\ ch' = ch
      /\ IF "inFlight" \in ch.slips THEN Cli!Becomes(v) ELSE Cli!Becomes(t)
  BY DEF Cli!OnClosed
<1>3. NoStart(s)
  BY <1>2, ClientPolls
<1> HIDE DEF s
<1>4. s.c.closed /\ s.c.phase = "closing" /\ s.c \in Conns
  BY <1>1, <1>2 DEF Tidy, Phased, Pairs
<1>5. t \in Pairs /\ t.p = s.p /\ t.c = [s.c EXCEPT !.phase = "gone", !.flight = FALSE]
  BY <1>1, <1>4 DEF Pairs, Conns, Cli!Phases
<1> HIDE DEF t
<1>6. /\ t.c.up = s.c.up /\ t.c.queue = s.c.queue /\ t.c.complete = s.c.complete
      /\ t.c.sent = s.c.sent /\ t.c.body = s.c.body /\ t.c.phase = "gone" /\ t.c.closed = s.c.closed
  BY <1>4, <1>5 DEF Conns
<1>7. Suits(t.c)
  BY <1>4, <1>6 DEF Suits
<1>8. Tidy(t, h, input, 0, ch.slips)
  BY <1>1, <1>3, <1>5, <1>6, <1>7, PhaseChanges
<1>9. Same(s, t)
  BY <1>5, <1>6 DEF Same
<1>10. "misplaced" \notin ch.slips => Uploads(t, ch.given)
  BY <1>1, <1>9, UploadsKept
<1>11. CASE "inFlight" \notin ch.slips
  <2>1. Cli!Becomes(t)
    BY <1>2, <1>11
  <2> QED BY <1>1, <1>2, <1>8, <1>10, <2>1, ClientBecomes
<1>12. CASE "inFlight" \in ch.slips
  <2>1. ch.slips \cap {"inFlight", "late"} # {}
    BY <1>12
  <2>2. Tidy(v, h, input, 0, ch.slips) /\ Same(t, v)
    BY <1>1, <1>8, <2>1, FailIsSaid
  <2>3. Cli!Becomes(v)
    BY <1>2, <1>12
  <2> HIDE DEF v
  <2>4. "misplaced" \notin ch.slips => Uploads(v, ch.given)
    BY <1>10, <2>2, UploadsKept
  <2> QED BY <1>1, <1>2, <2>2, <2>3, <2>4, ClientBecomes
<1> QED BY <1>11, <1>12

\* What the server sends.
AnswerTo(last, a) ==
  a = <<Cli!Part("response", 0)>> \o [i \in 1..Answer |-> Cli!Part("data", i)] \o <<Cli!Part(last, 0)>>
LEMMA AnswerIs ==
  ASSUME Answer \in Nat, NEW last \in {"end", "bad", "eof", "reset"}, NEW a, AnswerTo(last, a)
  PROVE  AnAnswer(a) /\ \A n \in 1..Answer : \E i \in DOMAIN a : i > 0 /\ a[i] = Cli!Part("data", n)
<1> DEFINE x == Cli!Part("response", 0)
           d == [i \in 1..Answer |-> Cli!Part("data", i)]
           y == Cli!Part(last, 0)
           b == <<x>> \o d
<1>1. /\ x \in Cli!Parts /\ x.kind = "response" /\ y \in Cli!Parts /\ y.kind = last
      /\ \A i \in Nat : /\ Cli!Part("data", i) \in Cli!Parts /\ Cli!Part("data", i).kind = "data"
                        /\ Cli!Part("data", i).n = i
  BY DEF Cli!Part, Cli!Parts, Cli!Kinds
<1>2. \A i \in 1..Answer : i \in Nat /\ d[i] = Cli!Part("data", i)
  OBVIOUS
<1>a. a = b \o <<y>>
  BY DEF AnswerTo
<1> HIDE DEF x, y
<1>3. d \in Seq(Cli!Parts) /\ Len(d) = Answer
  BY <1>1, <1>2
<1> HIDE DEF d
<1>4. b \in Seq(Cli!Parts) /\ Len(b) = Answer + 1 /\ b[1] = x /\ \A i \in 1..Answer : b[i + 1] = d[i]
  BY <1>1, <1>3
<1> HIDE DEF b
<1>b. <<y>> \in Seq(Cli!Parts) /\ Len(<<y>>) = 1 /\ <<y>>[1] = y
  BY <1>1
<1> DEFINE o == <<y>>
<1> HIDE DEF o
<1>c. a = b \o o /\ o \in Seq(Cli!Parts) /\ Len(o) = 1 /\ o[1] = y
  BY <1>a, <1>b DEF o
<1>5. /\ a \in Seq(Cli!Parts) /\ Len(a) = Answer + 2 /\ a[Answer + 2] = y
      /\ \A i \in 1..(Answer + 1) : a[i] = b[i]
  <2>1. a \in Seq(Cli!Parts) /\ Joined(b, o, a)
    BY <1>4, <1>c, ConcatIs
  <2>2. \A i \in 1..(Answer + 1) : a[i] = b[i]
    BY <1>4, <1>c, <2>1 DEF Joined
  <2>3. Len(a) = Answer + 2
    BY <1>4, <1>c, <2>1 DEF Joined
  <2> QED BY <1>4, <1>c, <2>1, <2>2, <2>3 DEF Joined
<1>6. a[1] = x /\ DOMAIN a = 1..(Answer + 2)
  BY <1>4, <1>5
<1>7. ASSUME NEW i \in 1..Answer
      PROVE  i + 1 \in DOMAIN a /\ a[i + 1] = Cli!Part("data", i)
  BY <1>2, <1>4, <1>5, <1>6
<1>8. ASSUME NEW i \in DOMAIN a
      PROVE  \/ i = 1 /\ a[i].kind = "response"
             \/ i \in 2..(Answer + 1) /\ a[i].kind = "data" /\ a[i].n = i - 1
             \/ i = Answer + 2 /\ a[i].kind = last
  <2>1. CASE i = 1
    BY <1>1, <1>6, <2>1
  <2>2. CASE i \in 2..(Answer + 1)
    <3>1. i - 1 \in 1..Answer /\ (i - 1) + 1 = i /\ i - 1 \in Nat
      BY <2>2
    <3>2. a[i] = Cli!Part("data", i - 1)
      BY <1>7, <3>1
    <3> QED BY <1>1, <2>2, <3>1, <3>2
  <2>3. CASE i = Answer + 2
    BY <1>1, <1>5, <2>3
  <2> QED BY <1>6, <2>1, <2>2, <2>3
<1>9. ASSUME NEW i \in DOMAIN a, NEW j \in DOMAIN a, i < j, Main(a[i]), Main(a[j])
      PROVE  Rank(a[i]) < Rank(a[j])
  <2>1. i \in Nat /\ j \in Nat
    BY <1>6
  <2>2. i # Answer + 2 /\ j # 1
    BY <1>6, <1>9, <2>1
  <2>3. Rank(a[i]) = i
    <3>1. \/ i = 1 /\ a[i].kind = "response"
          \/ a[i].kind = "data" /\ a[i].n = i - 1
      BY <1>8, <2>2
    <3> QED BY <2>1, <3>1 DEF Rank
  <2>4. Rank(a[j]) = j
    <3>1. \/ j = Answer + 2 /\ a[j].kind = "end"
          \/ a[j].kind = "data" /\ a[j].n = j - 1
      BY <1>8, <1>9, <2>2 DEF Main
    <3> QED BY <2>1, <3>1 DEF Rank
  <2> QED BY <1>9, <2>3, <2>4
<1>10. AnAnswer(a)
  <2>1. ASSUME NEW i \in DOMAIN a
        PROVE  /\ a[i].kind \in {"response", "data", "end", "bad", "eof", "reset"}
               /\ a[i].kind = "data" => a[i].n \in 1..Answer
               /\ a[i].kind \notin {"response", "data"} => i = Len(a)
    <3>1. CASE i = 1
      <4>1. a[i].kind = "response"
        BY <1>1, <1>6, <3>1
      <4> QED BY <4>1
    <3>2. CASE i \in 2..(Answer + 1)
      <4>1. a[i].kind = "data" /\ a[i].n = i - 1 /\ i - 1 \in 1..Answer
        BY <1>8, <3>2
      <4> QED BY <4>1
    <3>3. CASE i = Answer + 2
      <4>1. a[i].kind = last /\ i = Len(a)
        BY <1>1, <1>5, <3>3
      <4> QED BY <4>1
    <3> QED BY <1>6, <3>1, <3>2, <3>3
  <2> QED BY <1>5, <1>9, <2>1 DEF AnAnswer
<1> QED BY <1>7, <1>10

\* The invariant holds at the start.
LEMMA ClientStarts ==
  ASSUME HttpConstants, Cli!Init
  PROVE  ClientInv
<1> DEFINE s == Cli!State
<1>1. PICK body \in {"none", "fixed", "file", "stream"}, size \in 0..1 :
        cl = [phase |-> "queued", body |-> body, file |-> size, closed |-> FALSE,
              sent |-> FALSE, complete |-> FALSE, writing |-> FALSE, flight |-> FALSE,
              queue |-> <<>>, paused |-> FALSE, reading |-> FALSE, up |-> <<>>]
  BY DEF Cli!Init
<1>2. /\ posted = <<Cli!Task("start")>> /\ input \in Cli!Answers /\ ran = "script"
      /\ ch = [given |-> 0, heard |-> <<>>, calls |-> 0, slips |-> {}]
  BY DEF Cli!Init
<1>3. cl \in Conns
  BY <1>1 DEF Conns, Cli!Phases
<1>4. posted \in Seq(Cli!Jobs) /\ posted[1].do = "start" /\ Len(posted) = 1 /\ DOMAIN posted = {1}
  BY <1>2, JobsAre
<1>5. s \in Pairs /\ s.c = cl /\ s.p = posted
  BY <1>3, <1>4 DEF Cli!State, Pairs
<1>6. Answer \in Nat /\ ClientCalls \in Nat
  BY DEF HttpConstants, Cli!ClientAssumption
<1>7. ch \in Stories /\ ch.heard = <<>> /\ ch.slips = {} /\ ch.given = 0
  BY <1>2, <1>6 DEF Stories
<1>8. PICK last \in {"end", "bad", "eof", "reset"} : AnswerTo(last, input)
  BY <1>2 DEF Cli!Answers, AnswerTo
<1>9. AnAnswer(input) /\ \A n \in 1..Answer : \E i \in DOMAIN input : i > 0 /\ input[i] = Cli!Part("data", n)
  BY <1>6, <1>8, AnswerIs
<1>10. /\ s.c.phase = "queued" /\ ~s.c.closed /\ ~s.c.sent /\ ~s.c.complete /\ s.c.up = <<>>
       /\ s.c.queue = <<>>
  BY <1>1, <1>5
<1> HIDE DEF s
<1>11. Phased(s)
  BY <1>4, <1>5, <1>10 DEF Phased
<1>12. ASSUME NEW z \in 0..2, NEW i \in Nat
       PROVE  ~At(<<>>, s.p, z, i)
  BY <1>4, <1>5 DEF At
<1>13. Ordered(<<>>, s.p, Good({})) /\ Placed(<<>>, s.p) = {}
  BY <1>12 DEF Ordered, Placed
<1>14. Talks(s, <<>>, input, 0, {})
  BY <1>9, <1>13 DEF Talks
<1>15. FileJobs(s.p) = {}
  BY <1>4, <1>5 DEF FileJobs
<1>16. s.c.up \o s.c.queue = <<>> /\ s.c.up = <<>>
  BY <1>10
<1>17. Uploads(s, 0)
  BY <1>10, <1>15, <1>16 DEF Uploads, Upload
<1> QED BY <1>2, <1>5, <1>7, <1>9, <1>11, <1>14, <1>17 DEF ClientInv, s

\* Every step keeps it.
LEMMA ClientMoves ==
  ASSUME HttpConstants, ClientInv, Cli!Next \/ UNCHANGED <<cl, posted, input, ran, ch>>
  PROVE  ClientInv'
<1>1. ran \in {"script", "loop"}
  BY DEF ClientInv
<1>2. CASE UNCHANGED <<cl, posted, input, ran, ch>>
  BY <1>1, <1>2, NothingCalled
<1>3. CASE Cli!ReturnToLoop
  BY <1>3, NothingCalled DEF Cli!ReturnToLoop
<1>4. CASE Cli!OtherCallback
  BY <1>4, NothingCalled DEF Cli!OtherCallback
<1>5. CASE Cli!ScriptCalls
  BY <1>5, WriteCallKeeps, EndCallKeeps, PauseOrResumeKeeps, AbortKeeps DEF Cli!ScriptCalls
<1>6. CASE Cli!Tasks
  BY <1>6, StartKeeps, RunTaskKeeps, RelayKeeps, HearKeeps DEF Cli!Tasks
<1>7. CASE Cli!UvDone \/ Cli!OnRead
  BY <1>7, OnResolvedKeeps, OnConnectKeeps, OnWriteCompleteKeeps, OnClosedKeeps, OnReadKeeps
     DEF Cli!UvDone
<1> QED BY <1>2, <1>3, <1>4, <1>5, <1>6, <1>7 DEF Cli!Next

\* Two events that were heard.
LEMMA HeardInOrder ==
  ASSUME NEW h \in Seq(Heards), NEW p, NEW P, Ordered(h, p, P),
         NEW i \in DOMAIN h, NEW j \in DOMAIN h, i < j
  PROVE  <<h[i], h[j]>> \in P
<1>1. i \in Nat /\ j \in Nat /\ 0 \in 0..2
  OBVIOUS
<1>2. At(h, p, 0, i) /\ At(h, p, 0, j) /\ Earlier(0, i, 0, j)
  BY DEF At, Earlier
<1>3. Event(h, p, 0, i) = h[i] /\ Event(h, p, 0, j) = h[j]
  BY DEF Event
<1>4. <<Event(h, p, 0, i), Event(h, p, 0, j)>> \in P
  BY <1>1, <1>2 DEF Ordered
<1> QED BY <1>3, <1>4

\* What the listeners heard is in order and whole.
LEMMA WholeHeard ==
  ASSUME HttpConstants, ClientInv
  PROVE  Cli!EventsInOrder
<1> DEFINE s == Cli!State
           h == ch.heard
<1>1. /\ Tidy(s, h, input, 0, ch.slips) /\ AnAnswer(input) /\ h \in Seq(Heards)
  BY ClientHolds
<1>2. Ordered(h, s.p, Good(ch.slips)) /\ Talks(s, h, input, 0, ch.slips)
  BY <1>1 DEF Tidy, Talks
<1>c. Answer \in Nat
  BY DEF HttpConstants, Cli!ClientAssumption
<1> HIDE DEF s
<1>3. DOMAIN h = 1..Len(h) /\ Len(h) \in Nat
  BY <1>1
<1>4. ASSUME NEW i \in DOMAIN h
      PROVE  /\ h[i] \in Cli!Parts /\ h[i].kind # "drain" /\ h[i].n \in Nat /\ h[i] \in Placed(h, s.p)
             /\ h[i].kind = "data" => h[i].n \in 1..Answer
  <2>1. h[i] \in Heards /\ i \in Nat
    BY <1>1
  <2>2. h[i] \in Cli!Parts /\ h[i].kind # "drain"
    BY <2>1 DEF Heards
  <2>3. At(h, s.p, 0, i) /\ h[i] = Event(h, s.p, 0, i)
    BY DEF At, Event
  <2>4. 0 \in 0..2
    OBVIOUS
  <2>5. h[i] \in Placed(h, s.p)
    BY <2>1, <2>2, <2>3, <2>4 DEF Placed
  <2> QED BY <1>2, <2>2, <2>5 DEF Talks, Cli!Parts
<1>5. ASSUME NEW i \in DOMAIN h, NEW j \in DOMAIN h, i < j
      PROVE  /\ Main(h[i]) /\ Main(h[j]) => Rank(h[i]) < Rank(h[j])
             /\ ~(h[i].kind = "close" /\ h[j].kind = "close")
             /\ ~(ch.slips \cap {"inFlight", "late"} = {} /\ h[i].kind = "close")
  <2>1. <<h[i], h[j]>> \in Good(ch.slips)
    BY <1>1, <1>2, <1>5, HeardInOrder
  <2>2. (Main(h[i]) /\ Main(h[j])) => Rank(h[i]) < Rank(h[j])
    BY <2>1 DEF Good
  <2>3. ~(h[i].kind = "close" /\ h[j].kind = "close")
    BY <2>1 DEF Good
  <2>4. ~(ch.slips \cap {"inFlight", "late"} = {} /\ h[i].kind = "close")
    BY <1>4, <2>1 DEF Good
  <2> QED BY <2>2, <2>3, <2>4
<1> HIDE DEF h
<1>6. ASSUME NEW i \in DOMAIN h, NEW j \in DOMAIN h
      PROVE  i <= j \/ j < i
  BY <1>3
<1>7. ASSUME NEW i \in DOMAIN h
      PROVE  /\ h[i].kind = "connect" => Main(h[i]) /\ Rank(h[i]) = 0
             /\ h[i].kind = "response" => Main(h[i]) /\ Rank(h[i]) = 1
             /\ h[i].kind = "data" => Main(h[i]) /\ Rank(h[i]) = h[i].n + 1 /\ h[i].n \in 1..Answer
             /\ h[i].kind = "end" => Main(h[i]) /\ Rank(h[i]) = Answer + 2
  <2>1. CASE h[i].kind = "connect"
    BY <2>1 DEF Main, Rank
  <2>2. CASE h[i].kind = "response"
    BY <2>2 DEF Main, Rank
  <2>3. CASE h[i].kind = "data"
    BY <1>4, <2>3 DEF Main, Rank
  <2>4. CASE h[i].kind = "end"
    BY <2>4 DEF Main, Rank
  <2> QED BY <2>1, <2>2, <2>3, <2>4
<1>8. ASSUME NEW i \in DOMAIN h, NEW j \in DOMAIN h, h[i].kind = "connect",
             h[j].kind \in {"response", "data", "end"}
      PROVE  i <= j
  <2>1. Rank(h[i]) = 0 /\ Rank(h[j]) >= 0 /\ Rank(h[j]) \in Nat /\ Main(h[i]) /\ Main(h[j])
    BY <1>7, <1>8, <1>c
  <2> QED BY <1>5, <1>6, <2>1
<1>9. ASSUME NEW i \in DOMAIN h, NEW j \in DOMAIN h, h[i].kind = "response",
             h[j].kind \in {"data", "end"}
      PROVE  i <= j
  <2>1. Rank(h[i]) = 1 /\ Rank(h[j]) >= 1 /\ Rank(h[j]) \in Nat /\ Main(h[i]) /\ Main(h[j])
    BY <1>7, <1>9, <1>c
  <2> QED BY <1>5, <1>6, <2>1
<1>10. ASSUME NEW i \in DOMAIN h, NEW j \in DOMAIN h, h[i].kind = "data", h[j].kind = "end"
       PROVE  i <= j
  <2>1. Rank(h[i]) <= Answer + 1 /\ Rank(h[j]) = Answer + 2 /\ Rank(h[i]) \in Nat /\ Main(h[i]) /\ Main(h[j])
    BY <1>7, <1>10, <1>c
  <2> QED BY <1>5, <1>6, <1>c, <2>1
<1>11. ASSUME NEW i \in DOMAIN h, NEW j \in DOMAIN h, h[i].kind = h[j].kind, h[i].kind \in {"end", "close"}
       PROVE  i = j
  <2>1. CASE h[i].kind = "end"
    <3>1. Rank(h[i]) = Answer + 2 /\ Rank(h[j]) = Answer + 2 /\ Main(h[i]) /\ Main(h[j])
      BY <1>7, <1>11, <2>1
    <3>2. ~(i < j) /\ ~(j < i)
      BY <1>5, <1>c, <3>1
    <3> QED BY <1>6, <3>2, <1>3
  <2>2. CASE h[i].kind = "close"
    <3>1. ~(i < j) /\ ~(j < i)
      BY <1>5, <1>11, <2>2
    <3> QED BY <1>3, <3>1
  <2> QED BY <1>11, <2>1, <2>2
<1>12. ASSUME NEW i \in DOMAIN h, NEW j \in DOMAIN h, h[i].kind = "data", h[j].kind = "data", i < j
       PROVE  h[i].n < h[j].n
  BY <1>5, <1>7, <1>12
<1>13. ASSUME NEW i \in DOMAIN h, h[i].kind = "data", h[i].n > 1
       PROVE  \E j \in 1..(i - 1) : h[j] = Cli!Part("data", h[i].n - 1)
  <2> DEFINE n == h[i].n - 1
             x == Cli!Part("data", n)
  <2>1. n \in 1..Answer /\ h[i].n = n + 1 /\ Rank(h[i]) = n + 2 /\ Main(h[i]) /\ n \in Nat
    BY <1>7, <1>13, <1>c
  <2>2. x.kind = "data" /\ x.n = n
    BY DEF Cli!Part
  <2> HIDE DEF n, x
  <2>3. Main(x) /\ Rank(x) = n + 1
    BY <2>2 DEF Main, Rank
  <2>4. x \in Placed(h, s.p)
    <3>1. x \in Placed(h, s.p) \/ \E k \in DOMAIN input : k > 0 /\ input[k] = x
      BY <1>2, <2>1 DEF Talks, x, h
    <3>2. ASSUME NEW k \in DOMAIN input, k > 0, input[k] = x
          PROVE  FALSE
      <4>1. Rank(h[i]) < Rank(x)
        BY <1>2, <1>4, <2>1, <2>3, <3>2 DEF Talks, h
      <4> QED BY <2>1, <2>3, <4>1
    <3> QED BY <3>1, <3>2
  <2>5. PICK z \in 0..2, k \in Nat : At(h, s.p, z, k) /\ x = Event(h, s.p, z, k)
    BY <2>4 DEF Placed
  <2>6. At(h, s.p, 0, i) /\ h[i] = Event(h, s.p, 0, i) /\ 0 \in 0..2 /\ i \in Nat
    BY <1>3 DEF At, Event
  <2>7. ~Earlier(0, i, z, k)
    <3>1. SUFFICES ASSUME Earlier(0, i, z, k) PROVE FALSE
      OBVIOUS
    <3>2. <<Event(h, s.p, 0, i), Event(h, s.p, z, k)>> \in Good(ch.slips)
      BY <1>2, <2>5, <2>6, <3>1 DEF Ordered, h
    <3>3. <<h[i], x>> \in Good(ch.slips)
      BY <2>5, <2>6, <3>2
    <3>4. Rank(h[i]) < Rank(x)
      BY <2>1, <2>3, <3>3 DEF Good
    <3> QED BY <2>1, <2>3, <3>4
  <2>8. z = 0 /\ k <= i
    BY <2>5, <2>6, <2>7 DEF Earlier
  <2>9. k \in DOMAIN h /\ h[k] = x
    BY <2>5, <2>8 DEF At, Event
  <2>10. k # i
    BY <2>1, <2>2, <2>9
  <2>11. k \in 1..(i - 1)
    BY <1>3, <2>6, <2>8, <2>9, <2>10
  <2> QED BY <2>9, <2>11 DEF x, n
<1>14. ASSUME ch.slips \cap {"inFlight", "late"} = {}, NEW i \in DOMAIN h, h[i].kind = "close"
       PROVE  i = Len(h)
  <2>1. SUFFICES ASSUME i # Len(h) PROVE FALSE
    OBVIOUS
  <2>2. Len(h) \in DOMAIN h /\ i < Len(h)
    BY <1>3, <2>1
  <2> QED BY <1>5, <1>14, <2>2
<1>15. /\ Cli!Ahead("connect", {"response", "data", "end"}) /\ Cli!Ahead("response", {"data", "end"})
       /\ Cli!Ahead("data", {"end"})
  BY <1>8, <1>9, <1>10 DEF Cli!Ahead, h
<1>16. Cli!Once("end") /\ Cli!Once("close")
  BY <1>11 DEF Cli!Once, h
<1> QED BY <1>12, <1>13, <1>14, <1>15, <1>16 DEF Cli!EventsInOrder, h

\* The client's part of the property.
LEMMA WholeAsked ==
  ASSUME HttpConstants, ClientInv
  PROVE  Cli!AsksWhole /\ Cli!TypeOK
<1>1. /\ Cli!State \in Pairs /\ Cli!State.c = cl /\ Cli!State.p = posted
      /\ ch \in Stories /\ ran \in {"script", "loop"}
      /\ "misplaced" \notin ch.slips => Uploads(Cli!State, ch.given)
  BY ClientHolds
<1>2. cl \in Conns /\ posted \in Seq(Cli!Jobs)
  BY <1>1 DEF Pairs
<1>3. Cli!UploadInOrder
  BY <1>1 DEF Cli!UploadInOrder, Uploads, Upload
<1>4. ch.heard \in Seq(Cli!Parts) /\ ch.calls \in 0..ClientCalls
  <2>1. ch.heard \in Seq(Heards) /\ ch.calls \in 0..ClientCalls
    BY <1>1 DEF Stories
  <2>2. Heards \subseteq Cli!Parts
    BY DEF Heards
  <2> QED BY <2>1, <2>2
<1>5. Cli!TypeOK
  BY <1>1, <1>2, <1>4 DEF Cli!TypeOK, Conns
<1> QED BY <1>3, <1>5, WholeHeard DEF Cli!AsksWhole

\* The constants, as MCLibrary assumes them.
LEMMA HttpConstantsAre == HttpConstants
BY HttpAssumption DEF HttpConstants

-----------------------------------------------------------------------------
\* The two together, as the program that MCLibrary describes.
HttpInv == ServerInv /\ ClientInv

LEMMA HttpStarts == MCInit => HttpInv
<1> SUFFICES ASSUME MCInit
             PROVE  HttpInv
  OBVIOUS
<1>1. HttpConstants /\ Srv!Init /\ Cli!Init
  BY HttpConstantsAre DEF MCInit
<1> QED BY <1>1, ServerStarts, ClientStarts DEF HttpInv

LEMMA HttpMoves == HttpInv /\ [MCNext]_allvars => HttpInv'
<1> SUFFICES ASSUME HttpInv, [MCNext]_allvars
             PROVE  HttpInv'
  OBVIOUS
<1>1. HttpConstants /\ ServerInv /\ ClientInv
  BY HttpConstantsAre DEF HttpInv
<1>2. Srv!Next \/ UNCHANGED srvvars
  BY DEF MCNext, allvars, InLoader, InEvents, InSrv, InCli, srvvars
<1>3. Cli!Next \/ UNCHANGED <<cl, posted, input, ran, ch>>
  BY DEF MCNext, allvars, InLoader, InEvents, InSrv, InCli, clivars
<1> QED BY <1>1, <1>2, <1>3, ServerMoves, ClientMoves DEF HttpInv

\* What an HTTP server hands to the connection and to its listeners, and what a
\* client sends and lets its listeners hear, is whole and in the order it was
\* given, for any bounds and whatever the peer, uv and the script do: the head, the
\* chunks, the last frame; the pieces of a body and its end; the answer between the
\* connect and the close.
THEOREM HttpTrafficIsWhole == MCSpec => []HttpIsWhole
<1>1. HttpInv => HttpIsWhole
  <2> SUFFICES ASSUME HttpInv
               PROVE  HttpIsWhole
    OBVIOUS
  <2>1. HttpConstants /\ ServerInv /\ ClientInv
    BY HttpConstantsAre DEF HttpInv
  <2> QED BY <2>1, WholeServed, WholeAsked DEF HttpIsWhole
<1> QED BY <1>1, HttpStarts, HttpMoves, PTL DEF MCSpec
=============================================================================
