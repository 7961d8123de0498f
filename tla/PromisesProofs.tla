---------------------------- MODULE PromisesProofs ----------------------------
(***************************************************************************)
(* Promises keep their contract and judge rejections, for any promises and *)
(* bounds, whatever the callbacks do. The promises of naps are left out    *)
(* (Naps = {}): their reactions are macrotasks, and one that is attached   *)
(* after the timer overtakes them.                                         *)
(***************************************************************************)
EXTENDS Promises, TLAPS

\* Reaction r of p has not begun yet: it waits with the pending promise, in a
\* delivery that is queued, or in the one that runs.
Holds(rs, r) == \E i \in DOMAIN rs : rs[i] = r
Waits(p, r) == state[p] = "pending" /\ Holds(reactions[p], r)
Queued(tasks, p, r) == \E k \in DOMAIN tasks : tasks[k].on = p /\ Holds(tasks[k].left, r)
Owes(p, r) == Waits(p, r) \/ Queued(micro, p, r) \/ (run.on = p /\ Holds(run.left, r))

\* Those whose callback has returned a promise.
Adopters == {n \in Promises : \E q \in Promises : <<q, n>> \in joined}

\* What is rejected is passed on by y no further: it has a handler, or no need.
Done(y) == state[y] = "fulfilled" \/ y \in consumed

\* Those that may bear the mark of a handler.
Excused(y) == state[y] = "fulfilled" \/ y \in Adopters \/ HandledDownstream(y)

Ways == {"then", "both", "catch", "finally"}

\* What a reaction of p leads to: a promise that it alone will settle.
Linked(p, r) ==
  /\ r.kind \in Kinds /\ state[p] # "unused"
  /\ r.kind = "await" => r.next = None
  /\ r.kind # "await" =>
       r.next \in Promises \ own /\ state[r.next] = "pending" /\ <<p, r.next>> \in flows
  /\ r.kind = "adopt" => r.next \in Adopters
  /\ r.kind \in Ways =>
       r.next \notin Adopters /\ (parent[r.next] = p \/ <<r.next, parent[r.next]>> \in joined)
  /\ r.kind \in {"both", "catch"} => p \in consumed

\* What is owed is numbered from the last reaction that ran to the last attached.
OwedInv ==
  /\ \A p \in Promises : ran[p] <= attached[p]
  /\ \A p \in Promises, r \in Reactions :
       Owes(p, r) => Linked(p, r) /\ ran[p] < r.nth /\ r.nth <= attached[p]
  /\ \A p, q \in Promises, r, s \in Reactions :
       Owes(p, r) /\ Owes(q, s) /\ r.next = s.next /\ r.next # None => p = q /\ r = s
  /\ \A p \in Promises, m \in 1..MaxAttached :
       ran[p] < m /\ m <= attached[p] => \E r \in Reactions : Owes(p, r) /\ r.nth = m

\* One delivery is served before the next, each from its front.
Rises(rs) == \A i, j \in DOMAIN rs : i < j => rs[i].nth < rs[j].nth
Precedes(rs, qs) == \A i \in DOMAIN rs, j \in DOMAIN qs : rs[i].nth < qs[j].nth
Ordered(tasks, first) ==
  /\ Rises(first.left)
  /\ \A k \in DOMAIN tasks : Rises(tasks[k].left)
  /\ \A k \in DOMAIN tasks : tasks[k].on = first.on => Precedes(first.left, tasks[k].left)
  /\ \A k, l \in DOMAIN tasks :
       k < l /\ tasks[k].on = tasks[l].on => Precedes(tasks[k].left, tasks[l].left)
OrderInv == Ordered(micro, run)

\* Tasks are of settled promises; checks are of rejected ones.
Sound(t) ==
  /\ t.on \in Promises /\ Settled(t.on)
  /\ t.do = "deliver" => state[t.on] = t.outcome
  /\ t.do # "deliver" => t.left = <<>>
  /\ t.check \/ t.do = "check" => t.on \in own /\ state[t.on] = "rejected"
TaskInv == macro = <<>> /\ \A k \in DOMAIN micro : Sound(micro[k])

\* The delivery that runs, and the callback in it.
RunInv ==
  /\ pc = "loop" \/ (pc = "code" /\ cur = NoReaction) => run = NoRun
  /\ pc # "code" => cur = NoReaction
  /\ pc = "run" \/ cur # NoReaction => run.on \in Promises
  /\ run.on \in Promises =>
       state[run.on] = run.outcome /\ (run.check => run.on \in own /\ run.outcome = "rejected")
  /\ cur # NoReaction =>
       /\ cur \in Reactions /\ cur.kind \in Ways /\ Linked(run.on, cur)
       /\ ~PassesOn(cur.kind, run.outcome)
       /\ \A p \in Promises, r \in Reactions : Owes(p, r) => r.next # cur.next

\* Promises before they settle, and before they exist.
FreshInv ==
  \A p \in Promises :
    /\ state[p] \in {"unused", "pending"} => ran[p] = 0
    /\ state[p] = "pending" =>
         /\ Len(reactions[p]) = attached[p]
         /\ \A i \in DOMAIN reactions[p] : reactions[p][i].nth = i
    /\ state[p] = "unused" =>
         /\ reactions[p] = <<>> /\ attached[p] = 0 /\ parent[p] = None
         /\ p \notin handled \cup consumed \cup own \cup Adopters
         /\ \A q \in Promises : <<p, q>> \notin flows /\ <<q, p>> \notin flows /\ parent[q] # p

\* The link up from x leads to a promise whose rejection is passed on to x, and
\* to x alone for as long as x may hear of it; or x was returned to whom it leads.
LinkInv ==
  /\ own \cap Adopters = {}
  /\ \A x \in Promises :
       parent[x] # None =>
         \/ <<x, parent[x]>> \in joined
         \/ /\ x \notin own /\ <<parent[x], x>> \in flows
            /\ Done(parent[x]) \/ (x \notin Adopters /\ state[x] # "fulfilled")

HandledInv == \A p \in handled : Excused(p)

\* A rejection that is not judged yet is going to be.
Judged(p) == p \in reported \/ HandledDownstream(p)
IsCheck(t, p) == t.do = "check" /\ t.on = p
IsRejection(t, p) == t.do = "deliver" /\ t.check /\ t.on = p
Checking(p) == \E k \in DOMAIN micro : IsCheck(micro[k], p)
Rejecting(p) == (\E k \in DOMAIN micro : IsRejection(micro[k], p)) \/ IsRejection(run, p)
JudgeInv ==
  /\ checked \subseteq own
  /\ \A p \in own :
       /\ p \in checked => Judged(p) \/ Checking(p)
       /\ state[p] = "rejected" => Judged(p) \/ Checking(p) \/ Rejecting(p)

\* As long as no callback returns a promise, marks go all the way up.
MarkInv ==
  /\ \A c \in consumed : c \in handled \/ state[c] = "fulfilled"
  /\ joined = {} => /\ \A x \in handled : parent[x] \in handled \cup {None}
                    /\ \A f \in flows : parent[f[2]] = f[1]

IInv ==
  /\ PromisesTypeOK /\ OwedInv /\ OrderInv /\ TaskInv /\ RunInv /\ FreshInv
  /\ LinkInv /\ HandledInv /\ JudgeInv /\ MarkInv

-------------------------------------------------------------------------------
\* Sequences.
LEMMA Taken ==
  ASSUME NEW S, NEW q \in Seq(S), q # <<>>
  PROVE  /\ Head(q) = q[1] /\ 1 \in DOMAIN q /\ q[1] \in S /\ Tail(q) \in Seq(S)
         /\ \A i \in DOMAIN Tail(q) : i \in Nat \ {0} /\ i + 1 \in DOMAIN q /\ Tail(q)[i] = q[i + 1]
         /\ \A i \in DOMAIN q : i \in Nat /\ (i # 1 => i - 1 \in DOMAIN Tail(q) /\ Tail(q)[i - 1] = q[i])
  OBVIOUS

LEMMA Appended ==
  ASSUME NEW S, NEW q \in Seq(S), NEW x \in S
  PROVE  /\ Append(q, x) \in Seq(S)
         /\ \A i \in DOMAIN q : i \in Nat /\ i < Len(q) + 1 /\ i \in DOMAIN Append(q, x)
                                /\ Append(q, x)[i] = q[i]
         /\ Len(q) + 1 \in DOMAIN Append(q, x) /\ Append(q, x)[Len(q) + 1] = x
         /\ \A i \in DOMAIN Append(q, x) : i \in DOMAIN q \/ i = Len(q) + 1
         /\ Len(q) + 1 \in Nat
<1>1. Len(q) \in Nat /\ DOMAIN q = 1..Len(q)
  OBVIOUS
<1> QED BY <1>1

LEMMA HoldsMore ==
  ASSUME NEW S, NEW q \in Seq(S), NEW x \in S, NEW r
  PROVE  Holds(Append(q, x), r) <=> Holds(q, r) \/ r = x
BY Appended DEF Holds

LEMMA HoldsNothing == ASSUME NEW r PROVE ~Holds(<<>>, r)
BY DEF Holds

\* What a queue of tasks holds after an append, and after its head is taken.
LEMMA QueuedMore ==
  ASSUME NEW S, NEW q \in Seq(S), NEW t \in S, NEW p, NEW r
  PROVE  Queued(Append(q, t), p, r) <=> Queued(q, p, r) \/ (t.on = p /\ Holds(t.left, r))
BY Appended DEF Queued

LEMMA QueuedLess ==
  ASSUME NEW S, NEW q \in Seq(S), q # <<>>, NEW p, NEW r
  PROVE  Queued(q, p, r) <=> Queued(Tail(q), p, r) \/ (Head(q).on = p /\ Holds(Head(q).left, r))
<1>1. ASSUME Queued(q, p, r)
      PROVE  Queued(Tail(q), p, r) \/ (Head(q).on = p /\ Holds(Head(q).left, r))
  <2>1. PICK k \in DOMAIN q : q[k].on = p /\ Holds(q[k].left, r)
    BY <1>1 DEF Queued
  <2>2. k = 1 \/ (k - 1 \in DOMAIN Tail(q) /\ Tail(q)[k - 1] = q[k])
    BY Taken
  <2>3. Head(q) = q[1]
    BY Taken
  <2> QED BY <2>1, <2>2, <2>3 DEF Queued
<1>2. ASSUME Queued(Tail(q), p, r) PROVE Queued(q, p, r)
  <2>1. PICK k \in DOMAIN Tail(q) : Tail(q)[k].on = p /\ Holds(Tail(q)[k].left, r)
    BY <1>2 DEF Queued
  <2>2. k + 1 \in DOMAIN q /\ Tail(q)[k] = q[k + 1]
    BY Taken
  <2> QED BY <2>1, <2>2 DEF Queued
<1>3. ASSUME Head(q).on = p, Holds(Head(q).left, r) PROVE Queued(q, p, r)
  BY <1>3, Taken DEF Queued
<1> QED BY <1>1, <1>2, <1>3

LEMMA HoldsLess ==
  ASSUME NEW S, NEW q \in Seq(S), q # <<>>, NEW r
  PROVE  Holds(q, r) <=> Holds(Tail(q), r) \/ r = Head(q)
<1>1. ASSUME Holds(q, r) PROVE Holds(Tail(q), r) \/ r = Head(q)
  <2>1. PICK k \in DOMAIN q : q[k] = r
    BY <1>1 DEF Holds
  <2>2. k = 1 \/ (k - 1 \in DOMAIN Tail(q) /\ Tail(q)[k - 1] = q[k])
    BY Taken
  <2>3. Head(q) = q[1]
    BY Taken
  <2> QED BY <2>1, <2>2, <2>3 DEF Holds
<1>2. ASSUME Holds(Tail(q), r) PROVE Holds(q, r)
  <2>1. PICK k \in DOMAIN Tail(q) : Tail(q)[k] = r
    BY <1>2 DEF Holds
  <2>2. k + 1 \in DOMAIN q /\ Tail(q)[k] = q[k + 1]
    BY Taken
  <2> QED BY <2>1, <2>2 DEF Holds
<1>3. ASSUME r = Head(q) PROVE Holds(q, r)
  BY <1>3, Taken DEF Holds
<1> QED BY <1>1, <1>2, <1>3

-------------------------------------------------------------------------------
\* The order of the deliveries after each change of the queue.
LEMMA OrderAppended ==
  ASSUME NEW q \in Seq(QueuedTasks), NEW f, Ordered(q, f), NEW t \in QueuedTasks,
         Rises(t.left), t.on = f.on => Precedes(f.left, t.left),
         \A k \in DOMAIN q : q[k].on = t.on => Precedes(q[k].left, t.left)
  PROVE  Ordered(Append(q, t), f)
<1> DEFINE a == Append(q, t)
<1>1. /\ \A i \in DOMAIN q : i \in Nat /\ i < Len(q) + 1 /\ a[i] = q[i]
      /\ a[Len(q) + 1] = t
      /\ \A i \in DOMAIN a : i \in DOMAIN q \/ i = Len(q) + 1
      /\ Len(q) + 1 \in Nat
  BY Appended
<1> HIDE DEF a
<1>2. \A k, l \in DOMAIN a : k < l /\ a[k].on = a[l].on => Precedes(a[k].left, a[l].left)
  <2> SUFFICES ASSUME NEW k \in DOMAIN a, NEW l \in DOMAIN a, k < l, a[k].on = a[l].on
               PROVE  Precedes(a[k].left, a[l].left)
    OBVIOUS
  <2>1. k \in DOMAIN q /\ a[k] = q[k]
    BY <1>1
  <2>2. CASE l \in DOMAIN q
    BY <1>1, <2>1, <2>2 DEF Ordered
  <2>3. CASE l = Len(q) + 1
    BY <1>1, <2>1, <2>3
  <2> QED BY <1>1, <2>2, <2>3
<1>3. \A k \in DOMAIN a : Rises(a[k].left) /\ (a[k].on = f.on => Precedes(f.left, a[k].left))
  BY <1>1 DEF Ordered
<1> QED BY <1>2, <1>3 DEF Ordered, a

LEMMA OrderDropped ==
  ASSUME NEW q \in Seq(QueuedTasks), NEW f, Ordered(q, f), q # <<>>
  PROVE  Ordered(Tail(q), f)
<1>1. \A k \in DOMAIN Tail(q) : k \in Nat /\ k + 1 \in DOMAIN q /\ Tail(q)[k] = q[k + 1]
  BY Taken
<1>2. \A k, l \in DOMAIN Tail(q) : k < l /\ Tail(q)[k].on = Tail(q)[l].on =>
         Precedes(Tail(q)[k].left, Tail(q)[l].left)
  <2> SUFFICES ASSUME NEW k \in DOMAIN Tail(q), NEW l \in DOMAIN Tail(q), k < l,
                      Tail(q)[k].on = Tail(q)[l].on
               PROVE  Precedes(Tail(q)[k].left, Tail(q)[l].left)
    OBVIOUS
  <2>1. k + 1 < l + 1
    BY <1>1
  <2> QED BY <1>1, <2>1 DEF Ordered
<1> QED BY <1>1, <1>2 DEF Ordered

LEMMA OrderStarted ==
  ASSUME NEW q \in Seq(QueuedTasks), NEW f, Ordered(q, f), q # <<>>
  PROVE  Ordered(Tail(q), Head(q))
<1>1. Ordered(Tail(q), f)
  BY OrderDropped
<1>2. /\ Head(q) = q[1] /\ 1 \in DOMAIN q
      /\ \A k \in DOMAIN Tail(q) : k \in Nat \ {0} /\ k + 1 \in DOMAIN q /\ Tail(q)[k] = q[k + 1]
  BY Taken
<1>3. \A k \in DOMAIN Tail(q) : Tail(q)[k].on = Head(q).on => Precedes(Head(q).left, Tail(q)[k].left)
  <2> TAKE k \in DOMAIN Tail(q)
  <2>1. 1 < k + 1
    BY <1>2
  <2> QED BY <1>2, <2>1 DEF Ordered
<1>4. Rises(Head(q).left)
  BY <1>2 DEF Ordered
<1> QED BY <1>1, <1>3, <1>4 DEF Ordered

\* The reaction in front has the lowest number of all.
LEMMA OrderTaken ==
  ASSUME NEW q \in Seq(QueuedTasks), NEW f \in QueuedTasks, Ordered(q, f), f.left # <<>>,
         NEW g, g.on = f.on, g.left = Tail(f.left)
  PROVE  /\ Ordered(q, g)
         /\ \A r : Holds(Tail(f.left), r) \/ Queued(q, f.on, r) => Head(f.left).nth < r.nth
<1> DEFINE rs == f.left
<1>1. /\ rs \in Seq(Reactions) /\ Head(rs) = rs[1] /\ 1 \in DOMAIN rs
      /\ \A i \in DOMAIN Tail(rs) : i \in Nat \ {0} /\ i + 1 \in DOMAIN rs /\ Tail(rs)[i] = rs[i + 1]
  <2>1. rs \in Seq(Reactions)
    BY DEF QueuedTasks
  <2> QED BY <2>1, Taken
<1>2. Rises(g.left)
  <2> SUFFICES ASSUME NEW i \in DOMAIN Tail(rs), NEW j \in DOMAIN Tail(rs), i < j
               PROVE  Tail(rs)[i].nth < Tail(rs)[j].nth
    BY DEF Rises
  <2>1. i + 1 < j + 1
    BY <1>1
  <2> QED BY <1>1, <2>1 DEF Ordered, Rises
<1>3. \A k \in DOMAIN q : q[k].on = f.on =>
        Precedes(g.left, q[k].left) /\ \A j \in DOMAIN q[k].left : Head(rs).nth < q[k].left[j].nth
  BY <1>1 DEF Ordered, Precedes
<1>4. \A i \in DOMAIN Tail(rs) : Head(rs).nth < Tail(rs)[i].nth
  <2> TAKE i \in DOMAIN Tail(rs)
  <2>1. 1 < i + 1
    BY <1>1
  <2> QED BY <1>1, <2>1 DEF Ordered, Rises
<1>5. Ordered(q, g)
  BY <1>2, <1>3 DEF Ordered
<1> QED BY <1>3, <1>4, <1>5 DEF Holds, Queued

LEMMA OrderEnded ==
  ASSUME NEW q \in Seq(QueuedTasks), NEW f, Ordered(q, f)
  PROVE  Ordered(q, NoRun)
BY DEF Ordered, NoRun, Deliver, Task, Rises, Precedes

-------------------------------------------------------------------------------
\* What queues hold is typed.
LEMMA HeldTyped ==
  ASSUME PromisesTypeOK, NEW p \in Promises, NEW r, Owes(p, r)
  PROVE  r \in Reactions
<1>1. CASE Waits(p, r)
  BY <1>1 DEF Waits, Holds, PromisesTypeOK
<1>2. CASE Queued(micro, p, r)
  <2>1. PICK k \in DOMAIN micro : Holds(micro[k].left, r)
    BY <1>2 DEF Queued
  <2>2. micro[k] \in QueuedTasks
    BY DEF PromisesTypeOK
  <2>3. micro[k].left \in Seq(Reactions)
    BY <2>2 DEF QueuedTasks
  <2> QED BY <2>1, <2>3 DEF Holds
<1>3. CASE Holds(run.left, r)
  <2>1. run.left \in Seq(Reactions)
    BY DEF PromisesTypeOK, QueuedTasks
  <2> QED BY <1>3, <2>1 DEF Holds
<1> QED BY <1>1, <1>2, <1>3 DEF Owes

-------------------------------------------------------------------------------
\* What no step takes back.
Grows ==
  /\ \A x \in Promises :
       \/ state'[x] = state[x]
       \/ state[x] = "unused" /\ state'[x] = "pending"
       \/ state[x] = "pending" /\ state'[x] \in Outcomes
  /\ flows \subseteq flows' /\ consumed \subseteq consumed' /\ joined \subseteq joined'

\* Downstream is closed, and the smallest set that is.
LEMMA DownIsLeast ==
  ASSUME NEW p \in Promises
  PROVE  /\ p \in Downstream(p)
         /\ \A S \in SUBSET Promises : p \in S /\ Follows(S) => Downstream(p) \subseteq S
BY DEF Downstream

LEMMA DownFollows ==
  ASSUME PromisesTypeOK, NEW p \in Promises
  PROVE  Follows(Downstream(p))
<1> SUFFICES ASSUME NEW f \in flows, f[1] \in Downstream(p)
             PROVE  f[2] \in Downstream(p)
  BY DEF Follows
<1>1. f[2] \in Promises
  BY DEF PromisesTypeOK
<1>2. \A S \in SUBSET Promises : p \in S /\ Follows(S) => f[2] \in S
  BY DownIsLeast DEF Follows
<1> QED BY <1>1, <1>2 DEF Downstream

LEMMA ConsumedReaches ==
  ASSUME NEW p \in Promises, p \in consumed
  PROVE  HandledDownstream(p)
BY DownIsLeast DEF HandledDownstream

\* Whoever passes on to one that reaches a handler reaches it too.
LEMMA PassesReach ==
  ASSUME PromisesTypeOK, NEW p \in Promises, NEW n \in Promises, <<p, n>> \in flows,
         HandledDownstream(n)
  PROVE  HandledDownstream(p)
<1>1. Follows(Downstream(p)) /\ p \in Downstream(p) /\ Downstream(p) \in SUBSET Promises
  BY DownFollows, DownIsLeast DEF Downstream
<1>2. n \in Downstream(p)
  BY <1>1 DEF Follows
<1>3. Downstream(n) \subseteq Downstream(p)
  BY <1>1, <1>2, DownIsLeast
<1> QED BY <1>3 DEF HandledDownstream

LEMMA ReachesMore ==
  ASSUME Grows, NEW p \in Promises, HandledDownstream(p)
  PROVE  HandledDownstream(p)'
<1>1. \A S \in SUBSET Promises : Follows(S)' => Follows(S)
  BY DEF Follows, Grows
<1>2. Downstream(p) \subseteq Downstream(p)'
  BY <1>1 DEF Downstream
<1> QED BY <1>2 DEF HandledDownstream, Grows

LEMMA AdoptersMore == Grows => Adopters \subseteq Adopters'
BY DEF Grows, Adopters

LEMMA DoneMore ==
  ASSUME Grows, NEW y \in Promises, Done(y)
  PROVE  Done(y)'
BY DEF Grows, Done

LEMMA ExcusedMore ==
  ASSUME Grows, NEW y \in Promises, Excused(y)
  PROVE  Excused(y)'
<1>1. CASE state[y] = "fulfilled"
  BY <1>1 DEF Grows, Excused
<1>2. CASE y \in Adopters
  BY <1>2, AdoptersMore DEF Excused
<1>3. CASE HandledDownstream(y)
  BY <1>3, ReachesMore DEF Excused
<1> QED BY <1>1, <1>2, <1>3 DEF Excused

\* A reaction keeps leading where it led while nobody else settles its promise.
LEMMA LinkedStays ==
  ASSUME Grows, NEW p \in Promises, NEW r, Linked(p, r),
         r.next \in Promises =>
           /\ state'[r.next] = "pending" /\ r.next \notin own'
           /\ r.next \in Adopters' => r.next \in Adopters
           /\ parent'[r.next] = parent[r.next] \/ <<r.next, parent'[r.next]>> \in joined'
  PROVE  Linked(p, r)'
<1>1. state'[p] # "unused"
  BY DEF Linked, Grows, Outcomes
<1>2. CASE r.kind = "await"
  BY <1>1, <1>2 DEF Linked, Ways
<1>3. CASE r.kind # "await"
  <2>1. r.next \in Promises \ own' /\ state'[r.next] = "pending" /\ <<p, r.next>> \in flows'
    BY <1>3 DEF Linked, Grows
  <2>2. r.kind = "adopt" => r.next \in Adopters'
    BY AdoptersMore DEF Linked
  <2>3. r.kind \in Ways =>
          /\ r.next \notin Adopters'
          /\ parent'[r.next] = p \/ <<r.next, parent'[r.next]>> \in joined'
    BY <2>1 DEF Linked, Grows
  <2>4. r.kind \in {"both", "catch"} => p \in consumed'
    BY DEF Linked, Grows
  <2>5. r.kind \in Kinds
    BY DEF Linked
  <2> QED BY <1>1, <1>3, <2>1, <2>2, <2>3, <2>4, <2>5 DEF Linked
<1> QED BY <1>2, <1>3

\* The links up stay good: a promise that a step fulfils or makes an adopter has
\* behind it one that is done.
LEMMA LinksStay ==
  ASSUME PromisesTypeOK, Grows, LinkInv, own' \cap Adopters' = {},
         \A x \in Promises :
           \/ parent'[x] = None \/ <<x, parent'[x]>> \in joined'
           \/ /\ parent'[x] = parent[x] /\ (x \in own' => x \in own)
              /\ x \in Adopters' \/ state'[x] = "fulfilled" =>
                   x \in Adopters \/ state[x] = "fulfilled" \/ Done(parent[x])
           \/ /\ x \notin own' \cup Adopters' /\ state'[x] # "fulfilled"
              /\ <<parent'[x], x>> \in flows'
  PROVE  LinkInv'
<1> SUFFICES ASSUME NEW x \in Promises, parent'[x] # None
             PROVE  \/ <<x, parent'[x]>> \in joined'
                    \/ /\ x \notin own' /\ <<parent'[x], x>> \in flows'
                       /\ Done(parent[x])' \/ (x \notin Adopters' /\ state'[x] # "fulfilled")
  BY DEF LinkInv
<1>1. CASE /\ parent'[x] = parent[x] /\ (x \in own' => x \in own)
           /\ x \in Adopters' \/ state'[x] = "fulfilled" =>
                x \in Adopters \/ state[x] = "fulfilled" \/ Done(parent[x])
  <2>1. \/ <<x, parent[x]>> \in joined
        \/ /\ x \notin own /\ <<parent[x], x>> \in flows
           /\ Done(parent[x]) \/ (x \notin Adopters /\ state[x] # "fulfilled")
    BY <1>1 DEF LinkInv
  <2>2. CASE <<x, parent[x]>> \in joined
    BY <1>1, <2>2 DEF Grows
  <2>3. CASE /\ x \notin own /\ <<parent[x], x>> \in flows
             /\ Done(parent[x]) \/ (x \notin Adopters /\ state[x] # "fulfilled")
    <3>1. x \notin own' /\ <<parent'[x], x>> \in flows'
      BY <1>1, <2>3 DEF Grows
    <3>2. Done(parent[x]) \/ (x \notin Adopters' /\ state'[x] # "fulfilled")
      BY <1>1, <2>3
    <3>3. parent[x] \in Promises
      BY <2>3 DEF PromisesTypeOK
    <3>4. Done(parent[x]) => state'[parent[x]] = "fulfilled" \/ parent[x] \in consumed'
      BY <3>3 DEF Done, Grows
    <3> QED BY <1>1, <3>1, <3>2, <3>4 DEF Done
  <2> QED BY <2>1, <2>2, <2>3
<1> QED BY <1>1

\* The smallest set that Marked is: it has what was marked, and p.
LEMMA MarkedIsLeast ==
  ASSUME PromisesTypeOK, NEW p \in Promises
  PROVE  /\ handled \subseteq Marked(p) /\ p \in Marked(p) /\ Marked(p) \subseteq Promises
         /\ \A S \in SUBSET Promises : handled \cup {p} \subseteq S /\ GoesUp(S) => Marked(p) \subseteq S
         /\ GoesUp(Marked(p))
<1>1. handled \subseteq Marked(p) /\ p \in Marked(p) /\ Marked(p) \subseteq Promises
  BY DEF Marked, PromisesTypeOK
<1>2. \A S \in SUBSET Promises : handled \cup {p} \subseteq S /\ GoesUp(S) => Marked(p) \subseteq S
  BY DEF Marked
<1>3. ASSUME NEW q \in Marked(p) \ handled, parent[q] # None
      PROVE  parent[q] \in Marked(p)
  <2>1. parent[q] \in Promises
    BY <1>1, <1>3 DEF PromisesTypeOK
  <2>2. \A S \in SUBSET Promises : handled \cup {p} \subseteq S /\ GoesUp(S) => parent[q] \in S
    BY <1>2, <1>3 DEF GoesUp
  <2> QED BY <2>1, <2>2 DEF Marked
<1> QED BY <1>1, <1>2, <1>3 DEF GoesUp

-------------------------------------------------------------------------------
\* What is owed after a step.
Later(p, r) == Waits(p, r) \/ Queued(micro, p, r)

\* The promise that a reaction leads to is left alone.
Untouched(n) ==
  /\ state'[n] = "pending" /\ n \notin own'
  /\ n \in Adopters' => n \in Adopters
  /\ parent'[n] = parent[n] \/ <<n, parent'[n]>> \in joined'

LEMMA OwedTypes ==
  ASSUME PromisesTypeOK
  PROVE  /\ \A p \in Promises : ran[p] \in Nat /\ attached[p] \in Nat
         /\ \A r \in Reactions : r.nth \in Nat /\ r.next \in Promises \cup {None}
BY PromisesAssumption DEF PromisesTypeOK, Reactions

LEMMA OwedKept ==
  ASSUME PromisesTypeOK, OwedInv, Grows, ran' = ran, attached' = attached,
         \A p \in Promises, r \in Reactions : Owes(p, r)' <=> Owes(p, r),
         \A p \in Promises, r \in Reactions :
           Owes(p, r) /\ r.next \in Promises => Untouched(r.next)
  PROVE  OwedInv'
<1>1. ASSUME NEW p \in Promises, NEW r \in Reactions, Owes(p, r)
      PROVE  Linked(p, r)'
  <2>1. Linked(p, r) /\ (r.next \in Promises => Untouched(r.next))
    BY <1>1 DEF OwedInv
  <2> QED BY <2>1, LinkedStays DEF Untouched
<1> QED BY <1>1 DEF OwedInv

LEMMA OwedAdded ==
  ASSUME PromisesTypeOK, OwedInv, Grows, ran' = ran, NEW p \in Promises,
         NEW x \in Reactions, x.nth = attached[p] + 1,
         attached' = [attached EXCEPT ![p] = @ + 1], Linked(p, x)',
         x.next # None =>
           \A q \in Promises, r \in Reactions : Owes(q, r) => r.next # x.next,
         \A q \in Promises, r \in Reactions : Owes(q, r)' <=> Owes(q, r) \/ (q = p /\ r = x),
         \A q \in Promises, r \in Reactions :
           Owes(q, r) /\ r.next \in Promises => Untouched(r.next)
  PROVE  OwedInv'
<1>1. /\ \A q \in Promises : ran[q] \in Nat /\ attached[q] \in Nat
      /\ \A r \in Reactions : r.nth \in Nat /\ r.next \in Promises \cup {None}
  BY OwedTypes
<1>2. /\ \A q \in Promises : attached'[q] = IF q = p THEN attached[q] + 1 ELSE attached[q]
      /\ \A q \in Promises : attached[q] <= attached'[q]
  BY <1>1 DEF PromisesTypeOK
<1>3. ASSUME NEW q \in Promises, NEW r \in Reactions, Owes(q, r)'
      PROVE  Linked(q, r)' /\ ran'[q] < r.nth /\ r.nth <= attached'[q]
  <2>1. CASE Owes(q, r)
    <3>1. Linked(q, r) /\ ran[q] < r.nth /\ r.nth <= attached[q]
      BY <2>1 DEF OwedInv
    <3>2. r.next \in Promises => Untouched(r.next)
      BY <2>1
    <3>3. Linked(q, r)'
      BY <3>1, <3>2, LinkedStays DEF Untouched
    <3> QED BY <1>1, <1>2, <3>1, <3>3
  <2>2. CASE q = p /\ r = x
    BY <1>1, <1>2, <2>2 DEF OwedInv
  <2> QED BY <1>3, <2>1, <2>2
<1>4. ASSUME NEW q \in Promises, NEW s \in Promises, NEW r \in Reactions, NEW t \in Reactions,
             Owes(q, r)', Owes(s, t)', r.next = t.next, r.next # None
      PROVE  q = s /\ r = t
  BY <1>4 DEF OwedInv
<1>5. ASSUME NEW q \in Promises, NEW m \in 1..MaxAttached, ran[q] < m, m <= attached'[q]
      PROVE  \E r \in Reactions : Owes(q, r)' /\ r.nth = m
  <2>1. CASE m <= attached[q]
    BY <1>5, <2>1 DEF OwedInv
  <2>2. CASE q = p /\ m = attached[p] + 1
    BY <2>2
  <2> QED BY <1>1, <1>2, <1>5, <2>1, <2>2
<1>6. \A q \in Promises : ran[q] <= attached'[q]
  BY <1>1, <1>2 DEF OwedInv
<1> QED BY <1>3, <1>4, <1>5, <1>6 DEF OwedInv

\* The reaction in front of the delivery is the next of its promise.
LEMMA IsNext ==
  ASSUME PromisesTypeOK, OwedInv, OrderInv, run.on \in Promises, run.left # <<>>,
         state[run.on] # "pending"
  PROVE  /\ Foremost \in Reactions /\ Owes(run.on, Foremost)
         /\ Foremost.nth = ran[run.on] + 1
         /\ \A r \in Reactions :
              Owes(run.on, r) => r = Foremost \/ Foremost.nth < r.nth
<1>1. run.left \in Seq(Reactions) /\ micro \in Seq(QueuedTasks) /\ run \in QueuedTasks
  BY DEF PromisesTypeOK, QueuedTasks
<1>2. Foremost \in Reactions /\ Holds(run.left, Foremost)
  BY <1>1, Taken, HoldsLess DEF Foremost
<1>3. Owes(run.on, Foremost)
  BY <1>2 DEF Owes
<1>4. ASSUME NEW r \in Reactions, Owes(run.on, r)
      PROVE  r = Foremost \/ Foremost.nth < r.nth
  <2>1. Queued(micro, run.on, r) \/ Holds(run.left, r)
    BY <1>4 DEF Owes, Waits
  <2>2. Queued(micro, run.on, r) \/ Holds(Tail(run.left), r) \/ r = Foremost
    BY <1>1, <2>1, HoldsLess DEF Foremost
  <2>3. \A s : Holds(Tail(run.left), s) \/ Queued(micro, run.on, s) => Foremost.nth < s.nth
    <3> DEFINE g == [run EXCEPT !.left = Tail(run.left)]
    <3>1. g.on = run.on /\ g.left = Tail(run.left)
      BY <1>1 DEF QueuedTasks
    <3> HIDE DEF g
    <3> QED BY <1>1, <3>1, OrderTaken DEF OrderInv, Foremost
  <2> QED BY <2>2, <2>3
<1>5. Foremost.nth = ran[run.on] + 1
  <2>1. ran[run.on] \in Nat /\ attached[run.on] \in 0..MaxAttached /\ Foremost.nth \in Nat
    BY <1>2, OwedTypes DEF PromisesTypeOK
  <2>2. ran[run.on] < Foremost.nth /\ Foremost.nth <= attached[run.on]
    BY <1>2, <1>3 DEF OwedInv
  <2>3. ran[run.on] + 1 \in 1..MaxAttached /\ ran[run.on] + 1 <= attached[run.on]
    BY <2>1, <2>2, PromisesAssumption
  <2>4. PICK r \in Reactions : Owes(run.on, r) /\ r.nth = ran[run.on] + 1
    BY <2>1, <2>3 DEF OwedInv
  <2>5. r = Foremost \/ Foremost.nth < r.nth
    BY <1>4, <2>4
  <2> QED BY <2>1, <2>2, <2>4, <2>5
<1> QED BY <1>2, <1>3, <1>4, <1>5

LEMMA OwedTaken ==
  ASSUME PromisesTypeOK, OwedInv, OrderInv, Grows, run.on \in Promises, run.left # <<>>,
         state[run.on] # "pending", attached' = attached,
         ran' = [ran EXCEPT ![run.on] = Foremost.nth],
         \A p \in Promises, r \in Reactions :
           Owes(p, r)' <=> Owes(p, r) /\ ~(p = run.on /\ r = Foremost),
         \A p \in Promises, r \in Reactions :
           Owes(p, r)' /\ r.next \in Promises => Untouched(r.next)
  PROVE  OwedInv'
<1>1. /\ \A q \in Promises : ran[q] \in Nat /\ attached[q] \in Nat
      /\ \A r \in Reactions : r.nth \in Nat
  BY OwedTypes
<1>2. /\ Foremost \in Reactions /\ Owes(run.on, Foremost)
      /\ Foremost.nth = ran[run.on] + 1
      /\ \A r \in Reactions :
           Owes(run.on, r) => r = Foremost \/ Foremost.nth < r.nth
  BY IsNext
<1>3. \A q \in Promises : ran'[q] = IF q = run.on THEN ran[q] + 1 ELSE ran[q]
  BY <1>2 DEF PromisesTypeOK
<1>4. ASSUME NEW p \in Promises, NEW r \in Reactions, Owes(p, r)'
      PROVE  Linked(p, r)' /\ ran'[p] < r.nth /\ r.nth <= attached'[p]
  <2>1. Owes(p, r) /\ ~(p = run.on /\ r = Foremost)
    BY <1>4
  <2>2. Linked(p, r) /\ ran[p] < r.nth /\ r.nth <= attached[p]
    BY <2>1 DEF OwedInv
  <2>3. Linked(p, r)'
    BY <1>4, <2>2, LinkedStays DEF Untouched
  <2>4. ran'[p] < r.nth
    BY <1>2, <1>3, <2>1, <2>2
  <2> QED BY <2>2, <2>3, <2>4
<1>5. ASSUME NEW q \in Promises, NEW m \in 1..MaxAttached, ran'[q] < m, m <= attached[q]
      PROVE  \E r \in Reactions : Owes(q, r)' /\ r.nth = m
  <2>1. ran[q] < m
    BY <1>1, <1>3, <1>5
  <2>2. PICK r \in Reactions : Owes(q, r) /\ r.nth = m
    BY <1>5, <2>1 DEF OwedInv
  <2>3. ~(q = run.on /\ r = Foremost)
    BY <1>1, <1>2, <1>3, <1>5, <2>2
  <2> QED BY <2>2, <2>3
<1>6. \A q \in Promises : ran'[q] <= attached'[q]
  <2>1. Foremost.nth <= attached[run.on]
    BY <1>2 DEF OwedInv
  <2> QED BY <1>2, <1>3, <2>1 DEF OwedInv
<1>7. \A p, q \in Promises, r, s \in Reactions :
       Owes(p, r)' /\ Owes(q, s)' /\ r.next = s.next /\ r.next # None => p = q /\ r = s
  BY DEF OwedInv
<1> QED BY <1>4, <1>5, <1>6, <1>7 DEF OwedInv


\* A delivery takes over what waited with the promise it settles.
LEMMA SettleLater ==
  ASSUME PromisesTypeOK, NEW n \in Promises, state[n] = "pending",
         NEW o \in Outcomes, NEW c \in BOOLEAN, state' = [state EXCEPT ![n] = o],
         micro' = Append(micro, Deliver(n, reactions[n], o, c)), reactions' = reactions
  PROVE  /\ Deliver(n, reactions[n], o, c) \in QueuedTasks
         /\ \A p \in Promises : \A r : Later(p, r)' <=> Later(p, r)
<1> DEFINE t == Deliver(n, reactions[n], o, c)
<1>1. /\ t \in QueuedTasks /\ t.on = n /\ t.left = reactions[n]
  BY DEF Deliver, Task, QueuedTasks, PromisesTypeOK
<1>2. ASSUME NEW p \in Promises, NEW r
      PROVE  Later(p, r)' <=> Later(p, r)
  <2>1. micro \in Seq(QueuedTasks) /\ micro' = Append(micro, t)
    BY DEF PromisesTypeOK
  <2>2. Queued(micro', p, r) <=> Queued(micro, p, r) \/ (n = p /\ Holds(reactions[n], r))
    <3> HIDE DEF t
    <3> QED BY <1>1, <2>1, QueuedMore
  <2>3. Waits(p, r)' <=> p # n /\ Waits(p, r)
    BY DEF Waits, PromisesTypeOK, Outcomes
  <2>4. Waits(n, r) <=> Holds(reactions[n], r)
    BY DEF Waits
  <2> QED BY <2>2, <2>3, <2>4 DEF Later
<1> QED BY <1>1, <1>2

\* An attachment adds one reaction to what is to come.
LEMMA EngageLater ==
  ASSUME PromisesTypeOK, FreshInv, NEW p \in Promises, state[p] # "unused",
         NEW x \in Reactions, Engage(p, x),
         \A q \in Promises : state'[q] = state[q] \/ (state[q] = "unused" /\ state'[q] = "pending")
  PROVE  \A q \in Promises : \A r : Later(q, r)' <=> Later(q, r) \/ (q = p /\ r = x)
<1> SUFFICES ASSUME NEW q \in Promises, NEW r
             PROVE  Later(q, r)' <=> Later(q, r) \/ (q = p /\ r = x)
  OBVIOUS
<1>1. state'[p] = state[p]
  OBVIOUS
<1>2. ASSUME reactions'[q] = reactions[q] PROVE Waits(q, r)' <=> Waits(q, r)
  <2>1. CASE state'[q] = state[q]
    BY <1>2, <2>1 DEF Waits
  <2>2. CASE state[q] = "unused" /\ state'[q] = "pending"
    <3>1. reactions[q] = <<>>
      BY <2>2 DEF FreshInv
    <3>2. ~Holds(reactions[q], r)
      BY <3>1, HoldsNothing
    <3> QED BY <1>2, <3>2 DEF Waits
  <2> QED BY <2>1, <2>2
<1>3. CASE state[p] = "pending"
  <2>1. reactions' = [reactions EXCEPT ![p] = Append(@, x)] /\ micro' = micro
    BY <1>3 DEF Engage
  <2>2. CASE q = p
    <3>1. reactions[p] \in Seq(Reactions) /\ reactions'[p] = Append(reactions[p], x)
      BY <2>1 DEF PromisesTypeOK
    <3>2. Holds(reactions'[p], r) <=> Holds(reactions[p], r) \/ r = x
      BY <3>1, HoldsMore
    <3> QED BY <1>1, <1>3, <2>1, <2>2, <3>2 DEF Later, Waits
  <2>3. CASE q # p
    <3>1. reactions'[q] = reactions[q]
      BY <2>1, <2>3 DEF PromisesTypeOK
    <3> QED BY <1>2, <2>1, <2>3, <3>1 DEF Later
  <2> QED BY <2>2, <2>3
<1>4. CASE state[p] # "pending"
  <2> DEFINE t == Deliver(p, <<x>>, state[p], FALSE)
  <2>1. t \in QueuedTasks /\ t.on = p /\ t.left = <<x>>
    BY <1>4 DEF Deliver, Task, QueuedTasks, PromisesTypeOK, Outcomes
  <2>2. micro' = Append(micro, t) /\ reactions' = reactions /\ micro \in Seq(QueuedTasks)
    BY <1>4 DEF Engage, PromisesTypeOK
  <2>3. Holds(<<x>>, r) <=> r = x
    BY DEF Holds
  <2>4. Queued(micro', q, r) <=> Queued(micro, q, r) \/ (p = q /\ r = x)
    <3> HIDE DEF t
    <3> QED BY <2>1, <2>2, <2>3, QueuedMore
  <2> QED BY <1>2, <2>2, <2>4 DEF Later
<1> QED BY <1>3, <1>4


-------------------------------------------------------------------------------
\* How each part of the invariant outlives a step.

LEMMA SoundStays ==
  ASSUME Grows, own \subseteq own', NEW t, Sound(t)
  PROVE  Sound(t)'
<1>1. t.on \in Promises /\ state'[t.on] = state[t.on]
  BY DEF Sound, Settled, Grows
<1> QED BY <1>1 DEF Sound, Settled

LEMMA TaskKept ==
  ASSUME PromisesTypeOK, TaskInv, Grows, own \subseteq own', macro' = macro,
         \/ micro' = micro
         \/ micro # <<>> /\ micro' = Tail(micro)
         \/ \E t \in QueuedTasks : Sound(t)' /\ micro' = Append(micro, t)
  PROVE  TaskInv'
<1>1. micro \in Seq(QueuedTasks)
  BY DEF PromisesTypeOK
<1>2. \A t : (\E k \in DOMAIN micro : t = micro[k]) => Sound(t)'
  BY SoundStays DEF TaskInv
<1>3. SUFFICES ASSUME NEW t, NEW k \in DOMAIN micro', t = micro'[k]
               PROVE  Sound(t)'
  BY DEF TaskInv
<1>4. CASE micro' = micro
  BY <1>2, <1>3, <1>4
<1>5. CASE micro # <<>> /\ micro' = Tail(micro)
  BY <1>1, <1>2, <1>3, <1>5, Taken
<1>6. ASSUME NEW s \in QueuedTasks, Sound(s)', micro' = Append(micro, s)
      PROVE  Sound(t)'
  <2>1. (k \in DOMAIN micro /\ micro'[k] = micro[k]) \/ micro'[k] = s
    BY <1>1, <1>3, <1>6, Appended
  <2> QED BY <1>2, <1>3, <1>6, <2>1
<1> QED BY <1>4, <1>5, <1>6

\* The checks and the rejections that are queued, after the queue moves.
Rejected(p) == \E k \in DOMAIN micro : IsRejection(micro[k], p)

LEMMA JudgeAppended ==
  ASSUME PromisesTypeOK, NEW t \in QueuedTasks, micro' = Append(micro, t), NEW p
  PROVE  /\ Checking(p) \/ IsCheck(t, p) => Checking(p)'
         /\ Rejected(p) \/ IsRejection(t, p) => Rejected(p)'
<1>1. micro \in Seq(QueuedTasks)
  BY DEF PromisesTypeOK
<1>2. /\ \A k \in DOMAIN micro : k \in DOMAIN micro' /\ micro'[k] = micro[k]
      /\ \E k \in DOMAIN micro' : micro'[k] = t
  BY <1>1, Appended
<1> QED BY <1>2 DEF Checking, Rejected

LEMMA JudgeTaken ==
  ASSUME PromisesTypeOK, micro # <<>>, micro' = Tail(micro), NEW p
  PROVE  /\ Checking(p) => Checking(p)' \/ IsCheck(Head(micro), p)
         /\ Rejected(p) => Rejected(p)' \/ IsRejection(Head(micro), p)
<1>1. micro \in Seq(QueuedTasks)
  BY DEF PromisesTypeOK
<1>2. \A k \in DOMAIN micro : micro[k] = Head(micro) \/ \E j \in DOMAIN micro' : micro'[j] = micro[k]
  <2> TAKE k \in DOMAIN micro
  <2>1. k = 1 \/ (k - 1 \in DOMAIN Tail(micro) /\ Tail(micro)[k - 1] = micro[k])
    BY <1>1, Taken
  <2>2. Head(micro) = micro[1]
    BY <1>1, Taken
  <2> QED BY <2>1, <2>2
<1> QED BY <1>2 DEF Checking, Rejected

LEMMA JudgeKept ==
  ASSUME JudgeInv, Grows, own \subseteq own', own \subseteq Promises, checked' \subseteq own',
         reported \subseteq reported',
         \A p \in own' : p \in checked' => p \in checked \/ Checking(p)',
         \A p \in own' : state'[p] = "rejected" =>
                           (p \in own /\ state[p] = "rejected") \/ Rejecting(p)',
         \A p \in own : Checking(p) => Checking(p)' \/ Judged(p)',
         \A p \in own : Rejecting(p) => Rejecting(p)' \/ Checking(p)' \/ Judged(p)'
  PROVE  JudgeInv'
<1>1. \A p \in own : Judged(p) => Judged(p)'
  BY ReachesMore DEF Judged
<1>2. ASSUME NEW p \in own', p \in checked'
      PROVE  Judged(p)' \/ Checking(p)'
  BY <1>1, <1>2 DEF JudgeInv
<1>3. ASSUME NEW p \in own', state'[p] = "rejected"
      PROVE  Judged(p)' \/ Checking(p)' \/ Rejecting(p)'
  BY <1>1, <1>3 DEF JudgeInv
<1> QED BY <1>2, <1>3 DEF JudgeInv

\* The queue stays, or a task that is no check and no first word of a rejection
\* joins it.
LEMMA JudgeOnward ==
  ASSUME PromisesTypeOK, JudgeInv, Grows, own' = own, checked' = checked, reported' = reported,
         run' = run \/ (run'.do = run.do /\ run'.on = run.on /\ run'.check = run.check),
         micro' = micro \/ \E t \in QueuedTasks : micro' = Append(micro, t),
         \A p \in own : state'[p] = "rejected" => state[p] = "rejected" \/ Rejecting(p)'
  PROVE  JudgeInv'
<1>1. \A p : Checking(p) => Checking(p)'
  BY JudgeAppended DEF Checking
<1>2. \A p : Rejected(p) => Rejected(p)'
  BY JudgeAppended DEF Rejected
<1>3. \A p : IsRejection(run, p) => IsRejection(run', p)
  BY DEF IsRejection
<1>4. \A p : Rejecting(p) => Rejecting(p)'
  BY <1>2, <1>3 DEF Rejecting, Rejected
<1>5. own \subseteq Promises /\ checked \subseteq own
  BY DEF PromisesTypeOK, JudgeInv
<1> QED BY <1>1, <1>4, <1>5, JudgeKept


\* Whoever leads up from one that is excused is excused.
Climbs ==
  PromisesTypeOK /\ LinkInv =>
    \A q \in Promises : parent[q] # None /\ Excused(q) => Excused(parent[q])

LEMMA Climbing == Climbs
<1> SUFFICES ASSUME PromisesTypeOK, LinkInv, NEW q \in Promises, parent[q] # None, Excused(q)
             PROVE  Excused(parent[q])
  BY DEF Climbs
<1>1. parent[q] \in Promises
  BY DEF PromisesTypeOK
<1>2. CASE <<q, parent[q]>> \in joined
  BY <1>1, <1>2 DEF Excused, Adopters
<1>3. CASE Done(parent[q])
  BY <1>1, <1>3, ConsumedReaches DEF Done, Excused
<1>4. CASE <<parent[q], q>> \in flows /\ q \notin Adopters /\ state[q] # "fulfilled"
  <2>1. HandledDownstream(q)
    BY <1>4 DEF Excused
  <2>2. HandledDownstream(parent[q])
    BY <1>1, <1>4, <2>1, PassesReach
  <2> QED BY <2>2 DEF Excused
<1> QED BY <1>2, <1>3, <1>4 DEF LinkInv

\* Marking from a promise that has just got a handler.
LEMMA MarkedExcused ==
  ASSUME PromisesTypeOK, HandledInv, Grows, PromisesTypeOK', LinkInv',
         NEW p \in Promises, p \in consumed', handled' = Marked(p),
         \A q \in Promises : parent[q] = None \/ parent'[q] = parent[q]
  PROVE  HandledInv'
<1>1. \A q \in Promises : parent'[q] # None /\ Excused(q)' => Excused(parent[q])' \/ parent[q] = None
  <2>1. Climbs'
    BY Climbing, PTL
  <2>2. \A q \in Promises : \A n : n = parent'[q] /\ n # None /\ Excused(q)' => Excused(n)'
    BY <2>1 DEF Climbs
  <2> QED BY <2>2
<1> DEFINE S == {q \in Promises : Excused(q)'}
<1>2. p \in S
  BY DEF Excused, HandledDownstream, Downstream
<1>3. handled \subseteq S
  BY ExcusedMore DEF HandledInv, PromisesTypeOK
<1>4. GoesUp(S)
  <2> SUFFICES ASSUME NEW q \in S, parent[q] # None PROVE parent[q] \in S
    BY DEF GoesUp
  <2>1. parent[q] \in Promises /\ parent'[q] = parent[q]
    BY DEF PromisesTypeOK
  <2> QED BY <1>1, <2>1, PromisesAssumption
<1>5. Marked(p) \subseteq S
  BY <1>2, <1>3, <1>4, MarkedIsLeast
<1> QED BY <1>5 DEF HandledInv

LEMMA HandledKept ==
  ASSUME PromisesTypeOK, HandledInv, Grows, handled' = handled
  PROVE  HandledInv'
BY ExcusedMore DEF HandledInv, PromisesTypeOK

LEMMA MarksKept ==
  ASSUME PromisesTypeOK, MarkInv, Grows, handled' = handled, consumed' = consumed,
         joined' # {} \/ (parent' = parent /\ flows' = flows)
  PROVE  MarkInv'
<1>1. \A c \in consumed' : c \in handled' \/ state'[c] = "fulfilled"
  <2> TAKE c \in consumed'
  <2>1. c \in Promises /\ (c \in handled \/ state[c] = "fulfilled")
    BY DEF MarkInv, PromisesTypeOK
  <2> QED BY <2>1 DEF Grows
<1>2. joined' = {} => joined = {}
  BY DEF Grows
<1> QED BY <1>1, <1>2 DEF MarkInv

\* Marks reach no promise before it exists.
LEMMA MarkedUsed ==
  ASSUME PromisesTypeOK, FreshInv, NEW p \in Promises, state[p] # "unused"
  PROVE  \A y \in Promises : y \in Marked(p) => y \in handled \/ state[y] # "unused"
<1> DEFINE S == {y \in Promises : y \in handled \/ state[y] # "unused"}
<1>1. handled \cup {p} \subseteq S
  BY DEF PromisesTypeOK
<1>2. GoesUp(S)
  <2> SUFFICES ASSUME NEW y \in S, parent[y] # None PROVE parent[y] \in S
    BY DEF GoesUp
  <2>1. parent[y] \in Promises
    BY DEF PromisesTypeOK
  <2>2. state[parent[y]] # "unused"
    BY <2>1 DEF FreshInv
  <2> QED BY <2>1, <2>2
<1> QED BY <1>1, <1>2, MarkedIsLeast

LEMMA MarksGrow ==
  ASSUME PromisesTypeOK, MarkInv, Grows, NEW p \in Promises, handled' = Marked(p),
         consumed' = consumed \cup {p}, joined' = joined,
         \A x \in Marked(p) : parent'[x] = parent[x] \/ parent'[x] \in Marked(p),
         joined = {} => \A f \in flows' : parent'[f[2]] = f[1]
  PROVE  MarkInv'
<1> DEFINE M == Marked(p)
<1>1. handled \subseteq M /\ p \in M /\ GoesUp(M)
  BY MarkedIsLeast
<1>2. \A c \in consumed' : c \in M \/ state'[c] = "fulfilled"
  <2> TAKE c \in consumed'
  <2>1. c = p \/ (c \in Promises /\ (c \in handled \/ state[c] = "fulfilled"))
    BY DEF MarkInv, PromisesTypeOK
  <2> QED BY <1>1, <2>1 DEF Grows
<1>3. ASSUME joined = {}, NEW x \in M PROVE parent'[x] \in M \cup {None}
  <2>1. CASE parent'[x] \in M
    BY <2>1
  <2>2. CASE parent'[x] = parent[x] /\ x \in handled
    BY <1>1, <1>3, <2>2 DEF MarkInv
  <2>3. CASE parent'[x] = parent[x] /\ x \notin handled
    BY <1>1, <2>3 DEF GoesUp
  <2> QED BY <2>1, <2>2, <2>3
<1> QED BY <1>2, <1>3 DEF MarkInv

\* A callback that may take over what becomes of a promise runs for one that is done.
LEMMA CalledDone ==
  ASSUME NEW p, NEW r, r.kind \in Ways, Linked(p, r), state[p] = run.outcome,
         ~PassesOn(r.kind, run.outcome), r.kind # "finally" \/ run.outcome = "fulfilled",
         run.outcome \in Outcomes
  PROVE  Done(p)
BY DEF Ways, Linked, PassesOn, Done, Outcomes

\* The foremost reaction is owed once.
LEMMA TakenOff ==
  ASSUME PromisesTypeOK, OwedInv, OrderInv, run.on \in Promises, run.left # <<>>,
         state[run.on] # "pending"
  PROVE  \A p \in Promises : \A r :
           Later(p, r) \/ (run.on = p /\ Holds(Tail(run.left), r)) <=>
             Owes(p, r) /\ ~(p = run.on /\ r = Foremost)
<1>1. run.left \in Seq(Reactions) /\ micro \in Seq(QueuedTasks) /\ run \in QueuedTasks
  BY DEF PromisesTypeOK, QueuedTasks
<1>2. \A r : Holds(run.left, r) <=> Holds(Tail(run.left), r) \/ r = Foremost
  BY <1>1, HoldsLess DEF Foremost
<1>3. \A s : Holds(Tail(run.left), s) \/ Queued(micro, run.on, s) => Foremost.nth < s.nth
  <2> DEFINE g == [run EXCEPT !.left = Tail(run.left)]
  <2>1. g.on = run.on /\ g.left = Tail(run.left)
    BY <1>1 DEF QueuedTasks
  <2> HIDE DEF g
  <2> QED BY <1>1, <2>1, OrderTaken DEF OrderInv, Foremost
<1>4. Foremost.nth \in Nat
  BY IsNext, OwedTypes
<1>5. ~Later(run.on, Foremost) /\ ~Holds(Tail(run.left), Foremost)
  BY <1>3, <1>4 DEF Later, Waits
<1> QED BY <1>2, <1>5 DEF Owes, Later


-------------------------------------------------------------------------------
\* Types.
LEMMA SettleTypes ==
  ASSUME PromisesTypeOK, NEW n \in Promises, NEW o \in Outcomes, NEW c \in BOOLEAN,
         state' = [state EXCEPT ![n] = o], micro' = Append(micro, Deliver(n, reactions[n], o, c))
  PROVE  /\ state' \in [Promises -> {"unused", "pending"} \cup Outcomes]
         /\ micro' \in Seq(QueuedTasks)
<1>1. Deliver(n, reactions[n], o, c) \in QueuedTasks
  BY DEF Deliver, Task, QueuedTasks, PromisesTypeOK
<1> QED BY <1>1 DEF PromisesTypeOK

LEMMA ReactionTyped ==
  ASSUME NEW k \in Kinds, NEW n \in Promises \cup {None}, NEW i \in Nat, i < MaxAttached
  PROVE  Reaction(k, n, i + 1) \in Reactions
BY PromisesAssumption DEF Reaction, Reactions

LEMMA EngageTypes ==
  ASSUME PromisesTypeOK, NEW p \in Promises, state[p] # "unused", NEW x \in Reactions, Engage(p, x)
  PROVE  reactions' \in [Promises -> Seq(Reactions)] /\ micro' \in Seq(QueuedTasks)
<1>1. CASE state[p] = "pending"
  <2>1. Append(reactions[p], x) \in Seq(Reactions)
    BY Appended DEF PromisesTypeOK
  <2> QED BY <1>1, <2>1 DEF Engage, PromisesTypeOK
<1>2. CASE state[p] # "pending"
  <2> DEFINE t == Deliver(p, <<x>>, state[p], FALSE)
  <2>1. t \in QueuedTasks
    BY <1>2 DEF Deliver, Task, QueuedTasks, PromisesTypeOK, Outcomes
  <2>2. micro' = Append(micro, t) /\ reactions' = reactions
    BY <1>2 DEF Engage
  <2> HIDE DEF t
  <2> QED BY <2>1, <2>2, Appended DEF PromisesTypeOK
<1> QED BY <1>1, <1>2

LEMMA AttachedTyped ==
  ASSUME PromisesTypeOK, NEW p \in Promises, attached[p] < MaxAttached
  PROVE  /\ attached[p] \in Nat
         /\ [attached EXCEPT ![p] = @ + 1] \in [Promises -> 0..MaxAttached]
BY PromisesAssumption DEF PromisesTypeOK

LEMMA TaskTypes ==
  /\ \A p \in Promises : ResumeTask(p) \in QueuedTasks /\ Check(p) \in QueuedTasks
  /\ NoRun \in QueuedTasks
BY DEF ResumeTask, Check, NoRun, Deliver, Task, QueuedTasks, Outcomes

LEMMA TailTypes ==
  ASSUME PromisesTypeOK, micro # <<>>
  PROVE  Head(micro) \in QueuedTasks /\ Tail(micro) \in Seq(QueuedTasks)
BY Taken DEF PromisesTypeOK

\* The callback that runs, and the reaction in front, lead to pending promises.
LEMMA CallbackLeads ==
  ASSUME PromisesTypeOK, RunInv, cur # NoReaction
  PROVE  /\ cur \in Reactions /\ cur.kind \in Ways
         /\ cur.next \in Promises \ own /\ state[cur.next] = "pending"
         /\ run.on \in Promises /\ state[run.on] = run.outcome /\ run.outcome \in Outcomes
         /\ cur.next # run.on /\ cur.next \notin Adopters
         /\ Linked(run.on, cur)
BY DEF RunInv, Linked, Ways, PromisesTypeOK, QueuedTasks, Outcomes

LEMMA RunLeads ==
  ASSUME PromisesTypeOK, OwedInv, OrderInv, RunInv, pc = "run", run.left # <<>>
  PROVE  /\ run.on \in Promises /\ state[run.on] = run.outcome /\ run.outcome \in Outcomes
         /\ Foremost \in Reactions /\ Linked(run.on, Foremost)
         /\ Foremost.kind # "await" =>
              /\ Foremost.next \in Promises \ own /\ state[Foremost.next] = "pending"
              /\ Foremost.next # run.on
<1>1. run.on \in Promises /\ state[run.on] = run.outcome /\ run.outcome \in Outcomes
  BY DEF RunInv, PromisesTypeOK, QueuedTasks
<1>2. Foremost \in Reactions /\ Owes(run.on, Foremost)
  BY <1>1, IsNext DEF Outcomes
<1>3. Linked(run.on, Foremost)
  BY <1>1, <1>2 DEF OwedInv
<1> QED BY <1>1, <1>2, <1>3 DEF Linked, Outcomes

LEMMA RestTyped ==
  ASSUME PromisesTypeOK, OwedInv, OrderInv, RunInv, NextReaction
  PROVE  /\ run' \in QueuedTasks /\ ran' \in [Promises -> 0..MaxAttached]
         /\ run'.do = run.do /\ run'.on = run.on /\ run'.check = run.check
         /\ run'.outcome = run.outcome /\ run'.left = Tail(run.left)
<1>1. Foremost \in Reactions
  BY RunLeads DEF NextReaction
<1>2. ran' \in [Promises -> 0..MaxAttached]
  <2>1. Foremost.nth \in 0..MaxAttached
    BY <1>1, PromisesAssumption DEF Reactions
  <2> QED BY <2>1 DEF NextReaction, PromisesTypeOK
<1>3. run \in QueuedTasks /\ run.left \in Seq(Reactions) /\ run.left # <<>>
  BY DEF PromisesTypeOK, QueuedTasks, NextReaction
<1>4. Tail(run.left) \in Seq(Reactions)
  BY <1>3, Taken
<1>5. run' = [run EXCEPT !.left = Tail(run.left)]
  BY DEF NextReaction
<1> QED BY <1>2, <1>3, <1>4, <1>5 DEF QueuedTasks

LEMMA ProgramTypes ==
  ASSUME PromisesTypeOK, Program
  PROVE  PromisesTypeOK'
<1>1. ASSUME NEW p \in Promises, Construct(p) \/ Nap(p)
      PROVE  PromisesTypeOK'
  BY <1>1 DEF Construct, Nap, PromisesTypeOK, marks, history
<1>2. ASSUME NEW p \in Promises, NEW o \in Outcomes, Settle(p, o)
      PROVE  PromisesTypeOK'
  <2>1. /\ state' \in [Promises -> {"unused", "pending"} \cup Outcomes]
        /\ micro' \in Seq(QueuedTasks)
    BY <1>2, SettleTypes DEF Settle, SettleOwn
  <2> QED BY <1>2, <2>1 DEF Settle, SettleOwn, PromisesTypeOK, marks, history
<1>3. ASSUME NEW p \in Promises, AwaitPromise(p)
      PROVE  PromisesTypeOK'
  <2>1. Marked(p) \subseteq Promises
    BY MarkedIsLeast
  <2>2. CASE state[p] = "pending"
    <3>1. attached[p] \in Nat /\ [attached EXCEPT ![p] = @ + 1] \in [Promises -> 0..MaxAttached]
      BY <1>3, AttachedTyped DEF AwaitPromise
    <3>2. Reaction("await", None, attached[p] + 1) \in Reactions
      BY <1>3, <3>1, ReactionTyped DEF AwaitPromise, Kinds
    <3>3. Engage(p, Reaction("await", None, attached[p] + 1))
      BY <1>3, <2>2 DEF AwaitPromise, Engage
    <3>4. reactions' \in [Promises -> Seq(Reactions)]
      BY <1>3, <3>2, <3>3, EngageTypes DEF AwaitPromise
    <3> QED BY <1>3, <2>1, <2>2, <3>1, <3>4 DEF AwaitPromise, PromisesTypeOK
  <2>3. CASE state[p] # "pending"
    <3>1. Append(micro, ResumeTask(p)) \in Seq(QueuedTasks)
      BY Appended, TaskTypes DEF PromisesTypeOK
    <3> QED BY <1>3, <2>1, <2>3, <3>1 DEF AwaitPromise, PromisesTypeOK
  <2> QED BY <2>2, <2>3
<1>4. ASSUME NEW p \in Promises, NEW n \in Promises, NEW k \in Ways, Attach(p, k, n)
      PROVE  PromisesTypeOK'
  <2>1. Marked(p) \subseteq Promises
    BY MarkedIsLeast
  <2>2. attached[p] \in Nat /\ attached' \in [Promises -> 0..MaxAttached]
    BY <1>4, AttachedTyped DEF Attach
  <2>3. Reaction(k, n, attached[p] + 1) \in Reactions
    BY <1>4, <2>2, ReactionTyped DEF Attach, Kinds, Ways
  <2>4. reactions' \in [Promises -> Seq(Reactions)] /\ micro' \in Seq(QueuedTasks)
    BY <1>4, <2>3, EngageTypes DEF Attach
  <2>5. /\ state' \in [Promises -> {"unused", "pending"} \cup Outcomes]
        /\ parent' \in [Promises -> Promises \cup {None}]
    BY <1>4 DEF Attach, PromisesTypeOK
  <2>6. handled' \subseteq Promises /\ consumed' \subseteq Promises
    BY <1>4, <2>1 DEF Attach, PromisesTypeOK
  <2>7. flows' \subseteq Promises \X Promises /\ joined' \subseteq flows'
    BY <1>4 DEF Attach, PromisesTypeOK
  <2> QED BY <1>4, <2>2, <2>4, <2>5, <2>6, <2>7 DEF Attach, PromisesTypeOK
<1> QED BY <1>1, <1>2, <1>3, <1>4 DEF Program, Outcomes, Ways


LEMMA ChainTypes ==
  ASSUME PromisesTypeOK, RunInv, NEW o \in Outcomes, Chain(o)
  PROVE  PromisesTypeOK'
<1>1. cur.next \in Promises /\ run.outcome \in Outcomes
  BY CallbackLeads DEF Chain, EndCallback
<1>2. PICK w \in Outcomes : SettleNext(cur.next, w)
  BY <1>1 DEF Chain
<1>3. /\ state' \in [Promises -> {"unused", "pending"} \cup Outcomes]
      /\ micro' \in Seq(QueuedTasks)
  BY <1>1, <1>2, SettleTypes DEF SettleNext
<1> QED BY <1>3 DEF Chain, EndCallback, PromisesTypeOK, marks, history

LEMMA ReturnTypes ==
  ASSUME PromisesTypeOK, RunInv, NEW q \in Promises, ReturnsSettled(q) \/ ReturnsPending(q)
  PROVE  PromisesTypeOK'
<1>1. cur.next \in Promises
  BY CallbackLeads DEF ReturnsSettled, ReturnsPending, EndCallback
<1>2. CASE ReturnsSettled(q)
  <2>1. state[q] \in Outcomes
    BY <1>2 DEF ReturnsSettled, Settled, Outcomes
  <2>2. /\ state' \in [Promises -> {"unused", "pending"} \cup Outcomes]
        /\ micro' \in Seq(QueuedTasks)
    BY <1>1, <1>2, <2>1, SettleTypes DEF SettleNext, ReturnsSettled
  <2> QED BY <1>1, <1>2, <2>2 DEF ReturnsSettled, EndCallback, PromisesTypeOK, marks
<1>3. CASE ReturnsPending(q)
  <2>1. attached[q] \in Nat /\ attached' \in [Promises -> 0..MaxAttached]
    BY <1>3, AttachedTyped DEF ReturnsPending
  <2>2. Reaction("adopt", cur.next, attached[q] + 1) \in Reactions
    BY <1>1, <1>3, <2>1, ReactionTyped DEF ReturnsPending, Kinds
  <2>3. Engage(q, Reaction("adopt", cur.next, attached[q] + 1))
    BY <1>3 DEF ReturnsPending, Engage
  <2>4. reactions' \in [Promises -> Seq(Reactions)]
    BY <1>3, <2>2, <2>3, EngageTypes DEF ReturnsPending
  <2>5. parent' \in [Promises -> Promises \cup {None}]
    BY <1>1, <1>3 DEF ReturnsPending, PromisesTypeOK
  <2>6. flows' \subseteq Promises \X Promises /\ joined' \subseteq flows'
    BY <1>1, <1>3 DEF ReturnsPending, PromisesTypeOK
  <2> QED BY <1>3, <2>1, <2>4, <2>5, <2>6 DEF ReturnsPending, EndCallback, PromisesTypeOK, marks
<1> QED BY <1>2, <1>3

LEMMA LoopTypes ==
  ASSUME PromisesTypeOK, OwedInv, OrderInv, TaskInv, RunInv, Naps = {}, Loop
  PROVE  PromisesTypeOK'
<1>1. CASE StartDelivery
  BY <1>1, TailTypes DEF StartDelivery, Start, PromisesTypeOK, marks, history
<1>2. CASE StartFrame
  BY <1>2, TailTypes DEF StartFrame, Start, PromisesTypeOK, marks, history
<1>3. CASE UnhandledCheck
  <2>1. Head(micro).on \in Promises
    BY <1>3, Taken DEF UnhandledCheck, Start, TaskInv, Sound, PromisesTypeOK
  <2> QED BY <1>3, <2>1, TailTypes DEF UnhandledCheck, Start, PromisesTypeOK, history
<1>4. CASE PassOn
  <2>1. run' \in QueuedTasks /\ ran' \in [Promises -> 0..MaxAttached]
    BY <1>4, RestTyped DEF PassOn
  <2>2. Foremost.next \in Promises /\ run.outcome \in Outcomes
    BY <1>4, RunLeads DEF PassOn, NextReaction, PassesOn
  <2>3. /\ state' \in [Promises -> {"unused", "pending"} \cup Outcomes]
        /\ micro' \in Seq(QueuedTasks)
    BY <1>4, <2>2, SettleTypes DEF PassOn, SettleNext
  <2> QED BY <1>4, <2>1, <2>3 DEF PassOn, PromisesTypeOK, marks
<1>5. CASE StartCallback
  <2>1. run' \in QueuedTasks /\ ran' \in [Promises -> 0..MaxAttached]
    BY <1>5, RestTyped DEF StartCallback
  <2>2. Foremost \in Reactions
    BY <1>5, RunLeads DEF StartCallback, NextReaction
  <2> QED BY <1>5, <2>1, <2>2 DEF StartCallback, PromisesTypeOK, marks
<1>6. CASE WakeFrame
  <2>1. run' \in QueuedTasks /\ ran' \in [Promises -> 0..MaxAttached]
    BY <1>6, RestTyped DEF WakeFrame
  <2>2. run.on \in Promises
    BY <1>6, RunLeads DEF WakeFrame, NextReaction
  <2>3. Append(micro, ResumeTask(run.on)) \in Seq(QueuedTasks)
    BY <2>2, Appended, TaskTypes DEF PromisesTypeOK
  <2> QED BY <1>6, <2>1, <2>3 DEF WakeFrame, PromisesTypeOK, marks
<1>7. CASE EndDelivery
  <2>1. run.on \in Promises
    BY <1>7 DEF EndDelivery, RunInv
  <2>2. Append(micro, Check(run.on)) \in Seq(QueuedTasks)
    BY <2>1, Appended, TaskTypes DEF PromisesTypeOK
  <2>3. micro' \in Seq(QueuedTasks) /\ checked' \subseteq Promises
    BY <1>7, <2>1, <2>2 DEF EndDelivery, PromisesTypeOK
  <2> QED BY <1>7, <2>3, TaskTypes DEF EndDelivery, PromisesTypeOK, history
<1> QED BY <1>1, <1>2, <1>3, <1>4, <1>5, <1>6, <1>7 DEF Loop


-------------------------------------------------------------------------------
\* A step of the program leaves the delivery alone.
LEMMA RunKept ==
  ASSUME PromisesTypeOK, RunInv, Grows, run' = run, cur' = cur, pc' = pc, own \subseteq own',
         cur # NoReaction =>
           /\ Untouched(cur.next)
           /\ \A p \in Promises, r \in Reactions : Owes(p, r)' => Owes(p, r) \/ r.next # cur.next
  PROVE  RunInv'
<1>1. run.on \in Promises => state'[run.on] = run'.outcome
  BY DEF RunInv, Grows, PromisesTypeOK, QueuedTasks, Outcomes
<1>2. ASSUME cur # NoReaction
      PROVE  /\ cur \in Reactions /\ cur.kind \in Ways
             /\ ~PassesOn(cur.kind, run.outcome) /\ Linked(run.on, cur)'
             /\ \A p \in Promises, r \in Reactions : Owes(p, r)' => r.next # cur.next
  <2>1. run.on \in Promises /\ Linked(run.on, cur)
    BY <1>2 DEF RunInv
  <2>2. Linked(run.on, cur)'
    <3> DEFINE p == run.on
               r == cur
    <3>1. \A m \in Promises : \A s : Linked(m, s) /\ (s.next \in Promises => Untouched(s.next)) => Linked(m, s)'
      BY LinkedStays DEF Untouched
    <3>2. \A m, s : m = run' .on /\ s = cur' /\ Linked(m, s)' => Linked(run.on, cur)'
      OBVIOUS
    <3> QED BY <1>2, <2>1, <3>1, <3>2
  <2> QED BY <1>2, <2>2 DEF RunInv
<1> QED BY <1>1, <1>2 DEF RunInv

LEMMA RunIdle == run' = NoRun /\ cur' = NoReaction /\ pc' # "run" => RunInv'
BY PromisesAssumption DEF RunInv, NoRun, Deliver, Task

\* No promise is new to a step, save one that waits for a first settlement.
LEMMA FreshKept ==
  ASSUME FreshInv,
         \A p \in Promises :
           \/ state'[p] \notin {"unused", "pending"}
           \/ /\ state'[p] = state[p] /\ ran'[p] = ran[p]
              /\ reactions'[p] = reactions[p] /\ attached'[p] = attached[p]
           \/ /\ state'[p] = "pending" /\ ran'[p] = 0 /\ Len(reactions'[p]) = attached'[p]
              /\ \A i \in DOMAIN reactions'[p] : reactions'[p][i].nth = i,
         \A p \in Promises : state'[p] = "unused" =>
           /\ parent'[p] = parent[p]
           /\ p \in handled' \cup consumed' \cup own' \cup Adopters' =>
                p \in handled \cup consumed \cup own \cup Adopters
           /\ \A q \in Promises :
                /\ <<p, q>> \in flows' => <<p, q>> \in flows
                /\ <<q, p>> \in flows' => <<q, p>> \in flows
                /\ parent'[q] = p => parent[q] = p
  PROVE  FreshInv'
<1> SUFFICES ASSUME NEW p \in Promises
             PROVE  /\ state'[p] \in {"unused", "pending"} => ran'[p] = 0
                    /\ state'[p] = "pending" =>
                         /\ Len(reactions'[p]) = attached'[p]
                         /\ \A i \in DOMAIN reactions'[p] : reactions'[p][i].nth = i
                    /\ state'[p] = "unused" =>
                         /\ reactions'[p] = <<>> /\ attached'[p] = 0 /\ parent'[p] = None
                         /\ p \notin handled' \cup consumed' \cup own' \cup Adopters'
                         /\ \A q \in Promises :
                              <<p, q>> \notin flows' /\ <<q, p>> \notin flows' /\ parent'[q] # p
  BY DEF FreshInv
<1>1. CASE state'[p] \notin {"unused", "pending"}
  BY <1>1
<1>2. CASE /\ state'[p] = state[p] /\ ran'[p] = ran[p]
           /\ reactions'[p] = reactions[p] /\ attached'[p] = attached[p]
  BY <1>2 DEF FreshInv
<1>3. CASE /\ state'[p] = "pending" /\ ran'[p] = 0 /\ Len(reactions'[p]) = attached'[p]
           /\ \A i \in DOMAIN reactions'[p] : reactions'[p][i].nth = i
  BY <1>3
<1> QED BY <1>1, <1>2, <1>3

LEMMA FreshEngaged ==
  ASSUME PromisesTypeOK, FreshInv, NEW p \in Promises, state[p] = "pending",
         NEW x \in Reactions, x.nth = attached[p] + 1
  PROVE  /\ Len(Append(reactions[p], x)) = attached[p] + 1
         /\ \A i \in DOMAIN Append(reactions[p], x) : Append(reactions[p], x)[i].nth = i
<1>1. reactions[p] \in Seq(Reactions) /\ Len(reactions[p]) = attached[p]
      /\ \A i \in DOMAIN reactions[p] : reactions[p][i].nth = i
  BY DEF PromisesTypeOK, FreshInv
<1>2. Len(Append(reactions[p], x)) = Len(reactions[p]) + 1
  BY <1>1
<1> QED BY <1>1, <1>2, Appended

\* Its own delivery follows all that run or wait when a promise settles.
LEMMA SettleOrder ==
  ASSUME PromisesTypeOK, OrderInv, TaskInv, RunInv, FreshInv, NEW n \in Promises,
         state[n] = "pending", NEW o \in Outcomes, NEW c \in BOOLEAN
  PROVE  /\ Ordered(Append(micro, Deliver(n, reactions[n], o, c)), run)
         /\ \A f : Ordered(micro, f) /\ f.on = run.on =>
              Ordered(Append(micro, Deliver(n, reactions[n], o, c)), f)
<1> DEFINE t == Deliver(n, reactions[n], o, c)
<1>1. t \in QueuedTasks /\ t.on = n /\ t.left = reactions[n]
  BY DEF Deliver, Task, QueuedTasks, PromisesTypeOK
<1>2. Rises(t.left)
  <2>1. \A i \in DOMAIN reactions[n] : reactions[n][i].nth = i
    BY DEF FreshInv
  <2> QED BY <1>1, <2>1 DEF Rises
<1>3. run.on # n
  BY DEF RunInv, PromisesTypeOK, QueuedTasks, Outcomes
<1>4. \A k \in DOMAIN micro : micro[k].on # n
  BY DEF TaskInv, Sound, Settled
<1>5. micro \in Seq(QueuedTasks)
  BY DEF PromisesTypeOK
<1> HIDE DEF t
<1>6. \A f : Ordered(micro, f) /\ f.on = run.on => Ordered(Append(micro, t), f)
  BY <1>1, <1>2, <1>3, <1>4, <1>5, OrderAppended
<1> QED BY <1>6 DEF OrderInv, t

LEMMA SettleSound ==
  ASSUME PromisesTypeOK, NEW n \in Promises, NEW o \in Outcomes, NEW c \in BOOLEAN,
         state' = [state EXCEPT ![n] = o], c => n \in own' /\ o = "rejected",
         NEW t, t = Deliver(n, reactions[n], o, c)
  PROVE  Sound(t)'
<1>1. t.do = "deliver" /\ t.on = n /\ t.outcome = o /\ t.check = c
  BY DEF Deliver, Task
<1>2. state'[n] = o
  BY DEF PromisesTypeOK
<1> QED BY <1>1, <1>2 DEF Sound, Settled, Outcomes


-------------------------------------------------------------------------------
\* The steps of the program.
LEMMA ConstructStep ==
  ASSUME IInv, NEW p \in Promises, Construct(p), PromisesTypeOK'
  PROVE  IInv'
<1>1. /\ PromisesTypeOK /\ OwedInv /\ OrderInv /\ TaskInv /\ RunInv /\ FreshInv
      /\ LinkInv /\ HandledInv /\ JudgeInv /\ MarkInv
  BY DEF IInv
<1>2. /\ state[p] = "unused" /\ state' = [state EXCEPT ![p] = "pending"] /\ own' = own \cup {p}
      /\ reactions' = reactions /\ parent' = parent /\ handled' = handled /\ checked' = checked
      /\ reported' = reported /\ micro' = micro /\ macro' = macro /\ run' = run /\ cur' = cur
      /\ pc' = pc /\ attached' = attached /\ ran' = ran /\ consumed' = consumed
      /\ flows' = flows /\ joined' = joined
  BY DEF Construct, marks, history
<1>3. \A x \in Promises : state'[x] = IF x = p THEN "pending" ELSE state[x]
  BY <1>1, <1>2 DEF PromisesTypeOK
<1>4. Grows /\ Adopters' = Adopters
  BY <1>2, <1>3 DEF Grows, Adopters
<1>5. ASSUME NEW n \in Promises, n \notin own, state[n] = "pending"
      PROVE  Untouched(n)
  BY <1>2, <1>3, <1>4, <1>5 DEF Untouched
<1>6. \A q \in Promises : \A r : Owes(q, r)' <=> Owes(q, r)
  <2>1. ASSUME NEW r PROVE ~Waits(p, r)' /\ ~Waits(p, r)
    <3>1. reactions'[p] = <<>>
      BY <1>1, <1>2 DEF FreshInv
    <3> QED BY <1>2, <3>1, HoldsNothing DEF Waits
  <2> QED BY <1>2, <1>3, <2>1 DEF Owes, Waits
<1>7. OwedInv'
  <2>1. ASSUME NEW q \in Promises, NEW r \in Reactions, Owes(q, r), r.next \in Promises
        PROVE  Untouched(r.next)
    <3>1. Linked(q, r)
      BY <1>1, <2>1 DEF OwedInv
    <3>2. r.next \notin own /\ state[r.next] = "pending"
      BY <2>1, <3>1, PromisesAssumption DEF Linked
    <3> QED BY <1>5, <2>1, <3>2
  <2> QED BY <1>1, <1>2, <1>4, <1>6, <2>1, OwedKept
<1>8. OrderInv' /\ TaskInv'
  BY <1>1, <1>2, <1>4, TaskKept DEF OrderInv
<1>9. RunInv'
  <2>1. cur # NoReaction => Untouched(cur.next)
    BY <1>1, <1>5, CallbackLeads
  <2> QED BY <1>1, <1>2, <1>4, <1>6, <2>1, RunKept
<1>10. FreshInv'
  <2>1. Len(reactions'[p]) = attached'[p] /\ ran'[p] = 0 /\ reactions'[p] = <<>>
    BY <1>1, <1>2 DEF FreshInv
  <2> QED BY <1>1, <1>2, <1>3, <1>4, <2>1, FreshKept
<1>11. LinkInv'
  <2>1. p \notin Adopters /\ parent[p] = None
    BY <1>1, <1>2 DEF FreshInv
  <2>2. own' \cap Adopters' = {}
    BY <1>1, <1>2, <1>4, <2>1 DEF LinkInv
  <2> QED BY <1>1, <1>2, <1>3, <1>4, <2>1, <2>2, LinksStay
<1>12. HandledInv' /\ MarkInv'
  BY <1>1, <1>2, <1>4, HandledKept, MarksKept
<1>13. JudgeInv'
  <2>1. \A q : Checking(q) => Checking(q)'
    BY <1>2 DEF Checking
  <2>2. \A q : Rejecting(q) => Rejecting(q)'
    BY <1>2 DEF Rejecting
  <2>3. own \subseteq Promises /\ checked' \subseteq own'
    BY <1>1, <1>2 DEF PromisesTypeOK, JudgeInv
  <2>4. \A q \in own' : state'[q] = "rejected" => q \in own /\ state[q] = "rejected"
    BY <1>2, <1>3, <2>3
  <2> QED BY <1>1, <1>2, <1>4, <2>1, <2>2, <2>3, <2>4, JudgeKept
<1> QED BY <1>7, <1>8, <1>9, <1>10, <1>11, <1>12, <1>13 DEF IInv


LEMMA OwedLeads ==
  ASSUME OwedInv, NEW q \in Promises, NEW r \in Reactions, Owes(q, r), r.next \in Promises
  PROVE  r.next \notin own /\ state[r.next] = "pending" /\ r.kind # "await"
<1>1. Linked(q, r)
  BY DEF OwedInv
<1> QED BY <1>1, PromisesAssumption DEF Linked

LEMMA SettleStep ==
  ASSUME IInv, NEW p \in Promises, NEW o \in Outcomes, Settle(p, o), PromisesTypeOK'
  PROVE  IInv'
<1>1. /\ PromisesTypeOK /\ OwedInv /\ OrderInv /\ TaskInv /\ RunInv /\ FreshInv
      /\ LinkInv /\ HandledInv /\ JudgeInv /\ MarkInv
  BY DEF IInv
<1> DEFINE c == (o = "rejected")
           t == Deliver(p, reactions[p], o, c)
<1>2. /\ p \in own /\ state[p] = "pending" /\ state' = [state EXCEPT ![p] = o]
      /\ micro' = Append(micro, t) /\ c \in BOOLEAN
      /\ reactions' = reactions /\ parent' = parent /\ handled' = handled /\ checked' = checked
      /\ reported' = reported /\ own' = own /\ macro' = macro /\ run' = run /\ cur' = cur
      /\ pc' = pc /\ attached' = attached /\ ran' = ran /\ consumed' = consumed
      /\ flows' = flows /\ joined' = joined
  BY DEF Settle, SettleOwn, marks, history
<1>3. \A x \in Promises : state'[x] = IF x = p THEN o ELSE state[x]
  BY <1>1, <1>2 DEF PromisesTypeOK
<1>4. Grows /\ Adopters' = Adopters
  BY <1>2, <1>3 DEF Grows, Adopters
<1>5. ASSUME NEW n \in Promises, n \notin own, state[n] = "pending"
      PROVE  Untouched(n)
  BY <1>2, <1>3, <1>4, <1>5 DEF Untouched
<1>6. t \in QueuedTasks /\ \A q \in Promises : \A r : Owes(q, r)' <=> Owes(q, r)
  <2>1. t \in QueuedTasks /\ \A q \in Promises : \A r : Later(q, r)' <=> Later(q, r)
    <3> HIDE DEF c
    <3> QED BY <1>1, <1>2, SettleLater
  <2>2. \A q \in Promises : \A r : Owes(q, r) <=> Later(q, r) \/ (run.on = q /\ Holds(run.left, r))
    BY DEF Owes, Later
  <2>3. \A q \in Promises : \A r : Owes(q, r)' <=> Later(q, r)' \/ (run.on = q /\ Holds(run.left, r))
    BY <1>2 DEF Owes, Later
  <2> QED BY <2>1, <2>2, <2>3
<1>7. t.do = "deliver" /\ t.on = p /\ t.check = c
  BY DEF Deliver, Task
<1>8. \A s : s = t => Sound(s)'
  <2>1. c => p \in own' /\ o = "rejected"
    BY <1>2
  <2> HIDE DEF c
  <2> QED BY <1>1, <1>2, <2>1, SettleSound
<1>9. OrderInv'
  <2>1. Ordered(Append(micro, t), run)
    <3> HIDE DEF c
    <3> QED BY <1>1, <1>2, SettleOrder
  <2> QED BY <1>2, <2>1 DEF OrderInv
<1> HIDE DEF t
<1>10. OwedInv'
  <2>1. ASSUME NEW q \in Promises, NEW r \in Reactions, Owes(q, r), r.next \in Promises
        PROVE  Untouched(r.next)
    BY <1>1, <1>5, <2>1, OwedLeads
  <2> QED BY <1>1, <1>2, <1>4, <1>6, <2>1, OwedKept
<1>11. TaskInv'
  BY <1>1, <1>2, <1>4, <1>6, <1>8, TaskKept
<1>12. RunInv'
  <2>1. cur # NoReaction => Untouched(cur.next)
    BY <1>1, <1>5, CallbackLeads
  <2> QED BY <1>1, <1>2, <1>4, <1>6, <2>1, RunKept
<1>13. FreshInv'
  <2>1. state'[p] \notin {"unused", "pending"}
    BY <1>2, <1>3 DEF Outcomes
  <2> QED BY <1>1, <1>2, <1>3, <1>4, <2>1, FreshKept
<1>14. LinkInv'
  <2>1. parent[p] = None \/ <<p, parent[p]>> \in joined
    BY <1>1, <1>2 DEF LinkInv
  <2> QED BY <1>1, <1>2, <1>3, <1>4, <2>1, LinksStay DEF LinkInv
<1>15. HandledInv' /\ MarkInv'
  BY <1>1, <1>2, <1>4, HandledKept, MarksKept
<1>16. JudgeInv'
  <2>1. ASSUME NEW q \in own, state'[q] = "rejected"
        PROVE  state[q] = "rejected" \/ Rejecting(q)'
    <3>1. CASE q = p
      <4>1. c
        BY <1>1, <1>2, <1>3, <2>1, <3>1 DEF PromisesTypeOK
      <4>2. IsRejection(t, p)
        BY <1>7, <4>1 DEF IsRejection
      <4>3. Rejected(p)'
        BY <1>1, <1>2, <1>6, <4>2, JudgeAppended
      <4> QED BY <3>1, <4>3 DEF Rejecting, Rejected
    <3>2. CASE q # p
      BY <1>1, <1>3, <2>1, <3>2 DEF PromisesTypeOK
    <3> QED BY <3>1, <3>2
  <2> QED BY <1>1, <1>2, <1>4, <1>6, <2>1, JudgeOnward
<1> QED BY <1>9, <1>10, <1>11, <1>12, <1>13, <1>14, <1>15, <1>16 DEF IInv

LEMMA EndCodeStep ==
  ASSUME IInv, EndCode, PromisesTypeOK'
  PROVE  IInv'
<1>1. /\ OwedInv /\ OrderInv /\ TaskInv /\ RunInv /\ FreshInv
      /\ LinkInv /\ HandledInv /\ JudgeInv /\ MarkInv
  BY DEF IInv
<1>2. /\ pc = "code" /\ cur = NoReaction /\ pc' = "loop"
      /\ state' = state /\ reactions' = reactions /\ parent' = parent /\ handled' = handled
      /\ checked' = checked /\ reported' = reported /\ own' = own /\ micro' = micro
      /\ macro' = macro /\ run' = run /\ cur' = cur /\ attached' = attached /\ ran' = ran
      /\ consumed' = consumed /\ flows' = flows /\ joined' = joined
  BY DEF EndCode, InCode, marks, history
<1>3. /\ \A p, r : Owes(p, r)' <=> Owes(p, r)
      /\ \A p, r : Linked(p, r)' <=> Linked(p, r)
  BY <1>2 DEF Owes, Waits, Linked, Adopters
<1>4. OwedInv' /\ OrderInv'
  BY <1>1, <1>2, <1>3 DEF OwedInv, OrderInv
<1>5. TaskInv'
  <2>1. \A t : Sound(t)' <=> Sound(t)
    BY <1>2 DEF Sound, Settled
  <2> QED BY <1>1, <1>2, <2>1 DEF TaskInv
<1>6. RunInv'
  BY <1>1, <1>2, RunIdle DEF RunInv
<1>7. FreshInv' /\ LinkInv'
  BY <1>1, <1>2 DEF FreshInv, LinkInv, Adopters, Done
<1>8. \A p : HandledDownstream(p)' <=> HandledDownstream(p)
  BY <1>2 DEF HandledDownstream, Downstream, Follows
<1>9. HandledInv' /\ MarkInv'
  BY <1>1, <1>2, <1>8 DEF HandledInv, Excused, Adopters, MarkInv
<1>10. JudgeInv'
  BY <1>1, <1>2, <1>8 DEF JudgeInv, Judged, Checking, Rejecting
<1> QED BY <1>4, <1>5, <1>6, <1>7, <1>9, <1>10 DEF IInv


\* A reaction that joins those of p is the last of them.
LEMMA EngageOrder ==
  ASSUME PromisesTypeOK, OwedInv, OrderInv, NEW p \in Promises, state[p] # "unused",
         NEW x \in Reactions, x.nth = attached[p] + 1, Engage(p, x), run' = run
  PROVE  OrderInv'
<1>1. CASE state[p] = "pending"
  BY <1>1 DEF Engage, OrderInv
<1>2. CASE state[p] # "pending"
  <2> DEFINE t == Deliver(p, <<x>>, state[p], FALSE)
  <2>1. t \in QueuedTasks /\ t.on = p /\ t.left = <<x>>
    BY <1>2 DEF Deliver, Task, QueuedTasks, PromisesTypeOK, Outcomes
  <2>2. micro' = Append(micro, t) /\ micro \in Seq(QueuedTasks) /\ run \in QueuedTasks
    BY <1>2 DEF Engage, PromisesTypeOK
  <2>3. \A r : Owes(p, r) => r.nth < x.nth
    <3>1. \A r : Owes(p, r) => r \in Reactions
      BY HeldTyped
    <3>2. \A r \in Reactions : Owes(p, r) => r.nth <= attached[p] /\ r.nth \in Nat
      BY OwedTypes DEF OwedInv
    <3> QED BY <3>1, <3>2, OwedTypes
  <2>4. \A rs : (\A r : Holds(rs, r) => Owes(p, r)) => Precedes(rs, <<x>>)
    <3> SUFFICES ASSUME NEW rs, \A r : Holds(rs, r) => Owes(p, r),
                        NEW i \in DOMAIN rs, NEW j \in DOMAIN <<x>>
                 PROVE  rs[i].nth < <<x>>[j].nth
      BY DEF Precedes
    <3>1. <<x>>[j] = x
      OBVIOUS
    <3> QED BY <2>3, <3>1 DEF Holds
  <2>5. run.on = p => Precedes(run.left, t.left)
    BY <2>1, <2>4 DEF Owes
  <2>6. \A k \in DOMAIN micro : micro[k].on = p => Precedes(micro[k].left, t.left)
    BY <2>1, <2>4 DEF Owes, Queued
  <2>7. Rises(t.left)
    <3>1. \A i \in DOMAIN <<x>> : i = 1
      OBVIOUS
    <3>2. Rises(<<x>>)
      BY <3>1 DEF Rises
    <3> QED BY <2>1, <3>2
  <2> HIDE DEF t
  <2> QED BY <2>1, <2>2, <2>5, <2>6, <2>7, OrderAppended DEF OrderInv
<1> QED BY <1>1, <1>2

LEMMA EngageTasks ==
  ASSUME PromisesTypeOK, TaskInv, Grows, own' = own, macro' = macro,
         NEW p \in Promises, state[p] # "unused", NEW x \in Reactions, Engage(p, x)
  PROVE  /\ TaskInv'
         /\ micro' = micro \/ \E t \in QueuedTasks : micro' = Append(micro, t)
<1>1. CASE state[p] = "pending"
  BY <1>1, TaskKept DEF Engage
<1>2. CASE state[p] # "pending"
  <2> DEFINE t == Deliver(p, <<x>>, state[p], FALSE)
  <2>1. t \in QueuedTasks /\ t.do = "deliver" /\ t.on = p /\ t.outcome = state[p] /\ ~t.check
    BY <1>2 DEF Deliver, Task, QueuedTasks, PromisesTypeOK, Outcomes
  <2>2. micro' = Append(micro, t)
    BY <1>2 DEF Engage
  <2>3. \A s : s = t => Sound(s)
    BY <1>2, <2>1 DEF Sound, Settled, PromisesTypeOK, Outcomes
  <2> HIDE DEF t
  <2> QED BY <2>1, <2>2, <2>3, SoundStays, TaskKept
<1> QED BY <1>1, <1>2

LEMMA AttachStep ==
  ASSUME IInv, NEW p \in Promises, NEW n \in Promises, NEW k \in Ways, Attach(p, k, n),
         PromisesTypeOK'
  PROVE  IInv'
<1>1. /\ PromisesTypeOK /\ OwedInv /\ OrderInv /\ TaskInv /\ RunInv /\ FreshInv
      /\ LinkInv /\ HandledInv /\ JudgeInv /\ MarkInv
  BY DEF IInv
<1> DEFINE heard == k \in {"both", "catch"}
<1>0. PICK x \in Reactions : x = Reaction(k, n, attached[p] + 1)
  BY <1>1, AttachedTyped, ReactionTyped DEF Attach, Kinds, Ways
<1>2. /\ state[p] # "unused" /\ state[n] = "unused" /\ attached[p] < MaxAttached
      /\ state' = [state EXCEPT ![n] = "pending"] /\ parent' = [parent EXCEPT ![n] = p]
      /\ handled' = IF heard THEN Marked(p) ELSE handled
      /\ Engage(p, x) /\ attached' = [attached EXCEPT ![p] = @ + 1]
      /\ consumed' = IF heard THEN consumed \cup {p} ELSE consumed
      /\ flows' = flows \cup {<<p, n>>}
      /\ checked' = checked /\ reported' = reported /\ own' = own /\ macro' = macro
      /\ run' = run /\ cur' = cur /\ pc' = pc /\ ran' = ran /\ joined' = joined
  BY <1>0 DEF Attach
<1>3. /\ \A y \in Promises : state'[y] = IF y = n THEN "pending" ELSE state[y]
      /\ \A y \in Promises : parent'[y] = IF y = n THEN p ELSE parent[y]
      /\ p # n
  BY <1>1, <1>2 DEF PromisesTypeOK
<1>4. Grows /\ Adopters' = Adopters
  BY <1>2, <1>3 DEF Grows, Adopters
<1>5. ASSUME NEW m \in Promises, m \notin own, state[m] = "pending"
      PROVE  Untouched(m)
  BY <1>2, <1>3, <1>4, <1>5 DEF Untouched
<1>6. /\ reactions[n] = <<>> /\ attached[n] = 0 /\ parent[n] = None /\ ran[n] = 0
      /\ n \notin handled \cup consumed \cup own \cup Adopters
      /\ \A q \in Promises : <<n, q>> \notin flows /\ <<q, n>> \notin flows /\ parent[q] # n
  BY <1>1, <1>2 DEF FreshInv
<1>7. x.kind = k /\ x.next = n /\ x.nth = attached[p] + 1
  BY <1>0 DEF Reaction
<1>8. \A q \in Promises : \A r : Owes(q, r)' <=> Owes(q, r) \/ (q = p /\ r = x)
  <2>1. \A q \in Promises : \A r : Later(q, r)' <=> Later(q, r) \/ (q = p /\ r = x)
    BY <1>1, <1>2, <1>3, <1>7, EngageLater
  <2>2. \A q \in Promises : \A r : Owes(q, r) <=> Later(q, r) \/ (run.on = q /\ Holds(run.left, r))
    BY DEF Owes, Later
  <2>3. \A q \in Promises : \A r : Owes(q, r)' <=> Later(q, r)' \/ (run.on = q /\ Holds(run.left, r))
    BY <1>2 DEF Owes, Later
  <2> QED BY <2>1, <2>2, <2>3
<1>9. \A q \in Promises, r \in Reactions : Owes(q, r) => r.next # n
  BY <1>1, <1>2, OwedLeads
<1>10. OwedInv'
  <2>1. Linked(p, x)'
    <3>1. x.kind \in Kinds /\ state'[p] # "unused" /\ x.kind # "await" /\ x.kind # "adopt"
      BY <1>2, <1>3, <1>7 DEF Kinds, Ways
    <3>2. x.next \in Promises \ own' /\ state'[x.next] = "pending" /\ <<p, x.next>> \in flows'
      BY <1>2, <1>3, <1>6, <1>7
    <3>3. x.next \notin Adopters' /\ parent'[x.next] = p
      BY <1>3, <1>4, <1>6, <1>7
    <3>4. x.kind \in {"both", "catch"} => p \in consumed'
      BY <1>2, <1>7
    <3> QED BY <3>1, <3>2, <3>3, <3>4 DEF Linked
  <2>2. ASSUME NEW q \in Promises, NEW r \in Reactions, Owes(q, r), r.next \in Promises
        PROVE  Untouched(r.next)
    BY <1>1, <1>5, <2>2, OwedLeads
  <2> QED BY <1>1, <1>2, <1>4, <1>7, <1>8, <1>9, <2>1, <2>2, OwedAdded
<1>11. OrderInv' /\ TaskInv'
  BY <1>1, <1>2, <1>4, <1>7, EngageOrder, EngageTasks
<1>12. RunInv'
  <2>1. cur # NoReaction => Untouched(cur.next) /\ cur.next # n
    BY <1>1, <1>2, <1>5, CallbackLeads
  <2>2. cur # NoReaction =>
          \A q \in Promises, r \in Reactions : Owes(q, r)' => Owes(q, r) \/ r.next # cur.next
    BY <1>7, <1>8, <2>1
  <2> QED BY <1>1, <1>2, <1>4, <2>1, <2>2, RunKept
<1>13. FreshInv'
  <2>1. \A y \in Promises \ {p} : reactions'[y] = reactions[y] /\ attached'[y] = attached[y]
    <3>1. reactions' = reactions \/ reactions' = [reactions EXCEPT ![p] = Append(@, x)]
      BY <1>2 DEF Engage
    <3> QED BY <1>1, <1>2, <3>1 DEF PromisesTypeOK
  <2>2. state[p] = "pending" =>
          /\ state'[p] = "pending" /\ ran'[p] = 0 /\ Len(reactions'[p]) = attached'[p]
          /\ \A i \in DOMAIN reactions'[p] : reactions'[p][i].nth = i
    <3> SUFFICES ASSUME state[p] = "pending"
                 PROVE  /\ state'[p] = "pending" /\ ran'[p] = 0 /\ Len(reactions'[p]) = attached'[p]
                        /\ \A i \in DOMAIN reactions'[p] : reactions'[p][i].nth = i
      OBVIOUS
    <3>1. reactions'[p] = Append(reactions[p], x) /\ attached'[p] = attached[p] + 1
      BY <1>1, <1>2 DEF Engage, PromisesTypeOK
    <3>2. state'[p] = "pending" /\ ran'[p] = 0
      BY <1>1, <1>2, <1>3 DEF FreshInv
    <3> QED BY <1>1, <1>7, <3>1, <3>2, FreshEngaged
  <2>3. state'[n] = "pending" /\ ran'[n] = 0 /\ reactions'[n] = <<>> /\ attached'[n] = 0
    BY <1>2, <1>3, <1>6, <2>1
  <2>4. state[p] # "pending" => state'[p] \notin {"unused", "pending"}
    BY <1>1, <1>2, <1>3 DEF PromisesTypeOK, Outcomes
  <2>5. \A y \in Promises :
           \/ state'[y] \notin {"unused", "pending"}
           \/ /\ state'[y] = state[y] /\ ran'[y] = ran[y]
              /\ reactions'[y] = reactions[y] /\ attached'[y] = attached[y]
           \/ /\ state'[y] = "pending" /\ ran'[y] = 0 /\ Len(reactions'[y]) = attached'[y]
              /\ \A i \in DOMAIN reactions'[y] : reactions'[y][i].nth = i
    <3> TAKE y \in Promises
    <3>1. CASE y = p
      BY <2>2, <2>4, <3>1
    <3>2. CASE y = n
      BY <2>3, <3>2
    <3>3. CASE y # p /\ y # n
      BY <1>2, <1>3, <2>1, <3>3
    <3> QED BY <3>1, <3>2, <3>3
  <2>6. \A y \in Promises : y \in Marked(p) => y \in handled \/ state[y] # "unused"
    BY <1>1, <1>2, MarkedUsed
  <2>7. ASSUME NEW y \in Promises, state'[y] = "unused"
        PROVE  /\ parent'[y] = parent[y]
               /\ y \in handled' \cup consumed' \cup own' \cup Adopters' =>
                    y \in handled \cup consumed \cup own \cup Adopters
               /\ \A q \in Promises :
                    /\ <<y, q>> \in flows' => <<y, q>> \in flows
                    /\ <<q, y>> \in flows' => <<q, y>> \in flows
                    /\ parent'[q] = y => parent[q] = y
    <3>1. y # n /\ y # p /\ state[y] = "unused"
      BY <1>2, <1>3, <2>7
    <3>2. y \in handled' => y \in handled
      BY <1>2, <2>6, <3>1
    <3> QED BY <1>2, <1>3, <1>4, <3>1, <3>2
  <2> QED BY <1>1, <2>5, <2>7, FreshKept
<1>14. LinkInv'
  <2>1. n \notin own' \cup Adopters' /\ state'[n] # "fulfilled" /\ <<parent'[n], n>> \in flows'
    BY <1>2, <1>3, <1>4, <1>6
  <2>2. own' \cap Adopters' = {}
    BY <1>1, <1>2, <1>4 DEF LinkInv
  <2> QED BY <1>1, <1>2, <1>3, <1>4, <2>1, <2>2, LinksStay
<1>15. HandledInv'
  <2>1. CASE heard
    <3>1. p \in consumed' /\ handled' = Marked(p)
      BY <1>2, <2>1
    <3>2. \A q \in Promises : parent[q] = None \/ parent'[q] = parent[q]
      BY <1>3, <1>6
    <3> QED BY <1>1, <1>4, <1>14, <3>1, <3>2, MarkedExcused
  <2>2. CASE ~heard
    BY <1>1, <1>2, <1>4, <2>2, HandledKept
  <2> QED BY <2>1, <2>2
<1>16. JudgeInv'
  <2>1. \A q \in own : state'[q] = "rejected" => state[q] = "rejected"
    BY <1>1, <1>3 DEF PromisesTypeOK
  <2>2. micro' = micro \/ \E t \in QueuedTasks : micro' = Append(micro, t)
    BY <1>1, <1>2, <1>4, EngageTasks
  <2> QED BY <1>1, <1>2, <1>4, <2>1, <2>2, JudgeOnward
<1>17. MarkInv'
  <2>1. ASSUME joined = {}, NEW f \in flows' PROVE parent'[f[2]] = f[1]
    <3>1. CASE f = <<p, n>>
      BY <1>3, <3>1
    <3>2. CASE f \in flows
      <4>1. PICK a \in Promises, b \in Promises : f = <<a, b>>
        BY <1>1, <3>2 DEF PromisesTypeOK
      <4>2. b # n /\ parent[b] = a
        BY <1>1, <1>6, <2>1, <3>2, <4>1 DEF MarkInv
      <4> QED BY <1>3, <4>1, <4>2
    <3> QED BY <1>2, <2>1, <3>1, <3>2
  <2>2. CASE heard
    <3>1. handled' = Marked(p) /\ consumed' = consumed \cup {p}
      BY <1>2, <2>2
    <3>2. p \in Marked(p) /\ Marked(p) \subseteq Promises
      BY <1>1, MarkedIsLeast
    <3>3. \A y \in Marked(p) : parent'[y] = parent[y] \/ parent'[y] \in Marked(p)
      BY <1>3, <3>2
    <3> QED BY <1>1, <1>2, <1>4, <2>1, <3>1, <3>3, MarksGrow
  <2>3. CASE ~heard
    <3>1. handled' = handled /\ consumed' = consumed
      BY <1>2, <2>3
    <3>2. \A y \in handled : y \in Promises /\ parent'[y] = parent[y]
      BY <1>1, <1>3, <1>6 DEF PromisesTypeOK
    <3>3. \A c \in consumed : c \in handled \/ state'[c] = "fulfilled"
      <4> TAKE c \in consumed
      <4>1. c \in Promises /\ (c \in handled \/ state[c] = "fulfilled")
        BY <1>1 DEF MarkInv, PromisesTypeOK
      <4> QED BY <1>4, <4>1 DEF Grows
    <3> QED BY <1>1, <1>2, <2>1, <3>1, <3>2, <3>3 DEF MarkInv
  <2> QED BY <2>2, <2>3
<1> QED BY <1>10, <1>11, <1>12, <1>13, <1>14, <1>15, <1>16, <1>17 DEF IInv


LEMMA AwaitStep ==
  ASSUME IInv, NEW p \in Promises, AwaitPromise(p), PromisesTypeOK'
  PROVE  IInv'
<1>1. /\ PromisesTypeOK /\ OwedInv /\ OrderInv /\ TaskInv /\ RunInv /\ FreshInv
      /\ LinkInv /\ HandledInv /\ JudgeInv /\ MarkInv
  BY DEF IInv
<1>0. PICK x \in Reactions : x = Reaction("await", None, attached[p] + 1)
  BY <1>1, AttachedTyped, ReactionTyped DEF AwaitPromise, Kinds
<1>2. /\ state[p] # "unused" /\ state' = state /\ parent' = parent
      /\ handled' = IF state[p] = "fulfilled" THEN handled ELSE Marked(p)
      /\ consumed' = consumed \cup {p} /\ flows' = flows
      /\ checked' = checked /\ reported' = reported /\ own' = own /\ macro' = macro
      /\ run' = run /\ cur' = cur /\ pc' = pc /\ ran' = ran /\ joined' = joined
  BY DEF AwaitPromise
<1>3. ASSUME NEW y \in Promises, state'[y] = "unused"
      PROVE  /\ parent'[y] = parent[y]
             /\ y \in handled' \cup consumed' \cup own' \cup Adopters' =>
                  y \in handled \cup consumed \cup own \cup Adopters
             /\ \A q \in Promises :
                  /\ <<y, q>> \in flows' => <<y, q>> \in flows
                  /\ <<q, y>> \in flows' => <<q, y>> \in flows
                  /\ parent'[q] = y => parent[q] = y
  <2>1. y # p /\ state[y] = "unused"
    BY <1>2, <1>3
  <2>2. y \in handled' => y \in handled
    BY <1>1, <1>2, <2>1, MarkedUsed
  <2> QED BY <1>2, <2>1, <2>2 DEF Adopters
<1>4. Grows /\ Adopters' = Adopters
  BY <1>2 DEF Grows, Adopters
<1>5. ASSUME NEW m \in Promises, m \notin own, state[m] = "pending"
      PROVE  Untouched(m)
  BY <1>2, <1>4, <1>5 DEF Untouched
<1>6. x.kind = "await" /\ x.next = None /\ x.nth = attached[p] + 1
  BY <1>0 DEF Reaction
<1>7. ASSUME NEW q \in Promises, NEW r \in Reactions, Owes(q, r), r.next \in Promises
      PROVE  Untouched(r.next)
  BY <1>1, <1>5, <1>7, OwedLeads
<1> DEFINE onward == micro' = micro \/ \E t \in QueuedTasks : micro' = Append(micro, t)
<1>8. ASSUME state[p] = "pending"
      PROVE  OwedInv' /\ OrderInv' /\ TaskInv' /\ RunInv' /\ FreshInv' /\ onward
  <2>1. /\ Engage(p, x) /\ attached' = [attached EXCEPT ![p] = @ + 1] /\ micro' = micro
        /\ reactions' = [reactions EXCEPT ![p] = Append(@, x)]
    BY <1>0, <1>8 DEF AwaitPromise, Engage
  <2>2. \A q \in Promises : \A r : Owes(q, r)' <=> Owes(q, r) \/ (q = p /\ r = x)
    <3>1. \A q \in Promises : \A r : Later(q, r)' <=> Later(q, r) \/ (q = p /\ r = x)
      BY <1>1, <1>2, <2>1, EngageLater
    <3>2. \A q \in Promises : \A r : Owes(q, r) <=> Later(q, r) \/ (run.on = q /\ Holds(run.left, r))
      BY DEF Owes, Later
    <3>3. \A q \in Promises : \A r : Owes(q, r)' <=> Later(q, r)' \/ (run.on = q /\ Holds(run.left, r))
      BY <1>2 DEF Owes, Later
    <3> QED BY <3>1, <3>2, <3>3
  <2>3. OwedInv'
    <3>1. Linked(p, x)'
      BY <1>2, <1>6 DEF Linked, Kinds, Ways
    <3> QED BY <1>1, <1>2, <1>4, <1>6, <1>7, <2>1, <2>2, <3>1, OwedAdded
  <2>4. OrderInv' /\ TaskInv'
    BY <1>1, <1>2, <1>4, <2>1, TaskKept DEF OrderInv
  <2>5. RunInv'
    <3>1. cur # NoReaction => Untouched(cur.next) /\ cur.next # None
      BY <1>1, <1>5, CallbackLeads, PromisesAssumption
    <3>2. cur # NoReaction =>
            \A q \in Promises, r \in Reactions : Owes(q, r)' => Owes(q, r) \/ r.next # cur.next
      BY <1>6, <2>2, <3>1
    <3> QED BY <1>1, <1>2, <1>4, <3>1, <3>2, RunKept
  <2>6. /\ reactions'[p] = Append(reactions[p], x) /\ attached'[p] = attached[p] + 1
        /\ \A y \in Promises \ {p} : reactions'[y] = reactions[y] /\ attached'[y] = attached[y]
    BY <1>1, <2>1 DEF PromisesTypeOK
  <2>7. /\ state'[p] = "pending" /\ ran'[p] = 0 /\ Len(reactions'[p]) = attached'[p]
        /\ \A i \in DOMAIN reactions'[p] : reactions'[p][i].nth = i
    <3>1. state'[p] = "pending" /\ ran'[p] = 0
      BY <1>1, <1>2, <1>8 DEF FreshInv
    <3> QED BY <1>1, <1>6, <1>8, <2>6, <3>1, FreshEngaged
  <2>8. FreshInv'
    BY <1>1, <1>2, <1>3, <2>6, <2>7, FreshKept
  <2> QED BY <2>1, <2>3, <2>4, <2>5, <2>8
<1>9. ASSUME state[p] # "pending"
      PROVE  OwedInv' /\ OrderInv' /\ TaskInv' /\ RunInv' /\ FreshInv' /\ onward
  <2>1. PICK t \in QueuedTasks : t = ResumeTask(p)
    BY TaskTypes
  <2>2. micro' = Append(micro, t) /\ reactions' = reactions /\ attached' = attached
    BY <1>9, <2>1 DEF AwaitPromise
  <2>3. t.do = "resume" /\ t.on = p /\ t.left = <<>> /\ ~t.check
    BY <2>1 DEF ResumeTask, Task
  <2>4. \A q \in Promises : \A r : Owes(q, r)' <=> Owes(q, r)
    <3>1. \A q, r : Queued(micro', q, r) <=> Queued(micro, q, r)
      BY <1>1, <2>2, <2>3, QueuedMore, HoldsNothing DEF PromisesTypeOK
    <3> QED BY <1>2, <2>2, <3>1 DEF Owes, Waits
  <2>5. OwedInv'
    BY <1>1, <1>2, <1>4, <1>7, <2>2, <2>4, OwedKept
  <2>6. OrderInv'
    <3>1. Rises(t.left) /\ \A rs : Precedes(rs, t.left)
      BY <2>3 DEF Rises, Precedes
    <3> QED BY <1>1, <1>2, <2>2, <3>1, OrderAppended DEF OrderInv, PromisesTypeOK
  <2>7. TaskInv'
    <3>1. Sound(t)'
      BY <1>1, <1>2, <1>9, <2>3 DEF Sound, Settled, PromisesTypeOK, Outcomes
    <3> QED BY <1>1, <1>2, <1>4, <2>2, <3>1, TaskKept
  <2>8. RunInv'
    <3>1. cur # NoReaction => Untouched(cur.next)
      BY <1>1, <1>5, CallbackLeads
    <3> QED BY <1>1, <1>2, <1>4, <2>4, <3>1, RunKept
  <2>9. FreshInv'
    BY <1>1, <1>2, <1>3, <2>2, FreshKept
  <2> QED BY <2>2, <2>5, <2>6, <2>7, <2>8, <2>9
<1>10. LinkInv'
  BY <1>1, <1>2, <1>4, LinksStay DEF LinkInv
<1>11. HandledInv'
  <2>1. CASE state[p] = "fulfilled"
    BY <1>1, <1>2, <1>4, <2>1, HandledKept
  <2>2. CASE state[p] # "fulfilled"
    BY <1>1, <1>2, <1>4, <1>10, <2>2, MarkedExcused
  <2> QED BY <2>1, <2>2
<1>12. JudgeInv'
  BY <1>1, <1>2, <1>4, <1>8, <1>9, JudgeOnward
<1>13. MarkInv'
  <2>1. joined = {} => \A f \in flows : parent[f[2]] = f[1]
    BY <1>1 DEF MarkInv
  <2>2. CASE state[p] = "fulfilled"
    BY <1>1, <1>2, <2>2 DEF MarkInv
  <2>3. CASE state[p] # "fulfilled"
    BY <1>1, <1>2, <1>4, <2>1, <2>3, MarksGrow
  <2> QED BY <2>2, <2>3
<1> QED BY <1>8, <1>9, <1>10, <1>11, <1>12, <1>13 DEF IInv


-------------------------------------------------------------------------------
\* The ends of a callback.
LEMMA SettleNextStep ==
  ASSUME IInv, EndCallback, NEW o \in Outcomes, SettleNext(cur.next, o),
         UNCHANGED <<reactions, parent, marks, own, macro, run, attached, ran, consumed>>,
         \/ flows' = flows /\ joined' = joined /\ (cur.kind = "finally" => o = run.outcome)
         \/ \E q \in Promises :
              /\ state[q] # "unused" /\ cur.kind # "finally"
              /\ flows' = flows \cup {<<q, cur.next>>} /\ joined' = joined \cup {<<q, cur.next>>},
         PromisesTypeOK'
  PROVE  IInv'
<1>1. /\ PromisesTypeOK /\ OwedInv /\ OrderInv /\ TaskInv /\ RunInv /\ FreshInv
      /\ LinkInv /\ HandledInv /\ JudgeInv /\ MarkInv
  BY DEF IInv
<1>0. PICK n \in Promises : n = cur.next
  BY <1>1, CallbackLeads DEF EndCallback
<1>2. /\ n \notin own /\ state[n] = "pending" /\ run.on \in Promises /\ run.on # n
      /\ n \notin Adopters /\ state[run.on] = run.outcome /\ run.outcome \in Outcomes
      /\ cur # NoReaction /\ Linked(run.on, cur) /\ ~PassesOn(cur.kind, run.outcome)
      /\ cur.kind \in Ways
      /\ \A p \in Promises, r \in Reactions : Owes(p, r) => r.next # n
  BY <1>0, <1>1, CallbackLeads DEF EndCallback, RunInv
<1>3. /\ state' = [state EXCEPT ![n] = o]
      /\ micro' = Append(micro, Deliver(n, reactions[n], o, FALSE))
      /\ reactions' = reactions /\ parent' = parent /\ handled' = handled /\ checked' = checked
      /\ reported' = reported /\ own' = own /\ macro' = macro /\ run' = run
      /\ attached' = attached /\ ran' = ran /\ consumed' = consumed
      /\ cur' = NoReaction /\ pc' = "run"
  BY <1>0 DEF SettleNext, EndCallback, marks
<1>4. \A x \in Promises : state'[x] = IF x = n THEN o ELSE state[x]
  BY <1>1, <1>3 DEF PromisesTypeOK
<1>5. flows \subseteq flows' /\ joined \subseteq joined'
  OBVIOUS
<1>6. Grows
  BY <1>2, <1>3, <1>4, <1>5 DEF Grows
<1>7. /\ Adopters' \subseteq Adopters \cup {n}
      /\ n \in Adopters' \/ o = "fulfilled" => Done(run.on)
  <2>1. CASE flows' = flows /\ joined' = joined /\ (cur.kind = "finally" => o = run.outcome)
    <3>1. Adopters' = Adopters
      BY <2>1 DEF Adopters
    <3>2. o = "fulfilled" => Done(run.on)
      BY <1>2, <2>1, CalledDone
    <3> QED BY <1>2, <3>1, <3>2
  <2>2. CASE \E q \in Promises :
              /\ state[q] # "unused" /\ cur.kind # "finally"
              /\ flows' = flows \cup {<<q, cur.next>>} /\ joined' = joined \cup {<<q, cur.next>>}
    <3>1. Adopters' \subseteq Adopters \cup {n}
      BY <1>0, <2>2 DEF Adopters
    <3>2. Done(run.on)
      BY <1>2, <2>2, CalledDone
    <3> QED BY <3>1, <3>2
  <2> QED BY <2>1, <2>2
<1>8. ASSUME NEW m \in Promises, m # n, m \notin own, state[m] = "pending"
      PROVE  Untouched(m)
  BY <1>3, <1>4, <1>7, <1>8 DEF Untouched
<1> DEFINE t == Deliver(n, reactions[n], o, FALSE)
<1>9. t \in QueuedTasks /\ \A q \in Promises : \A r : Owes(q, r)' <=> Owes(q, r)
  <2>1. t \in QueuedTasks /\ \A q \in Promises : \A r : Later(q, r)' <=> Later(q, r)
    BY <1>1, <1>2, <1>3, SettleLater
  <2>2. \A q \in Promises : \A r : Owes(q, r) <=> Later(q, r) \/ (run.on = q /\ Holds(run.left, r))
    BY DEF Owes, Later
  <2>3. \A q \in Promises : \A r : Owes(q, r)' <=> Later(q, r)' \/ (run.on = q /\ Holds(run.left, r))
    BY <1>3 DEF Owes, Later
  <2> QED BY <2>1, <2>2, <2>3
<1>10. OwedInv'
  <2>1. ASSUME NEW q \in Promises, NEW r \in Reactions, Owes(q, r), r.next \in Promises
        PROVE  Untouched(r.next)
    BY <1>1, <1>2, <1>8, <2>1, OwedLeads
  <2> QED BY <1>1, <1>3, <1>6, <1>9, <2>1, OwedKept
<1>11. OrderInv'
  BY <1>1, <1>2, <1>3, SettleOrder DEF OrderInv
<1>12. TaskInv'
  <2>1. \A s : s = t => Sound(s)'
    BY <1>1, <1>3, SettleSound
  <2> HIDE DEF t
  <2> QED BY <1>1, <1>3, <1>6, <1>9, <2>1, TaskKept DEF t
<1>13. RunInv'
  BY <1>1, <1>2, <1>3, <1>4 DEF RunInv
<1>14. FreshInv'
  <2>1. ASSUME NEW y \in Promises, state'[y] = "unused"
        PROVE  /\ y # n /\ state[y] = "unused"
               /\ \A q \in Promises :
                    /\ <<y, q>> \in flows' => <<y, q>> \in flows
                    /\ <<q, y>> \in flows' => <<q, y>> \in flows
    <3>1. y # n /\ state[y] = "unused"
      BY <1>4, <2>1 DEF Outcomes
    <3> QED BY <1>0, <3>1
  <2>2. state'[n] \notin {"unused", "pending"}
    BY <1>4 DEF Outcomes
  <2> QED BY <1>1, <1>3, <1>4, <1>7, <2>1, <2>2, FreshKept
<1>15. LinkInv'
  <2>1. parent[n] = run.on \/ <<n, parent[n]>> \in joined
    BY <1>0, <1>2 DEF Linked
  <2>2. own' \cap Adopters' = {}
    BY <1>1, <1>2, <1>3, <1>7 DEF LinkInv
  <2>3. \A x \in Promises :
          \/ <<x, parent'[x]>> \in joined'
          \/ /\ parent'[x] = parent[x] /\ (x \in own' => x \in own)
             /\ x \in Adopters' \/ state'[x] = "fulfilled" =>
                  x \in Adopters \/ state[x] = "fulfilled" \/ Done(parent[x])
    <3> TAKE x \in Promises
    <3>1. CASE x = n
      BY <1>3, <1>4, <1>5, <1>7, <2>1, <3>1
    <3>2. CASE x # n
      BY <1>3, <1>4, <1>7, <3>2
    <3> QED BY <3>1, <3>2
  <2> QED BY <1>1, <1>6, <2>2, <2>3, LinksStay
<1>16. HandledInv'
  BY <1>1, <1>3, <1>6, HandledKept
<1>17. JudgeInv'
  <2>1. \A q \in own : state'[q] = "rejected" => state[q] = "rejected"
    BY <1>1, <1>2, <1>4 DEF PromisesTypeOK
  <2> HIDE DEF t
  <2>2. micro' = Append(micro, t)
    BY <1>3 DEF t
  <2> QED BY <1>1, <1>3, <1>6, <1>9, <2>1, <2>2, JudgeOnward
<1>18. MarkInv'
  BY <1>1, <1>3, <1>6, MarksKept
<1> QED BY <1>10, <1>11, <1>12, <1>13, <1>14, <1>15, <1>16, <1>17, <1>18 DEF IInv

LEMMA ChainStep ==
  ASSUME IInv, NEW o \in Outcomes, Chain(o), PromisesTypeOK'
  PROVE  IInv'
<1>1. PromisesTypeOK /\ RunInv /\ EndCallback
  BY DEF IInv, Chain
<1>2. run.outcome \in Outcomes
  BY <1>1, CallbackLeads DEF EndCallback
<1>3. PICK w \in Outcomes :
        SettleNext(cur.next, w) /\ (cur.kind = "finally" => w = run.outcome)
  BY <1>2 DEF Chain
<1> QED BY <1>1, <1>3, SettleNextStep DEF Chain, history

LEMMA ReturnsSettledStep ==
  ASSUME IInv, NEW q \in Promises, ReturnsSettled(q), PromisesTypeOK'
  PROVE  IInv'
<1>1. state[q] \in Outcomes /\ state[q] # "unused"
  BY DEF ReturnsSettled, Settled, Outcomes
<1> QED BY <1>1, SettleNextStep DEF ReturnsSettled, ReturnsPromise


LEMMA ReturnsPendingStep ==
  ASSUME IInv, NEW q \in Promises, ReturnsPending(q), PromisesTypeOK'
  PROVE  IInv'
<1>1. /\ PromisesTypeOK /\ OwedInv /\ OrderInv /\ TaskInv /\ RunInv /\ FreshInv
      /\ LinkInv /\ HandledInv /\ JudgeInv /\ MarkInv
  BY DEF IInv
<1>0. PICK n \in Promises : n = cur.next
  BY <1>1, CallbackLeads DEF ReturnsPending, EndCallback
<1>2. /\ n \notin own /\ state[n] = "pending" /\ run.on \in Promises
      /\ n \notin Adopters /\ state[run.on] = run.outcome /\ run.outcome \in Outcomes
      /\ cur # NoReaction /\ Linked(run.on, cur) /\ ~PassesOn(cur.kind, run.outcome)
      /\ cur.kind \in Ways
      /\ \A p \in Promises, r \in Reactions : Owes(p, r) => r.next # n
  BY <1>0, <1>1, CallbackLeads DEF ReturnsPending, EndCallback, RunInv
<1>3. PICK x \in Reactions : x = Reaction("adopt", n, attached[q] + 1)
  BY <1>1, AttachedTyped, ReactionTyped DEF ReturnsPending, Kinds
<1>4. /\ state[q] = "pending" /\ state' = state /\ micro' = micro
      /\ reactions' = [reactions EXCEPT ![q] = Append(@, x)]
      /\ parent' = [parent EXCEPT ![q] = n]
      /\ attached' = [attached EXCEPT ![q] = @ + 1]
      /\ flows' = flows \cup {<<q, n>>} /\ joined' = joined \cup {<<q, n>>}
      /\ handled' = handled /\ checked' = checked /\ reported' = reported /\ own' = own
      /\ macro' = macro /\ run' = run /\ ran' = ran /\ consumed' = consumed
      /\ cur' = NoReaction /\ pc' = "run"
  BY <1>0, <1>3 DEF ReturnsPending, EndCallback, marks
<1>5. x.kind = "adopt" /\ x.next = n /\ x.nth = attached[q] + 1
  BY <1>3 DEF Reaction
<1>6. Grows
  BY <1>4 DEF Grows
<1>7. Adopters' = Adopters \cup {n} /\ Done(run.on)
  <2>1. Adopters' = Adopters \cup {n}
    BY <1>4 DEF Adopters
  <2>2. cur.kind # "finally"
    BY DEF ReturnsPending, ReturnsPromise
  <2> QED BY <1>2, <2>1, <2>2, CalledDone
<1>8. \A y \in Promises : parent'[y] = IF y = q THEN n ELSE parent[y]
  BY <1>1, <1>4 DEF PromisesTypeOK
<1>9. ASSUME NEW m \in Promises, m # n, m \notin own, state[m] = "pending"
      PROVE  Untouched(m)
  BY <1>4, <1>7, <1>8, <1>9 DEF Untouched
<1>10. Engage(q, x)
  BY <1>4 DEF Engage
<1>11. \A p \in Promises : \A r : Owes(p, r)' <=> Owes(p, r) \/ (p = q /\ r = x)
  <2>1. \A p \in Promises : \A r : Later(p, r)' <=> Later(p, r) \/ (p = q /\ r = x)
    BY <1>1, <1>4, <1>10, EngageLater
  <2>2. \A p \in Promises : \A r : Owes(p, r) <=> Later(p, r) \/ (run.on = p /\ Holds(run.left, r))
    BY DEF Owes, Later
  <2>3. \A p \in Promises : \A r : Owes(p, r)' <=> Later(p, r)' \/ (run.on = p /\ Holds(run.left, r))
    BY <1>4 DEF Owes, Later
  <2> QED BY <2>1, <2>2, <2>3
<1>12. OwedInv'
  <2>1. Linked(q, x)'
    BY <1>2, <1>4, <1>5, <1>7 DEF Linked, Kinds, Ways
  <2>2. ASSUME NEW p \in Promises, NEW r \in Reactions, Owes(p, r), r.next \in Promises
        PROVE  Untouched(r.next)
    BY <1>1, <1>2, <1>9, <2>2, OwedLeads
  <2>3. \A p \in Promises, r \in Reactions : Owes(p, r) => r.next # x.next
    BY <1>2, <1>5
  <2> QED BY <1>1, <1>4, <1>5, <1>6, <1>11, <2>1, <2>2, <2>3, OwedAdded
<1>13. OrderInv' /\ TaskInv'
  BY <1>1, <1>4, <1>6, TaskKept DEF OrderInv
<1>14. RunInv'
  BY <1>1, <1>2, <1>4 DEF RunInv
<1>15. FreshInv'
  <2>1. /\ reactions'[q] = Append(reactions[q], x) /\ attached'[q] = attached[q] + 1
        /\ \A y \in Promises \ {q} : reactions'[y] = reactions[y] /\ attached'[y] = attached[y]
    BY <1>1, <1>4 DEF PromisesTypeOK
  <2>2. /\ state'[q] = "pending" /\ ran'[q] = 0 /\ Len(reactions'[q]) = attached'[q]
        /\ \A i \in DOMAIN reactions'[q] : reactions'[q][i].nth = i
    <3>1. state'[q] = "pending" /\ ran'[q] = 0
      BY <1>1, <1>4 DEF FreshInv
    <3> QED BY <1>1, <1>4, <1>5, <2>1, <3>1, FreshEngaged
  <2>3. ASSUME NEW y \in Promises, state'[y] = "unused"
        PROVE  y # n /\ y # q
    BY <1>2, <1>4, <2>3
  <2> QED BY <1>1, <1>4, <1>7, <1>8, <2>1, <2>2, <2>3, FreshKept
<1>16. LinkInv'
  <2>1. parent[n] = run.on \/ <<n, parent[n]>> \in joined
    BY <1>0, <1>2 DEF Linked
  <2>2. own' \cap Adopters' = {}
    BY <1>1, <1>2, <1>4, <1>7 DEF LinkInv
  <2>3. \A z \in Promises :
          \/ <<z, parent'[z]>> \in joined'
          \/ /\ parent'[z] = parent[z] /\ (z \in own' => z \in own)
             /\ z \in Adopters' \/ state'[z] = "fulfilled" =>
                  z \in Adopters \/ state[z] = "fulfilled" \/ Done(parent[z])
    <3> TAKE y \in Promises
    <3>1. CASE y = q
      BY <1>4, <1>8, <3>1
    <3>2. CASE y = n /\ y # q
      BY <1>4, <1>7, <1>8, <2>1, <3>2
    <3>3. CASE y # n /\ y # q
      BY <1>4, <1>7, <1>8, <3>3
    <3> QED BY <3>1, <3>2, <3>3
  <2> QED BY <1>1, <1>6, <2>2, <2>3, LinksStay
<1>17. HandledInv' /\ MarkInv'
  BY <1>1, <1>4, <1>6, HandledKept, MarksKept
<1>18. JudgeInv'
  BY <1>1, <1>4, <1>6, JudgeOnward
<1> QED BY <1>12, <1>13, <1>14, <1>15, <1>16, <1>17, <1>18 DEF IInv

-------------------------------------------------------------------------------
\* The steps of the loop.
LEMMA StartStep ==
  ASSUME IInv, StartDelivery \/ StartFrame, PromisesTypeOK'
  PROVE  IInv'
<1>1. /\ PromisesTypeOK /\ OwedInv /\ OrderInv /\ TaskInv /\ RunInv /\ FreshInv
      /\ LinkInv /\ HandledInv /\ JudgeInv /\ MarkInv
  BY DEF IInv
<1>2. /\ pc = "loop" /\ micro # <<>> /\ micro' = Tail(micro)
      /\ state' = state /\ reactions' = reactions /\ parent' = parent /\ handled' = handled
      /\ checked' = checked /\ reported' = reported /\ own' = own /\ macro' = macro
      /\ cur' = cur /\ attached' = attached /\ ran' = ran /\ consumed' = consumed
      /\ flows' = flows /\ joined' = joined
  BY DEF StartDelivery, StartFrame, Start, marks, history
<1>3. run = NoRun /\ cur = NoReaction /\ run.left = <<>> /\ run.on = None /\ ~run.check
  BY <1>1, <1>2 DEF RunInv, NoRun, Deliver, Task
<1>4. /\ micro \in Seq(QueuedTasks) /\ 1 \in DOMAIN micro /\ Head(micro) = micro[1]
      /\ Head(micro) \in QueuedTasks
  BY <1>1, <1>2, Taken DEF PromisesTypeOK
<1>5. PICK h \in QueuedTasks : h = Head(micro) /\ Sound(h)
  BY <1>1, <1>4 DEF TaskInv
<1>6. \/ h.do = "deliver" /\ run' = h /\ pc' = "run"
      \/ h.do = "resume" /\ run' = run /\ pc' = "code" /\ h.left = <<>>
  BY <1>5 DEF StartDelivery, StartFrame, Start, Sound
<1>7. Grows /\ Adopters' = Adopters
  BY <1>2 DEF Grows, Adopters
<1>8. \A q \in Promises : \A r : Owes(q, r)' <=> Owes(q, r)
  <2>1. \A q, r : Queued(micro, q, r) <=> Queued(micro', q, r) \/ (h.on = q /\ Holds(h.left, r))
    BY <1>2, <1>4, <1>5, QueuedLess
  <2>2. \A q, r : Waits(q, r)' <=> Waits(q, r)
    BY <1>2 DEF Waits
  <2>3. \A q, r : Owes(q, r) <=> Waits(q, r) \/ Queued(micro, q, r)
    BY <1>3, HoldsNothing DEF Owes
  <2>4. \A q, r : Owes(q, r)' <=> Waits(q, r)' \/ Queued(micro', q, r) \/ (run'.on = q /\ Holds(run'.left, r))
    BY DEF Owes
  <2> QED BY <1>3, <1>6, <2>1, <2>2, <2>3, <2>4, HoldsNothing
<1>9. OwedInv'
  <2>1. ASSUME NEW q \in Promises, NEW r \in Reactions, Owes(q, r), r.next \in Promises
        PROVE  Untouched(r.next)
    BY <1>1, <1>2, <1>7, <2>1, OwedLeads DEF Untouched
  <2> QED BY <1>1, <1>2, <1>7, <1>8, <2>1, OwedKept
<1>10. OrderInv'
  BY <1>1, <1>2, <1>4, <1>5, <1>6, OrderStarted, OrderDropped DEF OrderInv
<1>11. TaskInv'
  BY <1>1, <1>2, <1>7, TaskKept
<1>12. RunInv'
  <2>1. CASE h.do = "deliver" /\ run' = h /\ pc' = "run"
    BY <1>2, <1>3, <1>5, <2>1 DEF RunInv, Sound
  <2>2. CASE run' = run /\ pc' = "code"
    BY <1>2, <1>3, <2>2, RunIdle
  <2> QED BY <1>6, <2>1, <2>2
<1>13. FreshInv'
  BY <1>1, <1>2, <1>7, FreshKept
<1>14. LinkInv'
  BY <1>1, <1>2, <1>7, LinksStay DEF LinkInv
<1>15. HandledInv' /\ MarkInv'
  BY <1>1, <1>2, <1>7, HandledKept, MarksKept
<1>16. JudgeInv'
  <2>1. \A q : Checking(q) => Checking(q)'
    BY <1>1, <1>2, <1>5, <1>6, JudgeTaken DEF IsCheck
  <2>2. ASSUME NEW q, Rejecting(q) PROVE Rejecting(q)'
    <3>1. Rejected(q)
      BY <1>3, <2>2 DEF Rejecting, Rejected, IsRejection
    <3>2. Rejected(q)' \/ IsRejection(h, q)
      BY <1>1, <1>2, <1>5, <3>1, JudgeTaken
    <3>3. IsRejection(h, q) => IsRejection(run', q)
      BY <1>6 DEF IsRejection
    <3> QED BY <3>2, <3>3 DEF Rejecting, Rejected
  <2>3. own \subseteq Promises /\ checked' \subseteq own'
    BY <1>1, <1>2 DEF PromisesTypeOK, JudgeInv
  <2> QED BY <1>1, <1>2, <1>7, <2>1, <2>2, <2>3, JudgeKept
<1> QED BY <1>9, <1>10, <1>11, <1>12, <1>13, <1>14, <1>15, <1>16 DEF IInv


\* Whoever is marked and has been rejected by reject_promise reaches a handler.
LEMMA MarkedReaches ==
  ASSUME LinkInv, HandledInv, NEW p \in own, p \in handled, state[p] = "rejected"
  PROVE  HandledDownstream(p)
BY DEF LinkInv, HandledInv, Excused

LEMMA CheckStep ==
  ASSUME IInv, UnhandledCheck, PromisesTypeOK'
  PROVE  IInv'
<1>1. /\ PromisesTypeOK /\ OwedInv /\ OrderInv /\ TaskInv /\ RunInv /\ FreshInv
      /\ LinkInv /\ HandledInv /\ JudgeInv /\ MarkInv
  BY DEF IInv
<1>2. /\ pc = "loop" /\ micro # <<>> /\ micro' = Tail(micro)
      /\ reported' = reported \cup ({Head(micro).on} \ handled)
      /\ state' = state /\ reactions' = reactions /\ parent' = parent /\ handled' = handled
      /\ checked' = checked /\ own' = own /\ macro' = macro /\ run' = run /\ pc' = pc
      /\ cur' = cur /\ attached' = attached /\ ran' = ran /\ consumed' = consumed
      /\ flows' = flows /\ joined' = joined
  BY DEF UnhandledCheck, Start, history
<1>3. /\ micro \in Seq(QueuedTasks) /\ 1 \in DOMAIN micro /\ Head(micro) = micro[1]
      /\ Head(micro) \in QueuedTasks
  BY <1>1, <1>2, Taken DEF PromisesTypeOK
<1>4. PICK h \in QueuedTasks :
        h = Head(micro) /\ h.do = "check" /\ h.left = <<>>
        /\ h.on \in own /\ h.on \in Promises /\ state[h.on] = "rejected"
  BY <1>1, <1>2, <1>3 DEF TaskInv, Sound, UnhandledCheck, Start
<1>5. Grows /\ Adopters' = Adopters
  BY <1>2 DEF Grows, Adopters
<1>6. \A q \in Promises : \A r : Owes(q, r)' <=> Owes(q, r)
  <2>1. \A q, r : Queued(micro, q, r) <=> Queued(micro', q, r)
    BY <1>2, <1>3, <1>4, QueuedLess, HoldsNothing
  <2> QED BY <1>2, <2>1 DEF Owes, Waits
<1>7. OwedInv'
  <2>1. ASSUME NEW q \in Promises, NEW r \in Reactions, Owes(q, r), r.next \in Promises
        PROVE  Untouched(r.next)
    BY <1>1, <1>2, <1>5, <2>1, OwedLeads DEF Untouched
  <2> QED BY <1>1, <1>2, <1>5, <1>6, <2>1, OwedKept
<1>8. OrderInv' /\ TaskInv'
  BY <1>1, <1>2, <1>3, <1>5, OrderDropped, TaskKept DEF OrderInv
<1>9. RunInv'
  <2>1. run = NoRun /\ cur = NoReaction
    BY <1>1, <1>2 DEF RunInv
  <2> QED BY <1>2, <2>1, RunIdle
<1>10. FreshInv'
  BY <1>1, <1>2, <1>5, FreshKept
<1>11. LinkInv'
  BY <1>1, <1>2, <1>5, LinksStay DEF LinkInv
<1>12. HandledInv' /\ MarkInv'
  BY <1>1, <1>2, <1>5, HandledKept, MarksKept
<1>13. JudgeInv'
  <2>1. ASSUME NEW q \in own, Checking(q) PROVE Checking(q)' \/ Judged(q)'
    <3>1. Checking(q)' \/ IsCheck(h, q)
      BY <1>1, <1>2, <1>4, <2>1, JudgeTaken
    <3>2. CASE h.on = q
      <4>1. CASE q \in handled
        BY <1>1, <1>4, <1>5, <3>2, <4>1, MarkedReaches, ReachesMore DEF Judged
      <4>2. CASE q \notin handled
        BY <1>2, <1>4, <3>2, <4>2 DEF Judged
      <4> QED BY <4>1, <4>2
    <3> QED BY <3>1, <3>2 DEF IsCheck
  <2>2. \A q : Rejecting(q) => Rejecting(q)'
    <3>1. \A q : Rejected(q) => Rejected(q)'
      BY <1>1, <1>2, <1>4, JudgeTaken DEF IsRejection
    <3> QED BY <1>2, <3>1 DEF Rejecting, Rejected
  <2>3. own \subseteq Promises /\ checked' \subseteq own'
    BY <1>1, <1>2 DEF PromisesTypeOK, JudgeInv
  <2> QED BY <1>1, <1>2, <1>5, <2>1, <2>2, <2>3, JudgeKept
<1> QED BY <1>7, <1>8, <1>9, <1>10, <1>11, <1>12, <1>13 DEF IInv

LEMMA PassOnStep ==
  ASSUME IInv, PassOn, PromisesTypeOK'
  PROVE  IInv'
<1>1. /\ PromisesTypeOK /\ OwedInv /\ OrderInv /\ TaskInv /\ RunInv /\ FreshInv
      /\ LinkInv /\ HandledInv /\ JudgeInv /\ MarkInv
  BY DEF IInv
<1>2. pc = "run" /\ run.left # <<>> /\ PassesOn(Foremost.kind, run.outcome) /\ NextReaction
  BY DEF PassOn, NextReaction
<1>3. PICK x \in Reactions : x = Foremost
  BY <1>1, <1>2, RunLeads
<1>4. PICK o \in Outcomes : o = run.outcome
  BY <1>1, <1>2, RunLeads
<1>5. PICK n \in Promises :
        n = x.next /\ n \notin own /\ state[n] = "pending" /\ n # run.on
  BY <1>1, <1>2, <1>3, RunLeads DEF PassesOn
<1>6. /\ run.on \in Promises /\ state[run.on] = o /\ state[run.on] # "pending"
      /\ Linked(run.on, x) /\ Owes(run.on, x) /\ PassesOn(x.kind, o)
  <2>1. run.on \in Promises /\ state[run.on] = o /\ Linked(run.on, x) /\ PassesOn(x.kind, o)
    BY <1>1, <1>2, <1>3, <1>4, RunLeads
  <2>2. state[run.on] # "pending"
    BY <2>1 DEF Outcomes
  <2> QED BY <1>1, <1>2, <1>3, <2>1, <2>2, IsNext
<1>7. /\ state' = [state EXCEPT ![n] = o]
      /\ micro' = Append(micro, Deliver(n, reactions[n], o, FALSE))
      /\ ran' = [ran EXCEPT ![run.on] = x.nth]
      /\ reactions' = reactions /\ parent' = parent /\ handled' = handled /\ checked' = checked
      /\ reported' = reported /\ own' = own /\ macro' = macro /\ cur' = cur /\ pc' = pc
      /\ attached' = attached /\ consumed' = consumed /\ flows' = flows /\ joined' = joined
  BY <1>3, <1>4, <1>5 DEF PassOn, NextReaction, SettleNext, marks
<1>8. /\ run'.do = run.do /\ run'.on = run.on /\ run'.check = run.check
      /\ run'.outcome = run.outcome /\ run'.left = Tail(run.left)
  BY <1>1, <1>2, RestTyped
<1>9. \A y \in Promises : state'[y] = IF y = n THEN o ELSE state[y]
  BY <1>1, <1>7 DEF PromisesTypeOK
<1>10. Grows /\ Adopters' = Adopters
  BY <1>5, <1>7, <1>9 DEF Grows, Adopters
<1>11. ASSUME NEW m \in Promises, m # n, m \notin own, state[m] = "pending"
       PROVE  Untouched(m)
  BY <1>7, <1>9, <1>10, <1>11 DEF Untouched
<1> DEFINE t == Deliver(n, reactions[n], o, FALSE)
<1>12. t \in QueuedTasks /\ \A q \in Promises : \A r : Later(q, r)' <=> Later(q, r)
  BY <1>1, <1>5, <1>7, SettleLater
<1>13. \A q \in Promises, r \in Reactions :
         Owes(q, r)' <=> Owes(q, r) /\ ~(q = run.on /\ r = x)
  <2>1. \A q \in Promises : \A r :
          Later(q, r) \/ (run.on = q /\ Holds(Tail(run.left), r)) <=>
            Owes(q, r) /\ ~(q = run.on /\ r = x)
    BY <1>1, <1>2, <1>3, <1>6, TakenOff
  <2>2. \A q \in Promises : \A r :
          Owes(q, r)' <=> Later(q, r)' \/ (run.on = q /\ Holds(Tail(run.left), r))
    BY <1>8 DEF Owes, Later
  <2> QED BY <1>12, <2>1, <2>2
<1> HIDE DEF t
<1>14. OwedInv'
  <2>1. ASSUME NEW q \in Promises, NEW r \in Reactions, Owes(q, r)', r.next \in Promises
        PROVE  Untouched(r.next)
    <3>1. Owes(q, r) /\ ~(q = run.on /\ r = x)
      BY <1>13, <2>1
    <3>2. r.next # n
      BY <1>1, <1>5, <1>6, <2>1, <3>1, PromisesAssumption DEF OwedInv
    <3> QED BY <1>1, <1>11, <2>1, <3>1, <3>2, OwedLeads
  <2> QED BY <1>1, <1>2, <1>3, <1>6, <1>7, <1>10, <1>13, <2>1, OwedTaken
<1>15. OrderInv'
  <2>1. Ordered(micro, run')
    BY <1>1, <1>2, <1>8, OrderTaken DEF OrderInv, PromisesTypeOK
  <2> QED BY <1>1, <1>5, <1>7, <1>8, <2>1, SettleOrder DEF OrderInv
<1>16. TaskInv'
  <2>1. \A s : s = t => Sound(s)'
    BY <1>1, <1>7, SettleSound DEF t
  <2>2. micro' = Append(micro, t)
    BY <1>7 DEF t
  <2> QED BY <1>1, <1>7, <1>10, <1>12, <2>1, <2>2, TaskKept
<1>17. RunInv'
  <2>1. cur = NoReaction
    BY <1>1, <1>2 DEF RunInv
  <2> QED BY <1>1, <1>2, <1>5, <1>6, <1>7, <1>8, <1>9, <2>1 DEF RunInv
<1>18. FreshInv'
  <2>1. state'[n] \notin {"unused", "pending"} /\ state'[run.on] \notin {"unused", "pending"}
    BY <1>6, <1>9 DEF Outcomes
  <2>2. \A y \in Promises : y # run.on => ran'[y] = ran[y]
    BY <1>1, <1>7 DEF PromisesTypeOK
  <2> QED BY <1>1, <1>7, <1>9, <1>10, <2>1, <2>2, FreshKept
<1>19. LinkInv'
  <2>1. o = "fulfilled" => n \in Adopters \/ Done(parent[n]) \/ <<n, parent[n]>> \in joined
    <3>1. CASE x.kind = "adopt"
      BY <1>5, <1>6, <3>1 DEF Linked
    <3>2. CASE x.kind = "catch"
      BY <1>5, <1>6, <3>2 DEF Linked, Ways, Done
    <3> QED BY <1>6, <3>1, <3>2 DEF PassesOn
  <2>2. own' \cap Adopters' = {}
    BY <1>1, <1>7, <1>10 DEF LinkInv
  <2> QED BY <1>1, <1>7, <1>9, <1>10, <2>1, <2>2, LinksStay
<1>20. HandledInv' /\ MarkInv'
  BY <1>1, <1>7, <1>10, HandledKept, MarksKept
<1>21. JudgeInv'
  <2>1. \A q \in own : state'[q] = "rejected" => state[q] = "rejected"
    BY <1>1, <1>5, <1>9 DEF PromisesTypeOK
  <2>2. micro' = Append(micro, t)
    BY <1>7 DEF t
  <2> QED BY <1>1, <1>7, <1>8, <1>10, <1>12, <2>1, <2>2, JudgeOnward
<1> QED BY <1>14, <1>15, <1>16, <1>17, <1>18, <1>19, <1>20, <1>21 DEF IInv


LEMMA StartCallbackStep ==
  ASSUME IInv, StartCallback, PromisesTypeOK'
  PROVE  IInv'
<1>1. /\ PromisesTypeOK /\ OwedInv /\ OrderInv /\ TaskInv /\ RunInv /\ FreshInv
      /\ LinkInv /\ HandledInv /\ JudgeInv /\ MarkInv
  BY DEF IInv
<1>2. pc = "run" /\ run.left # <<>> /\ NextReaction
  BY DEF StartCallback, NextReaction
<1>3. PICK x \in Reactions :
        x = Foremost /\ x.kind # "await" /\ ~PassesOn(x.kind, run.outcome)
  BY <1>1, <1>2, RunLeads DEF StartCallback
<1>4. /\ run.on \in Promises /\ state[run.on] = run.outcome /\ run.outcome \in Outcomes
      /\ state[run.on] # "pending" /\ Linked(run.on, x) /\ Owes(run.on, x)
      /\ x.next \in Promises
  <2>1. /\ run.on \in Promises /\ state[run.on] = run.outcome /\ run.outcome \in Outcomes
        /\ Linked(run.on, x) /\ x.next \in Promises
    BY <1>1, <1>2, <1>3, RunLeads
  <2>2. state[run.on] # "pending"
    BY <2>1 DEF Outcomes
  <2> QED BY <1>1, <1>2, <1>3, <2>1, <2>2, IsNext
<1>5. /\ ran' = [ran EXCEPT ![run.on] = x.nth] /\ cur' = x /\ pc' = "code"
      /\ state' = state /\ micro' = micro
      /\ reactions' = reactions /\ parent' = parent /\ handled' = handled /\ checked' = checked
      /\ reported' = reported /\ own' = own /\ macro' = macro
      /\ attached' = attached /\ consumed' = consumed /\ flows' = flows /\ joined' = joined
  BY <1>3 DEF StartCallback, NextReaction, marks
<1>6. /\ run'.do = run.do /\ run'.on = run.on /\ run'.check = run.check
      /\ run'.outcome = run.outcome /\ run'.left = Tail(run.left)
  BY <1>1, <1>2, RestTyped
<1>7. Grows /\ Adopters' = Adopters
  BY <1>5 DEF Grows, Adopters
<1>8. \A q \in Promises, r \in Reactions :
         Owes(q, r)' <=> Owes(q, r) /\ ~(q = run.on /\ r = x)
  <2>1. \A q \in Promises : \A r :
          Later(q, r) \/ (run.on = q /\ Holds(Tail(run.left), r)) <=>
            Owes(q, r) /\ ~(q = run.on /\ r = x)
    BY <1>1, <1>2, <1>3, <1>4, TakenOff
  <2>2. \A q \in Promises : \A r :
          Owes(q, r)' <=> Later(q, r) \/ (run.on = q /\ Holds(Tail(run.left), r))
    BY <1>5, <1>6 DEF Owes, Later, Waits
  <2> QED BY <2>1, <2>2
<1>9. OwedInv'
  <2>1. ASSUME NEW q \in Promises, NEW r \in Reactions, Owes(q, r)', r.next \in Promises
        PROVE  Untouched(r.next)
    BY <1>1, <1>5, <1>7, <1>8, <2>1, OwedLeads DEF Untouched
  <2> QED BY <1>1, <1>2, <1>3, <1>4, <1>5, <1>7, <1>8, <2>1, OwedTaken
<1>10. OrderInv' /\ TaskInv'
  <2>1. Ordered(micro, run')
    BY <1>1, <1>2, <1>6, OrderTaken DEF OrderInv, PromisesTypeOK
  <2> QED BY <1>1, <1>5, <1>7, <2>1, TaskKept DEF OrderInv
<1>11. RunInv'
  <2>1. x.kind \in Ways
    BY <1>3, <1>4 DEF Linked, Kinds, Ways, PassesOn
  <2>2. \A q \in Promises, r \in Reactions : Owes(q, r)' => r.next # x.next
    BY <1>1, <1>4, <1>8, PromisesAssumption DEF OwedInv
  <2>3. Linked(run.on, x)'
    BY <1>4, <1>5, <1>6, <1>7 DEF Linked
  <2>4. cur' \in Reactions /\ cur'.kind \in Ways /\ Linked(run.on, cur)'
    BY <1>5, <2>1, <2>3 DEF Linked
  <2>5. run.check => run.on \in own /\ run.outcome = "rejected"
    BY <1>1, <1>4 DEF RunInv
  <2>6. x # NoReaction
    BY <2>1 DEF NoReaction, Reaction, Ways
  <2> QED BY <1>3, <1>4, <1>5, <1>6, <2>2, <2>4, <2>5, <2>6 DEF RunInv
<1>12. FreshInv'
  <2>1. state'[run.on] \notin {"unused", "pending"}
    BY <1>4, <1>5 DEF Outcomes
  <2>2. \A y \in Promises : y # run.on => ran'[y] = ran[y]
    BY <1>1, <1>5 DEF PromisesTypeOK
  <2> QED BY <1>1, <1>5, <1>7, <2>1, <2>2, FreshKept
<1>13. LinkInv'
  BY <1>1, <1>5, <1>7, LinksStay DEF LinkInv
<1>14. HandledInv' /\ MarkInv'
  BY <1>1, <1>5, <1>7, HandledKept, MarksKept
<1>15. JudgeInv'
  BY <1>1, <1>5, <1>6, <1>7, JudgeOnward
<1> QED BY <1>9, <1>10, <1>11, <1>12, <1>13, <1>14, <1>15 DEF IInv

LEMMA WakeFrameStep ==
  ASSUME IInv, WakeFrame, PromisesTypeOK'
  PROVE  IInv'
<1>1. /\ PromisesTypeOK /\ OwedInv /\ OrderInv /\ TaskInv /\ RunInv /\ FreshInv
      /\ LinkInv /\ HandledInv /\ JudgeInv /\ MarkInv
  BY DEF IInv
<1>2. pc = "run" /\ run.left # <<>> /\ NextReaction
  BY DEF WakeFrame, NextReaction
<1>3. PICK x \in Reactions : x = Foremost
  BY <1>1, <1>2, RunLeads
<1>4. /\ run.on \in Promises /\ state[run.on] = run.outcome /\ run.outcome \in Outcomes
      /\ state[run.on] # "pending"
  BY <1>1, <1>2, RunLeads DEF Outcomes
<1>5. PICK t \in QueuedTasks : t = ResumeTask(run.on)
  BY <1>4, TaskTypes
<1>6. /\ ran' = [ran EXCEPT ![run.on] = x.nth] /\ cur' = cur /\ pc' = pc
      /\ state' = state /\ micro' = Append(micro, t)
      /\ reactions' = reactions /\ parent' = parent /\ handled' = handled /\ checked' = checked
      /\ reported' = reported /\ own' = own /\ macro' = macro
      /\ attached' = attached /\ consumed' = consumed /\ flows' = flows /\ joined' = joined
  BY <1>3, <1>5 DEF WakeFrame, NextReaction, marks
<1>7. t.do = "resume" /\ t.on = run.on /\ t.left = <<>> /\ ~t.check
  BY <1>5 DEF ResumeTask, Task
<1>8. /\ run'.do = run.do /\ run'.on = run.on /\ run'.check = run.check
      /\ run'.outcome = run.outcome /\ run'.left = Tail(run.left)
  BY <1>1, <1>2, RestTyped
<1>9. Grows /\ Adopters' = Adopters
  BY <1>6 DEF Grows, Adopters
<1>10. \A q \in Promises, r \in Reactions :
         Owes(q, r)' <=> Owes(q, r) /\ ~(q = run.on /\ r = x)
  <2>1. \A q \in Promises : \A r :
          Later(q, r) \/ (run.on = q /\ Holds(Tail(run.left), r)) <=>
            Owes(q, r) /\ ~(q = run.on /\ r = x)
    BY <1>1, <1>2, <1>3, <1>4, TakenOff
  <2>2. \A q, r : Queued(micro', q, r) <=> Queued(micro, q, r)
    BY <1>1, <1>6, <1>7, QueuedMore, HoldsNothing DEF PromisesTypeOK
  <2>3. \A q \in Promises : \A r :
          Owes(q, r)' <=> Later(q, r) \/ (run.on = q /\ Holds(Tail(run.left), r))
    BY <1>6, <1>8, <2>2 DEF Owes, Later, Waits
  <2> QED BY <2>1, <2>3
<1>11. OwedInv'
  <2>1. ASSUME NEW q \in Promises, NEW r \in Reactions, Owes(q, r)', r.next \in Promises
        PROVE  Untouched(r.next)
    BY <1>1, <1>6, <1>9, <1>10, <2>1, OwedLeads DEF Untouched
  <2> QED BY <1>1, <1>2, <1>3, <1>4, <1>6, <1>9, <1>10, <2>1, OwedTaken
<1>12. OrderInv'
  <2>1. Ordered(micro, run')
    BY <1>1, <1>2, <1>8, OrderTaken DEF OrderInv, PromisesTypeOK
  <2>2. Rises(t.left) /\ \A rs : Precedes(rs, t.left)
    BY <1>7 DEF Rises, Precedes
  <2>3. Ordered(Append(micro, t), run')
    BY <1>1, <2>1, <2>2, OrderAppended DEF PromisesTypeOK
  <2> QED BY <1>6, <2>3 DEF OrderInv
<1>13. TaskInv'
  <2>1. Sound(t)'
    BY <1>4, <1>6, <1>7 DEF Sound, Settled, Outcomes
  <2> QED BY <1>1, <1>6, <1>9, <2>1, TaskKept
<1>14. RunInv'
  <2>1. cur = NoReaction
    BY <1>1, <1>2 DEF RunInv
  <2>2. run.check => run.on \in own /\ run.outcome = "rejected"
    BY <1>1, <1>4 DEF RunInv
  <2> QED BY <1>2, <1>4, <1>6, <1>8, <2>1, <2>2 DEF RunInv
<1>15. FreshInv'
  <2>1. state'[run.on] \notin {"unused", "pending"}
    BY <1>4, <1>6 DEF Outcomes
  <2>2. \A y \in Promises : y # run.on => ran'[y] = ran[y]
    BY <1>1, <1>6 DEF PromisesTypeOK
  <2> QED BY <1>1, <1>6, <1>9, <2>1, <2>2, FreshKept
<1>16. LinkInv'
  BY <1>1, <1>6, <1>9, LinksStay DEF LinkInv
<1>17. HandledInv' /\ MarkInv'
  BY <1>1, <1>6, <1>9, HandledKept, MarksKept
<1>18. JudgeInv'
  BY <1>1, <1>6, <1>8, <1>9, JudgeOnward
<1> QED BY <1>11, <1>12, <1>13, <1>14, <1>15, <1>16, <1>17, <1>18 DEF IInv

LEMMA EndDeliveryStep ==
  ASSUME IInv, EndDelivery, PromisesTypeOK'
  PROVE  IInv'
<1>1. /\ PromisesTypeOK /\ OwedInv /\ OrderInv /\ TaskInv /\ RunInv /\ FreshInv
      /\ LinkInv /\ HandledInv /\ JudgeInv /\ MarkInv
  BY DEF IInv
<1> DEFINE due == run.check /\ run.on \notin checked
<1>2. /\ pc = "run" /\ run.left = <<>> /\ run' = NoRun /\ pc' = "loop"
      /\ state' = state /\ reactions' = reactions /\ parent' = parent /\ handled' = handled
      /\ reported' = reported /\ own' = own /\ macro' = macro /\ cur' = cur
      /\ attached' = attached /\ ran' = ran /\ consumed' = consumed /\ flows' = flows
      /\ joined' = joined
  BY DEF EndDelivery, history
<1>3. /\ run.on \in Promises /\ state[run.on] = run.outcome /\ cur = NoReaction
      /\ run.check => run.on \in own /\ state[run.on] = "rejected"
  BY <1>1, <1>2 DEF RunInv
<1>4. PICK t \in QueuedTasks : t = Check(run.on)
  BY <1>3, TaskTypes
<1>5. t.do = "check" /\ t.on = run.on /\ t.left = <<>>
  BY <1>4 DEF Check, Task
<1>6. IF due THEN checked' = checked \cup {run.on} /\ micro' = Append(micro, t)
             ELSE checked' = checked /\ micro' = micro
  BY <1>4 DEF EndDelivery
<1>7. Grows /\ Adopters' = Adopters
  BY <1>2 DEF Grows, Adopters
<1>8. \A q \in Promises : \A r : Owes(q, r)' <=> Owes(q, r)
  <2>1. \A q, r : Queued(micro', q, r) <=> Queued(micro, q, r)
    <3>1. CASE micro' = Append(micro, t)
      BY <1>1, <1>5, <3>1, QueuedMore, HoldsNothing DEF PromisesTypeOK
    <3> QED BY <1>6, <3>1
  <2>2. run'.left = <<>>
    BY <1>2 DEF NoRun, Deliver, Task
  <2> QED BY <1>2, <2>1, <2>2, HoldsNothing DEF Owes, Waits
<1>9. OwedInv'
  <2>1. ASSUME NEW q \in Promises, NEW r \in Reactions, Owes(q, r), r.next \in Promises
        PROVE  Untouched(r.next)
    BY <1>1, <1>2, <1>7, <2>1, OwedLeads DEF Untouched
  <2> QED BY <1>1, <1>2, <1>7, <1>8, <2>1, OwedKept
<1>10. OrderInv'
  <2>1. Rises(t.left) /\ \A rs : Precedes(rs, t.left)
    BY <1>5 DEF Rises, Precedes
  <2>2. Ordered(micro', run)
    BY <1>1, <1>6, <2>1, OrderAppended DEF OrderInv, PromisesTypeOK
  <2>3. micro' \in Seq(QueuedTasks)
    BY DEF PromisesTypeOK
  <2> QED BY <1>2, <2>2, <2>3, OrderEnded DEF OrderInv
<1>11. TaskInv'
  <2>1. CASE due
    <3>1. Sound(t)'
      BY <1>2, <1>3, <1>5, <2>1 DEF Sound, Settled
    <3> QED BY <1>1, <1>2, <1>6, <1>7, <2>1, <3>1, TaskKept
  <2>2. CASE ~due
    BY <1>1, <1>2, <1>6, <1>7, <2>2, TaskKept
  <2> QED BY <2>1, <2>2
<1>12. RunInv'
  BY <1>2, <1>3, RunIdle
<1>13. FreshInv'
  BY <1>1, <1>2, <1>7, FreshKept
<1>14. LinkInv'
  BY <1>1, <1>2, <1>7, LinksStay DEF LinkInv
<1>15. HandledInv' /\ MarkInv'
  BY <1>1, <1>2, <1>7, HandledKept, MarksKept
<1>16. JudgeInv'
  <2>1. /\ \A q : Checking(q) => Checking(q)'
        /\ \A q : Rejected(q) => Rejected(q)'
        /\ \A q : due /\ q = run.on => Checking(q)'
    <3>1. CASE due
      <4>1. IsCheck(t, run.on)
        BY <1>5 DEF IsCheck
      <4>2. \A q : (Checking(q) => Checking(q)') /\ (Rejected(q) => Rejected(q)')
        BY <1>1, <1>6, <3>1, JudgeAppended
      <4>3. \A q : IsCheck(t, q) => Checking(q)'
        BY <1>1, <1>6, <3>1, JudgeAppended
      <4>4. \A q : q = run.on => Checking(q)'
        BY <4>1, <4>3
      <4> QED BY <4>2, <4>4
    <3>2. CASE ~due
      BY <1>6, <3>2 DEF Checking, Rejected
    <3> QED BY <3>1, <3>2
  <2>2. ASSUME NEW q \in own, q \in checked' PROVE q \in checked \/ Checking(q)'
    BY <1>6, <2>1, <2>2
  <2>3. ASSUME NEW q \in own, Rejecting(q) PROVE Rejecting(q)' \/ Checking(q)' \/ Judged(q)'
    <3>1. CASE Rejected(q)
      BY <2>1, <3>1 DEF Rejecting, Rejected
    <3>2. CASE IsRejection(run, q)
      <4>1. q = run.on /\ run.check /\ q \in Promises
        BY <1>3, <3>2 DEF IsRejection
      <4>2. CASE due
        BY <2>1, <4>1, <4>2
      <4>3. CASE ~due
        <5>1. Judged(q) \/ Checking(q)
          BY <1>1, <4>1, <4>3 DEF JudgeInv
        <5>2. Judged(q) => Judged(q)'
          BY <1>2, <1>7, <4>1, ReachesMore DEF Judged
        <5> QED BY <2>1, <5>1, <5>2
      <4> QED BY <4>2, <4>3
    <3> QED BY <2>3, <3>1, <3>2 DEF Rejecting, Rejected
  <2>4. own \subseteq Promises /\ checked' \subseteq own'
    BY <1>1, <1>2, <1>3, <1>6 DEF PromisesTypeOK, JudgeInv
  <2> QED BY <1>1, <1>2, <1>7, <2>1, <2>2, <2>3, <2>4, JudgeKept
<1> QED BY <1>9, <1>10, <1>11, <1>12, <1>13, <1>14, <1>15, <1>16 DEF IInv


LEMMA StillStep ==
  ASSUME IInv, UNCHANGED promiseVars \/ OtherMacrotask
  PROVE  IInv'
<1>1. /\ PromisesTypeOK /\ OwedInv /\ OrderInv /\ TaskInv /\ RunInv /\ FreshInv
      /\ LinkInv /\ HandledInv /\ JudgeInv /\ MarkInv
  BY DEF IInv
<1>2. /\ state' = state /\ reactions' = reactions /\ parent' = parent /\ handled' = handled
      /\ checked' = checked /\ reported' = reported /\ own' = own /\ micro' = micro
      /\ macro' = macro /\ run' = run /\ cur' = cur /\ attached' = attached /\ ran' = ran
      /\ consumed' = consumed /\ flows' = flows /\ joined' = joined
  BY DEF promiseVars, OtherMacrotask, marks, history
<1>3. pc' = pc \/ (pc = "loop" /\ pc' = "code")
  BY DEF promiseVars, OtherMacrotask
<1>4. PromisesTypeOK'
  BY <1>1, <1>2, <1>3 DEF PromisesTypeOK
<1>5. /\ \A p, r : Owes(p, r)' <=> Owes(p, r)
      /\ \A p, r : Linked(p, r)' <=> Linked(p, r)
  BY <1>2 DEF Owes, Waits, Linked, Adopters
<1>6. OwedInv' /\ OrderInv'
  BY <1>1, <1>2, <1>5 DEF OwedInv, OrderInv
<1>7. TaskInv'
  <2>1. \A t : Sound(t)' <=> Sound(t)
    BY <1>2 DEF Sound, Settled
  <2> QED BY <1>1, <1>2, <2>1 DEF TaskInv
<1>8. RunInv'
  <2>1. CASE pc = "loop" /\ pc' = "code"
    BY <1>1, <1>2, <2>1, RunIdle DEF RunInv
  <2>2. CASE pc' = pc
    <3>1. Linked(run.on, cur)' <=> Linked(run.on, cur)
      BY <1>2 DEF Linked, Adopters
    <3> QED BY <1>1, <1>2, <1>5, <2>2, <3>1 DEF RunInv
  <2> QED BY <1>3, <2>1, <2>2
<1>9. FreshInv' /\ LinkInv'
  BY <1>1, <1>2 DEF FreshInv, LinkInv, Adopters, Done
<1>10. \A p : HandledDownstream(p)' <=> HandledDownstream(p)
  BY <1>2 DEF HandledDownstream, Downstream, Follows
<1>11. HandledInv' /\ MarkInv'
  BY <1>1, <1>2, <1>10 DEF HandledInv, Excused, Adopters, MarkInv
<1>12. JudgeInv'
  BY <1>1, <1>2, <1>10 DEF JudgeInv, Judged, Checking, Rejecting
<1> QED BY <1>4, <1>6, <1>7, <1>8, <1>9, <1>11, <1>12 DEF IInv

-------------------------------------------------------------------------------
LEMMA Initially == PromisesInit => IInv
<1> SUFFICES ASSUME PromisesInit PROVE IInv
  OBVIOUS
<1>1. PromisesTypeOK
  BY TaskTypes, PromisesAssumption DEF PromisesInit, PromisesTypeOK
<1>2. \A p \in Promises : \A r : ~Owes(p, r)
  BY PromisesAssumption DEF PromisesInit, Owes, Waits, Queued, NoRun, Deliver, Task
<1>3. OwedInv
  <2>1. \A p \in Promises : ran[p] = 0 /\ attached[p] = 0
    BY DEF PromisesInit
  <2>2. \A m \in 1..MaxAttached : ~(0 < m /\ m <= 0)
    BY PromisesAssumption
  <2> QED BY <1>2, <2>1, <2>2 DEF OwedInv
<1>4. OrderInv /\ TaskInv
  BY DEF PromisesInit, OrderInv, Ordered, Rises, Precedes, TaskInv, NoRun, Deliver, Task
<1>5. RunInv
  BY PromisesAssumption DEF PromisesInit, RunInv, NoRun, Deliver, Task
<1>6. FreshInv /\ LinkInv
  BY PromisesAssumption DEF PromisesInit, FreshInv, LinkInv, Adopters
<1>7. HandledInv /\ JudgeInv /\ MarkInv
  BY DEF PromisesInit, HandledInv, JudgeInv, MarkInv
<1> QED BY <1>1, <1>3, <1>4, <1>5, <1>6, <1>7 DEF IInv

LEMMA TypeStep ==
  ASSUME IInv, Naps = {}, PromisesNext
  PROVE  PromisesTypeOK'
<1>1. PromisesTypeOK /\ OwedInv /\ OrderInv /\ TaskInv /\ RunInv
  BY DEF IInv
<1>2. CASE Program
  BY <1>1, <1>2, ProgramTypes
<1>3. CASE EndCode \/ OtherMacrotask
  BY <1>1, <1>3 DEF EndCode, OtherMacrotask, PromisesTypeOK, marks, history
<1>4. CASE Callback
  BY <1>1, <1>4, ChainTypes, ReturnTypes DEF Callback, CallbackReturns, CallbackThrows, Outcomes
<1>5. CASE Loop
  BY <1>1, <1>5, LoopTypes
<1>6. ~StartMacrotask
  BY <1>1 DEF StartMacrotask, TaskInv
<1> QED BY <1>2, <1>3, <1>4, <1>5, <1>6 DEF PromisesNext

LEMMA Inductive ==
  ASSUME IInv, Naps = {}, [PromisesNext]_promiseVars
  PROVE  IInv'
<1>1. ASSUME PromisesNext PROVE IInv'
  <2>1. PromisesTypeOK'
    BY <1>1, TypeStep
  <2>2. CASE Program
    <3>1. ASSUME NEW p \in Promises, Construct(p) PROVE IInv'
      BY <2>1, <3>1, ConstructStep
    <3>2. ASSUME NEW p \in Promises, Nap(p) PROVE IInv'
      BY <3>2 DEF Nap
    <3>3. ASSUME NEW p \in Promises, AwaitPromise(p) PROVE IInv'
      BY <2>1, <3>3, AwaitStep
    <3>4. ASSUME NEW p \in Promises, NEW o \in Outcomes, Settle(p, o) PROVE IInv'
      BY <2>1, <3>4, SettleStep
    <3>5. ASSUME NEW p \in Promises, NEW n \in Promises, NEW k \in Ways, Attach(p, k, n)
          PROVE  IInv'
      BY <2>1, <3>5, AttachStep
    <3> QED BY <2>2, <3>1, <3>2, <3>3, <3>4, <3>5 DEF Program, Outcomes, Ways
  <2>3. CASE EndCode
    BY <2>1, <2>3, EndCodeStep
  <2>4. CASE Callback
    <3>1. ASSUME NEW o \in Outcomes, Chain(o) PROVE IInv'
      BY <2>1, <3>1, ChainStep
    <3>2. ASSUME NEW q \in Promises, ReturnsSettled(q) PROVE IInv'
      BY <2>1, <3>2, ReturnsSettledStep
    <3>3. ASSUME NEW q \in Promises, ReturnsPending(q) PROVE IInv'
      BY <2>1, <3>3, ReturnsPendingStep
    <3> QED BY <2>4, <3>1, <3>2, <3>3 DEF Callback, CallbackReturns, CallbackThrows, Outcomes
  <2>5. CASE Loop
    BY <2>1, <2>5, StartStep, CheckStep, PassOnStep, StartCallbackStep, WakeFrameStep,
       EndDeliveryStep DEF Loop
  <2>6. ~StartMacrotask
    BY DEF IInv, StartMacrotask, TaskInv
  <2>7. CASE OtherMacrotask
    BY <2>7, StillStep
  <2> QED BY <1>1, <2>2, <2>3, <2>4, <2>5, <2>6, <2>7 DEF PromisesNext
<1> QED BY <1>1, StillStep

LEMMA Always == Naps = {} => (PromisesSpec => []IInv)
<1> SUFFICES ASSUME Naps = {} PROVE PromisesSpec => []IInv
  OBVIOUS
<1>1. IInv /\ [PromisesNext]_promiseVars => IInv'
  BY Inductive
<1> QED BY <1>1, Initially, PTL DEF PromisesSpec

\* Types are kept whatever the program attaches, settles and returns.
THEOREM TypeCorrect == Naps = {} => (PromisesSpec => []PromisesTypeOK)
<1> SUFFICES ASSUME Naps = {} PROVE PromisesSpec => []PromisesTypeOK
  OBVIOUS
<1>1. IInv => PromisesTypeOK
  BY DEF IInv
<1>2. PromisesSpec => []IInv
  BY Always
<1> QED BY <1>1, <1>2, PTL

\* When the microtasks are done, whatever reject_promise rejected has been reported
\* or has a handler downstream: a mark never hides a rejection that nobody handles.
THEOREM RejectionsJudged == Naps = {} => (PromisesSpec => []RejectionsAreJudged)
<1> SUFFICES ASSUME Naps = {} PROVE PromisesSpec => []RejectionsAreJudged
  OBVIOUS
<1>1. IInv => RejectionsAreJudged
  <2> SUFFICES ASSUME IInv, Quiet, NEW p \in own, state[p] = "rejected", p \notin reported
               PROVE  HandledDownstream(p)
    BY DEF RejectionsAreJudged
  <2>1. Judged(p) \/ Checking(p) \/ Rejecting(p)
    BY DEF IInv, JudgeInv
  <2>2. run = NoRun /\ micro = <<>>
    BY DEF IInv, RunInv, Quiet
  <2>3. ~Checking(p) /\ ~Rejecting(p)
    BY <2>2 DEF Checking, Rejecting, IsRejection, NoRun, Deliver, Task
  <2> QED BY <2>1, <2>3 DEF Judged
<1>2. PromisesSpec => []IInv
  BY Always
<1> QED BY <1>1, <1>2, PTL

LEMMA OnlyChecksReport ==
  ASSUME PromisesNext, reported' # reported
  PROVE  UnhandledCheck
<1>1. ~Program
  BY DEF Program, Construct, Nap, AwaitPromise, Settle, Attach, marks
<1>2. ~Callback
  BY DEF Callback, CallbackReturns, CallbackThrows, Chain, ReturnsSettled, ReturnsPending, marks
<1>3. ~EndCode /\ ~StartMacrotask /\ ~OtherMacrotask
  BY DEF EndCode, StartMacrotask, OtherMacrotask, marks
<1>4. Loop => UnhandledCheck
  BY DEF Loop, StartDelivery, StartFrame, PassOn, StartCallback, WakeFrame, EndDelivery, NapEnds,
     marks
<1> QED BY <1>1, <1>2, <1>3, <1>4 DEF PromisesNext

\* As long as no callback has returned a promise, nobody is reported who has a
\* handler downstream: the marks have gone all the way up from each handler.
THEOREM ReportsAreTrue == Naps = {} => (PromisesSpec => NoFalseReport)
<1> SUFFICES ASSUME Naps = {} PROVE PromisesSpec => NoFalseReport
  OBVIOUS
<1>1. IInv /\ IInv' /\ [PromisesNext]_promiseVars =>
        [joined = {} => \A p \in reported' \ reported : ~HandledDownstream(p)]_promiseVars
  <2> SUFFICES ASSUME IInv, IInv', PromisesNext, joined = {}, NEW p \in reported' \ reported
               PROVE  ~HandledDownstream(p)
    OBVIOUS
  <2>1. UnhandledCheck /\ p = Head(micro).on /\ p \notin handled
    BY OnlyChecksReport DEF UnhandledCheck
  <2>2. p \in Promises /\ state[p] = "rejected"
    <3>1. micro \in Seq(QueuedTasks) /\ micro # <<>> /\ Head(micro).do = "check"
      BY <2>1 DEF IInv, PromisesTypeOK, UnhandledCheck, Start
    <3>2. Sound(Head(micro))
      BY <3>1, Taken DEF IInv, TaskInv
    <3> QED BY <2>1, <3>1, <3>2 DEF Sound
  <2> DEFINE S == {y \in Promises : y \notin handled /\ state[y] # "fulfilled"}
  <2>3. \A c \in consumed : c \notin S
    BY DEF IInv, MarkInv
  <2>4. Follows(S)
    <3> SUFFICES ASSUME NEW f \in flows, f[1] \in S PROVE f[2] \in S
      BY DEF Follows
    <3>1. PICK a \in Promises, b \in Promises : f = <<a, b>>
      BY DEF IInv, PromisesTypeOK
    <3>2. parent[b] = a /\ a # None /\ a \notin handled /\ state[a] # "fulfilled"
      BY <3>1, PromisesAssumption DEF IInv, MarkInv
    <3>3. b \notin handled
      BY <3>2 DEF IInv, MarkInv
    <3>4. state[b] # "fulfilled"
      BY <2>3, <3>1, <3>2 DEF IInv, LinkInv, Done
    <3> QED BY <3>1, <3>3, <3>4
  <2>5. p \in S
    BY <2>1, <2>2
  <2>6. Downstream(p) \subseteq S
    BY <2>2, <2>4, <2>5, DownIsLeast
  <2> QED BY <2>3, <2>6 DEF HandledDownstream
<1>2. PromisesSpec => []IInv
  BY Always
<1> QED BY <1>1, <1>2, PTL DEF PromisesSpec, NoFalseReport


-------------------------------------------------------------------------------
LEMMA Evolves ==
  ASSUME IInv, Naps = {}, PromisesNext
  PROVE  PC!Evolve
<1>1. PromisesTypeOK /\ OwedInv /\ OrderInv /\ TaskInv /\ RunInv
  BY DEF IInv
<1> USE DEF PC!Evolve
<1>2. ASSUME NEW n \in Promises, state[n] = "pending", NEW o \in Outcomes,
             state' = [state EXCEPT ![n] = o]
      PROVE  PC!Evolve
  BY <1>2 DEF Outcomes
<1>3. ASSUME NEW n \in Promises, state[n] = "unused", state' = [state EXCEPT ![n] = "pending"]
      PROVE  PC!Evolve
  BY <1>3
<1>4. CASE Program
  <2>1. ASSUME NEW p \in Promises, Construct(p) PROVE PC!Evolve
    BY <1>3, <2>1 DEF Construct
  <2>2. ASSUME NEW p \in Promises, Nap(p) PROVE PC!Evolve
    BY <1>3, <2>2 DEF Nap
  <2>3. ASSUME NEW p \in Promises, AwaitPromise(p) PROVE PC!Evolve
    BY <2>3 DEF AwaitPromise
  <2>4. ASSUME NEW p \in Promises, NEW o \in Outcomes, Settle(p, o) PROVE PC!Evolve
    BY <1>2, <2>4 DEF Settle, SettleOwn
  <2>5. ASSUME NEW p \in Promises, NEW n \in Promises, NEW k \in Ways, Attach(p, k, n)
        PROVE  PC!Evolve
    BY <1>3, <2>5 DEF Attach
  <2> QED BY <1>4, <2>1, <2>2, <2>3, <2>4, <2>5 DEF Program, Outcomes, Ways
<1>5. CASE Callback
  <2>1. ASSUME NEW o \in Outcomes, EndCallback, SettleNext(cur.next, o) PROVE PC!Evolve
    BY <1>1, <1>2, <2>1, CallbackLeads DEF EndCallback, SettleNext
  <2>2. ASSUME NEW o \in Outcomes, Chain(o) PROVE PC!Evolve
    BY <1>1, <2>1, <2>2, CallbackLeads DEF Chain, EndCallback
  <2>3. ASSUME NEW q \in Promises, ReturnsSettled(q) PROVE PC!Evolve
    BY <2>1, <2>3 DEF ReturnsSettled, Settled, Outcomes
  <2>4. ASSUME NEW q \in Promises, ReturnsPending(q) PROVE PC!Evolve
    BY <2>4 DEF ReturnsPending
  <2> QED BY <1>5, <2>2, <2>3, <2>4 DEF Callback, CallbackReturns, CallbackThrows, Outcomes
<1>6. CASE PassOn
  <2>1. /\ Foremost.next \in Promises /\ state[Foremost.next] = "pending"
        /\ run.outcome \in Outcomes
    BY <1>1, <1>6, RunLeads DEF PassOn, NextReaction, PassesOn
  <2> QED BY <1>2, <1>6, <2>1 DEF PassOn, SettleNext
<1>7. CASE Loop /\ ~PassOn
  BY <1>7 DEF Loop, StartDelivery, StartFrame, UnhandledCheck, StartCallback, WakeFrame, EndDelivery
<1>8. CASE EndCode \/ StartMacrotask \/ OtherMacrotask
  BY <1>8 DEF EndCode, StartMacrotask, OtherMacrotask
<1> QED BY <1>4, <1>5, <1>6, <1>7, <1>8 DEF PromisesNext

LEMMA Attaches ==
  ASSUME PromisesNext
  PROVE  PC!Attach
<1> USE DEF PC!Attach
<1>1. CASE Program
  <2>1. ASSUME NEW p \in Promises, Construct(p) \/ Nap(p) PROVE PC!Attach
    BY <2>1 DEF Construct, Nap, history
  <2>2. ASSUME NEW p \in Promises, AwaitPromise(p) PROVE PC!Attach
    BY <2>2 DEF AwaitPromise
  <2>3. ASSUME NEW p \in Promises, NEW o \in Outcomes, Settle(p, o) PROVE PC!Attach
    BY <2>3 DEF Settle, history
  <2>4. ASSUME NEW p \in Promises, NEW n \in Promises, NEW k \in Ways, Attach(p, k, n)
        PROVE  PC!Attach
    BY <2>4 DEF Attach
  <2> QED BY <1>1, <2>1, <2>2, <2>3, <2>4 DEF Program, Outcomes, Ways
<1>2. CASE Callback
  <2>1. ASSUME NEW o \in Outcomes, Chain(o) PROVE PC!Attach
    BY <2>1 DEF Chain, history
  <2>2. ASSUME NEW q \in Promises, ReturnsSettled(q) PROVE PC!Attach
    BY <2>2 DEF ReturnsSettled
  <2>3. ASSUME NEW q \in Promises, ReturnsPending(q) PROVE PC!Attach
    BY <2>3 DEF ReturnsPending
  <2> QED BY <1>2, <2>1, <2>2, <2>3 DEF Callback, CallbackReturns, CallbackThrows, Outcomes
<1>3. CASE Loop
  BY <1>3 DEF Loop, StartDelivery, StartFrame, UnhandledCheck, PassOn, StartCallback, WakeFrame,
     EndDelivery, NapEnds, history
<1>4. CASE EndCode \/ StartMacrotask \/ OtherMacrotask
  BY <1>4 DEF EndCode, StartMacrotask, OtherMacrotask, history
<1> QED BY <1>1, <1>2, <1>3, <1>4 DEF PromisesNext

LEMMA Reacts ==
  ASSUME IInv, PromisesNext
  PROVE  PC!React
<1>1. PromisesTypeOK /\ OwedInv /\ OrderInv /\ RunInv
  BY DEF IInv
<1> USE DEF PC!React
<1>2. ASSUME NextReaction PROVE PC!React
  <2>1. run.on \in Promises /\ state[run.on] \in Outcomes /\ run.left # <<>>
    BY <1>1, <1>2, RunLeads DEF NextReaction
  <2>2. Foremost \in Reactions /\ Owes(run.on, Foremost) /\ Foremost.nth = ran[run.on] + 1
    BY <1>1, <2>1, IsNext DEF Outcomes
  <2>3. ran[run.on] < attached[run.on]
    BY <1>1, <2>1, <2>2, OwedTypes DEF OwedInv
  <2>4. ran' = [ran EXCEPT ![run.on] = @ + 1]
    BY <1>2, <2>2 DEF NextReaction
  <2> QED BY <2>1, <2>3, <2>4 DEF PC!Settled, Outcomes
<1>3. ASSUME ~NextReaction PROVE ran' = ran
  <2>1. Program => ran' = ran
    BY DEF Program, Construct, Nap, AwaitPromise, Settle, Attach, history
  <2>2. Callback => ran' = ran
    BY DEF Callback, CallbackReturns, CallbackThrows, Chain, ReturnsSettled, ReturnsPending, history
  <2>3. EndCode \/ StartMacrotask \/ OtherMacrotask => ran' = ran
    BY DEF EndCode, StartMacrotask, OtherMacrotask, history
  <2>4. Loop => ran' = ran
    BY <1>3 DEF Loop, StartDelivery, StartFrame, UnhandledCheck, PassOn, StartCallback, WakeFrame,
       EndDelivery, NapEnds, history
  <2> QED BY <2>1, <2>2, <2>3, <2>4 DEF PromisesNext
<1> QED BY <1>2, <1>3

\* Promises settle once, and run each reaction once, after they settle and in the
\* order of attachment.
THEOREM PromisesImplementContract == Naps = {} => (PromisesSpec => ImplementsContract)
<1> SUFFICES ASSUME Naps = {} PROVE PromisesSpec => PC!AbsSpec
  BY DEF ImplementsContract
<1>1. PromisesInit => PC!AbsInit
  BY DEF PromisesInit, PC!AbsInit
<1>2. IInv /\ [PromisesNext]_promiseVars => [PC!AbsNext]_(PC!absVars)
  <2>1. IInv /\ PromisesNext => PC!AbsNext
    BY Evolves, Attaches, Reacts DEF PC!AbsNext
  <2>2. UNCHANGED promiseVars => UNCHANGED PC!absVars
    BY DEF promiseVars, PC!absVars
  <2> QED BY <2>1, <2>2
<1>3. PromisesSpec => []IInv
  BY Always
<1> QED BY <1>1, <1>2, <1>3, PTL DEF PromisesSpec, PC!AbsSpec
===============================================================================
