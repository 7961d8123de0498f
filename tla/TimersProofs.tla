----------------------------- MODULE TimersProofs -----------------------------
(* Types and ownership of timers, for any number of loops and timers.          *)
EXTENDS Timers, FiniteSetTheorems, TLAPS

\* A job is queued on the loop whose thread created its timer.
JobsAtHome ==
  \A l \in Loops : \A i \in DOMAIN jobs[l] : owner[jobs[l][i].timer] = l

\* A close lambda is queued only for a timer whose flag is set, and whose handle
\* no expiration has closed.
CloseInv ==
  \A l \in Loops : \A i \in DOMAIN jobs[l] :
    jobs[l][i].do = "close" =>
      jobs[l][i].timer \in cancelled /\ handle[jobs[l][i].timer] # "freed"

\* A timer's start lambda is queued once, before there is a handle, and while it
\* can still find the entry or the flag.
StartInv ==
  \A l \in Loops : \A i \in DOMAIN jobs[l] :
    jobs[l][i].do = "start" =>
      /\ handle[jobs[l][i].timer] = "null"
      /\ jobs[l][i].timer \in cancelled \cup entry
      /\ \A j \in DOMAIN jobs[l] :
           jobs[l][j].do = "start" /\ jobs[l][j].timer = jobs[l][i].timer => j = i

\* What the map of timers knows of a handle.
EntryInv ==
  \A t \in Timers :
    /\ handle[t] \in {"live", "spent"} => t \in entry
    /\ handle[t] = "freed" => t \notin entry
    /\ owner[t] = Nowhere => handle[t] = "null" /\ t \notin entry \cup cancelled

\* An entry without a handle waits for its start lambda; a handle whose timer is
\* cancelled waits for its close lambda.
LambdaAt(t) ==
  /\ handle[t] = "null" /\ t \in entry => Queued(owner[t], "start", t)
  /\ handle[t] = "live" /\ t \in cancelled => Queued(owner[t], "close", t)
  /\ handle[t] = "spent" => t \in cancelled /\ Queued(owner[t], "close", t)

LambdaInv == \A t \in Timers : LambdaAt(t)

\* A loop that was not told to stop leaves run_until_idle when no timer is left,
\* and nothing in its teardown brings one back; a thread ends when none runs.
EndAt(l) ==
  /\ Left(l) /\ ~stop[l] =>
       /\ ~other[l] /\ at[l] # "late"
       /\ \A t \in Timers : owner[t] = l => t \notin entry
  /\ at[l] = "done" => \A t \in Timers : owner[t] = l => handle[t] # "live"

EndInv == \A l \in Loops : EndAt(l)

IInv ==
  /\ TypeOK /\ JobsAtHome /\ CloseInv /\ StartInv /\ EntryInv
  /\ LambdaInv /\ EndInv

USE TimersAssumption

\* Every job is of a timer.
LEMMA JobsTyped ==
  ASSUME TypeOK
  PROVE  \A m \in Loops : \A i \in DOMAIN jobs[m] :
           jobs[m][i] \in Job /\ jobs[m][i].timer \in Timers
<1>1. \A m \in Loops : jobs[m] \in Seq(Job)
  BY DEF TypeOK
<1>2. \A m \in Loops : \A i \in DOMAIN jobs[m] : jobs[m][i] \in Job
  BY <1>1
<1> QED BY <1>2 DEF Job

Kinds == {"start", "close", "call"}

\* A job is added at the end of a loop's queue.
Appends(l, w, t) ==
  /\ jobs' \in [Loops -> Seq(Job)] /\ wake' \in [Loops -> BOOLEAN]
  /\ \A m \in Loops : \A i \in DOMAIN jobs'[m] :
       \/ i \in DOMAIN jobs[m] /\ jobs'[m][i] = jobs[m][i]
       \/ m = l /\ i = Len(jobs[l]) + 1 /\ jobs'[m][i] = [do |-> w, timer |-> t]

\* Appending changes no other job.
LEMMA Appended ==
  ASSUME TypeOK, NEW l \in Loops, NEW t \in Timers, NEW w \in Kinds, RunOnLoop(l, w, t)
  PROVE  Appends(l, w, t)
<1>1. jobs[l] \in Seq(Job) /\ [do |-> w, timer |-> t] \in Job
  BY DEF TypeOK, Job, Kinds
<1>2. jobs'[l] = Append(jobs[l], [do |-> w, timer |-> t])
  BY DEF RunOnLoop, TypeOK
<1>3. jobs' \in [Loops -> Seq(Job)] /\ \A m \in Loops : m # l => jobs'[m] = jobs[m]
  BY <1>1 DEF RunOnLoop, TypeOK
<1>4. wake' \in [Loops -> BOOLEAN]
  BY DEF RunOnLoop, TypeOK
<1>5. \A i \in DOMAIN jobs'[l] :
        \/ i \in DOMAIN jobs[l] /\ jobs'[l][i] = jobs[l][i]
        \/ i = Len(jobs[l]) + 1 /\ jobs'[l][i] = [do |-> w, timer |-> t]
  BY <1>1, <1>2
<1> QED BY <1>3, <1>4, <1>5 DEF Appends

\* The oldest job of a loop's queue is taken.
Shift(m, l, i) == IF m = l THEN i + 1 ELSE i
Takes(l, w, t) ==
  /\ jobs' \in [Loops -> Seq(Job)]
  /\ 1 \in DOMAIN jobs[l] /\ jobs[l][1] = [do |-> w, timer |-> t]
  /\ \A m \in Loops : \A i \in DOMAIN jobs'[m] :
       /\ i \in Nat \ {0} /\ Shift(m, l, i) \in DOMAIN jobs[m]
       /\ jobs'[m][i] = jobs[m][Shift(m, l, i)]

\* Taking a job shifts the others of its queue by one.
LEMMA Taken ==
  ASSUME TypeOK, NEW l \in Loops, NEW t \in Timers, NEW w \in Kinds, TakeJob(l, w, t)
  PROVE  Takes(l, w, t)
<1>1. jobs[l] \in Seq(Job) /\ jobs[l] # <<>> /\ Head(jobs[l]) = [do |-> w, timer |-> t]
  BY DEF TypeOK, TakeJob
<1>2. jobs'[l] = Tail(jobs[l])
  BY DEF TakeJob, TypeOK
<1>3. jobs' \in [Loops -> Seq(Job)] /\ \A m \in Loops : m # l => jobs'[m] = jobs[m]
  BY <1>1 DEF TakeJob, TypeOK
<1>4. \A i \in DOMAIN jobs'[l] :
        i \in Nat \ {0} /\ i + 1 \in DOMAIN jobs[l] /\ jobs'[l][i] = jobs[l][i + 1]
  BY <1>1, <1>2
<1>5. \A m \in Loops : m # l => \A i \in DOMAIN jobs'[m] :
        i \in Nat \ {0} /\ i \in DOMAIN jobs[m] /\ jobs'[m][i] = jobs[m][i]
  BY <1>3 DEF TypeOK
<1>6. 1 \in DOMAIN jobs[l] /\ jobs[l][1] = [do |-> w, timer |-> t]
  BY <1>1
<1> QED BY <1>3, <1>4, <1>5, <1>6 DEF Shift, Takes

\* What taking or appending a job keeps when the timers' owners stay.
LEMMA TakesHome ==
  ASSUME IInv, NEW l \in Loops, NEW t \in Timers, NEW w \in Kinds, Takes(l, w, t),
         owner' = owner
  PROVE  JobsAtHome' /\ jobs' \in [Loops -> Seq(Job)]
<1>1. \A m \in Loops : \A i \in DOMAIN jobs'[m] : owner'[jobs'[m][i].timer] = m
  BY DEF IInv, JobsAtHome, Takes
<1> QED BY <1>1 DEF JobsAtHome, Takes

\* The same of a job that is queued where its timer was created.
LEMMA AppendsHome ==
  ASSUME IInv, NEW l \in Loops, NEW t \in Timers, NEW w \in Kinds, Appends(l, w, t),
         owner[t] = l, owner' = owner
  PROVE  JobsAtHome' /\ jobs' \in [Loops -> Seq(Job)] /\ wake' \in [Loops -> BOOLEAN]
<1>1. JobsAtHome'
  <2> SUFFICES ASSUME NEW m \in Loops, NEW i \in DOMAIN jobs'[m]
               PROVE  owner[jobs'[m][i].timer] = m
    BY DEF JobsAtHome
  <2>1. CASE i \in DOMAIN jobs[m] /\ jobs'[m][i] = jobs[m][i]
    BY <2>1 DEF IInv, JobsAtHome
  <2>2. CASE m = l /\ jobs'[m][i] = [do |-> w, timer |-> t]
    BY <2>2
  <2> QED BY <2>1, <2>2 DEF Appends
<1> QED BY <1>1 DEF Appends

\* Start lambdas stay the only ones of their timers when a job is taken.
LEMMA TakesOnce ==
  ASSUME IInv, NEW l \in Loops, NEW t \in Timers, NEW w \in Kinds, Takes(l, w, t),
         NEW m \in Loops, NEW i \in DOMAIN jobs'[m], NEW j \in DOMAIN jobs'[m],
         jobs'[m][i].do = "start", jobs'[m][j].do = "start",
         jobs'[m][j].timer = jobs'[m][i].timer
  PROVE  j = i
<1>1. /\ i \in Nat /\ j \in Nat
      /\ Shift(m, l, i) \in DOMAIN jobs[m] /\ jobs'[m][i] = jobs[m][Shift(m, l, i)]
      /\ Shift(m, l, j) \in DOMAIN jobs[m] /\ jobs'[m][j] = jobs[m][Shift(m, l, j)]
  BY DEF Takes
<1>2. Shift(m, l, j) = Shift(m, l, i)
  BY <1>1 DEF IInv, StartInv
<1> QED BY <1>1, <1>2 DEF Shift

\* A queued lambda stays queued when a job is appended, and the new job is.
LEMMA AppendKeeps ==
  ASSUME TypeOK, NEW l \in Loops, NEW t \in Timers, NEW w \in Kinds, RunOnLoop(l, w, t)
  PROVE  /\ Queued(l, w, t)'
         /\ \A m \in Loops, k \in Kinds, u \in Timers : Queued(m, k, u) => Queued(m, k, u)'
<1>1. /\ jobs[l] \in Seq(Job) /\ jobs'[l] = Append(jobs[l], [do |-> w, timer |-> t])
      /\ \A m \in Loops : m # l => jobs'[m] = jobs[m]
  BY DEF RunOnLoop, TypeOK
<1>2. \A i \in DOMAIN jobs[l] : i \in DOMAIN jobs'[l] /\ jobs'[l][i] = jobs[l][i]
  BY <1>1
<1>3. \E i \in DOMAIN jobs'[l] : jobs'[l][i] = [do |-> w, timer |-> t]
  <2>1. Len(jobs[l]) + 1 \in DOMAIN jobs'[l]
    BY <1>1
  <2>2. jobs'[l][Len(jobs[l]) + 1] = [do |-> w, timer |-> t]
    BY <1>1
  <2> QED BY <2>1, <2>2
<1> QED BY <1>1, <1>2, <1>3 DEF Queued

\* And when another one is taken.
LEMMA TakeKeeps ==
  ASSUME TypeOK, NEW l \in Loops, NEW t \in Timers, NEW w \in Kinds, TakeJob(l, w, t),
         NEW m \in Loops, NEW k \in Kinds, NEW u \in Timers, Queued(m, k, u),
         k # w \/ u # t
  PROVE  Queued(m, k, u)'
<1>1. /\ jobs[l] \in Seq(Job) /\ jobs[l] # <<>> /\ jobs[l][1] = [do |-> w, timer |-> t]
      /\ jobs'[l] = Tail(jobs[l]) /\ \A n \in Loops : n # l => jobs'[n] = jobs[n]
  BY DEF TakeJob, TypeOK
<1>2. PICK i \in DOMAIN jobs[m] : jobs[m][i] = [do |-> k, timer |-> u]
  BY DEF Queued
<1>3. CASE m # l
  BY <1>1, <1>2, <1>3 DEF Queued
<1>4. CASE m = l
  <2>1. i # 1
    <3>1. i = 1 => [do |-> k, timer |-> u] = [do |-> w, timer |-> t]
      BY <1>1, <1>2, <1>4
    <3> QED BY <3>1
  <2>2. i - 1 \in DOMAIN jobs'[l] /\ jobs'[l][i - 1] = jobs[l][i]
    BY <1>1, <1>2, <1>4, <2>1
  <2> QED BY <1>2, <1>4, <2>2 DEF Queued
<1> QED BY <1>3, <1>4

\* Lambdas keep waiting for the timers a step does not touch.
LEMMA LambdaKept ==
  ASSUME IInv, NEW u \in Timers, owner'[u] = owner[u], handle'[u] = handle[u],
         u \in entry' <=> u \in entry, u \in cancelled' => u \in cancelled,
         u \in cancelled => u \in cancelled',
         \A m \in Loops, k \in {"start", "close"} : Queued(m, k, u) => Queued(m, k, u)'
  PROVE  LambdaAt(u)'
<1>1. LambdaAt(u)
  BY DEF IInv, LambdaInv
<1>2. owner[u] \in Loops \/ (handle[u] = "null" /\ u \notin entry)
  BY DEF IInv, TypeOK, EntryInv
<1>3. CASE owner[u] \in Loops
  <2>1. \A k \in {"start", "close"} : Queued(owner[u], k, u) => Queued(owner[u], k, u)'
    BY <1>3 DEF Queued
  <2> QED BY <1>1, <2>1 DEF LambdaAt
<1>4. CASE owner[u] \notin Loops
  BY <1>2, <1>4 DEF LambdaAt
<1> QED BY <1>3, <1>4

\* A step that leaves the queues and the timers alone keeps all but the types.
LEMMA LoopStep ==
  ASSUME IInv, NEW l \in Loops, OnLoop(l)
  PROVE  IInv'
<1> USE DEF IInv, TypeOK, Places, Left
<1>1. /\ UNCHANGED <<entry, cancelled, handle, owner, ticks, jobs>>
      /\ at' \in [Loops -> Places] /\ wake' \in [Loops -> BOOLEAN]
      /\ other' \in [Loops -> BOOLEAN] /\ stop' \in [Loops -> BOOLEAN]
      /\ \A m \in Loops : m # l => at'[m] = at[m] /\ other'[m] = other[m] /\ stop'[m] = stop[m]
  <2>1. CASE OpenOther(l) \/ CloseOther(l) \/ Terminate(l)
    BY <2>1 DEF OpenOther, CloseOther, Terminate
  <2>2. CASE OtherEvent(l) \/ Return(l) \/ TestStop(l)
    BY <2>2 DEF OtherEvent, Return, TestStop, InCode
  <2>3. CASE BlockLoop(l) \/ ReturnFromLoop(l) \/ WakeUp(l) \/ EndTurn(l) \/ EndTeardown(l)
    BY <2>3 DEF BlockLoop, ReturnFromLoop, WakeUp, EndTurn, EndTeardown
  <2> QED BY <2>1, <2>2, <2>3 DEF OnLoop
<1>2. TypeOK' /\ JobsAtHome' /\ CloseInv' /\ StartInv' /\ EntryInv' /\ LambdaInv'
  BY <1>1 DEF JobsAtHome, CloseInv, StartInv, EntryInv, LambdaInv, LambdaAt, Queued
<1>3. \A m \in Loops : m # l => EndAt(m)'
  BY <1>1 DEF EndInv, EndAt
<1>4. EndAt(l)
  BY DEF EndInv
<1>5. EndAt(l)'
  <2>1. CASE OpenOther(l) \/ CloseOther(l) \/ Terminate(l)
    BY <1>1, <1>4, <2>1 DEF OpenOther, CloseOther, Terminate, EndAt, InCode
  <2>2. CASE OtherEvent(l) \/ Return(l)
    BY <1>1, <1>4, <2>2 DEF OtherEvent, Return, EndAt, InCode
  <2>3. CASE TestStop(l) \/ BlockLoop(l) \/ WakeUp(l) \/ EndTurn(l)
    BY <1>1, <2>3 DEF TestStop, BlockLoop, WakeUp, EndTurn, EndAt
  <2>4. CASE ReturnFromLoop(l)
    BY <1>1, <2>4 DEF ReturnFromLoop, Idle, HasPending, EndAt
  <2>5. CASE EndTeardown(l)
    BY <1>1, <1>4, <2>5 DEF EndTeardown, Armed, EndAt
  <2> QED BY <2>1, <2>2, <2>3, <2>4, <2>5 DEF OnLoop
<1>6. EndInv'
  BY <1>3, <1>5 DEF EndInv
<1> QED BY <1>2, <1>6

\* What a step on a timer leaves alone.
LEMMA TimerPlaces ==
  ASSUME IInv, NEW l \in Loops, NEW t \in Timers, OnTimer(l, t)
  PROVE  /\ at[l] # "done" /\ other' = other /\ stop' = stop
         /\ at' \in [Loops -> Places] /\ ticks' \in [Timers -> 0..2]
         /\ \A m \in Loops : Left(m)' => at'[m] = at[m]
<1> USE DEF IInv, TypeOK, Places, Left
<1>1. CASE CreateTimer(l, t)
  BY <1>1 DEF CreateTimer, InCode
<1>2. CASE CancelEarly(l, t) \/ CancelStarted(l, t)
  BY <1>2 DEF CancelEarly, CancelStarted, MayCancel, InCode
<1>3. CASE StartTimer(l, t) \/ CloseTimer(l, t) \/ RunCallback(l, t)
  BY <1>3 DEF StartTimer, CloseTimer, RunCallback, TakeJob
<1>4. CASE FireCancelled(l, t)
  BY <1>4 DEF FireCancelled, Due
<1>5. CASE FireInterval(l, t) \/ FireTimeout(l, t)
  <2>1. ticks' = [ticks EXCEPT ![t] = IF @ = 2 THEN 2 ELSE @ + 1]
    BY <1>5 DEF FireInterval, FireTimeout
  <2>2. ticks \in [Timers -> 0..2]
    BY DEF IInv, TypeOK
  <2>3. (IF ticks[t] = 2 THEN 2 ELSE ticks[t] + 1) \in 0..2
    <3>1. ticks[t] \in 0..2
      BY <2>2
    <3> QED BY <3>1
  <2>4. ticks' \in [Timers -> 0..2]
    BY <2>1, <2>2, <2>3
  <2> QED BY <1>5, <2>4 DEF FireInterval, FireTimeout, Due
<1> QED BY <1>1, <1>2, <1>3, <1>4, <1>5 DEF OnTimer

\* Code runs on a loop that is in teardown only if the loop was told to stop, so
\* no step on a timer disturbs how loops end, unless it makes a handle run or
\* an entry on another loop.
LEMMA EndKept ==
  ASSUME IInv, NEW l \in Loops, NEW t \in Timers, OnTimer(l, t), owner'[t] = l,
         \A u \in Timers : u # t => owner'[u] = owner[u] /\ handle'[u] = handle[u],
         \A u \in Timers : u # t /\ u \in entry' => u \in entry,
         Left(l) /\ ~stop[l] => t \notin entry'
  PROVE  EndInv'
<1>1. /\ at[l] # "done" /\ other' = other /\ stop' = stop
      /\ \A m \in Loops : Left(m)' => at'[m] = at[m]
  BY TimerPlaces
<1>2. \A m \in Loops : Left(m)' => Left(m)
  BY <1>1 DEF Left
<1> SUFFICES ASSUME NEW m \in Loops PROVE EndAt(m)'
  BY DEF EndInv
<1>3. EndAt(m)
  BY DEF IInv, EndInv
<1>4. CASE m # l
  BY <1>1, <1>2, <1>3, <1>4 DEF EndAt, Left
<1>5. CASE m = l
  BY <1>1, <1>2, <1>3, <1>5 DEF EndAt, Left
<1> QED BY <1>4, <1>5

\* The start lambda of a new timer: it is the only job of that timer.
LEMMA CreateStep ==
  ASSUME IInv, NEW l \in Loops, NEW t \in Timers, CreateTimer(l, t)
  PROVE  IInv'
<1>1. RunOnLoop(l, "start", t)
  BY DEF CreateTimer
<1>2. Appends(l, "start", t)
  <2>1. TypeOK /\ "start" \in Kinds
    BY DEF IInv, Kinds
  <2> QED BY <1>1, <2>1, Appended
<1>3. \A m \in Loops : \A i \in DOMAIN jobs[m] : jobs[m][i].timer \in Timers
  BY JobsTyped DEF IInv
<1>4. /\ owner[t] = Nowhere /\ owner' = [owner EXCEPT ![t] = l]
      /\ entry' = entry \cup {t} /\ UNCHANGED <<cancelled, handle, ticks, at, other, stop>>
      /\ at[l] \in {"code", "callback", "late"}
  BY DEF CreateTimer, InCode
<1>5. \A m \in Loops : \A i \in DOMAIN jobs[m] : jobs[m][i].timer # t
  BY <1>4 DEF IInv, JobsAtHome
<1>6. TypeOK'
  BY <1>2, <1>4 DEF IInv, TypeOK, Appends
<1>7. JobsAtHome'
  BY <1>2, <1>3, <1>4, <1>5 DEF IInv, TypeOK, JobsAtHome, Appends
<1>8. CloseInv'
  BY <1>2, <1>4 DEF IInv, CloseInv, Appends
<1>9. StartInv'
  BY <1>2, <1>4, <1>5 DEF IInv, StartInv, EntryInv, Appends
<1>10. EntryInv'
  BY <1>4 DEF IInv, EntryInv, TypeOK
<1>11. LambdaInv'
  <2> SUFFICES ASSUME NEW u \in Timers PROVE LambdaAt(u)'
    BY DEF LambdaInv
  <2>1. /\ Queued(l, "start", t)'
        /\ \A m \in Loops, k \in Kinds : Queued(m, k, u) => Queued(m, k, u)'
    BY <1>1, AppendKeeps DEF IInv, Kinds
  <2>2. CASE u = t
    <3>1. owner'[t] = l /\ handle'[t] = "null"
      BY <1>4 DEF IInv, TypeOK, EntryInv
    <3> QED BY <2>1, <2>2, <3>1 DEF LambdaAt, Queued
  <2>3. CASE u # t
    <3>1. /\ owner'[u] = owner[u] /\ handle'[u] = handle[u]
          /\ u \in entry' <=> u \in entry
          /\ u \in cancelled' <=> u \in cancelled
      BY <1>4, <2>3 DEF IInv, TypeOK
    <3> QED BY <2>1, <3>1, LambdaKept DEF Kinds
  <2> QED BY <2>2, <2>3
<1>12. EndInv'
  <2>1. OnTimer(l, t) /\ owner'[t] = l
    BY <1>4 DEF OnTimer, IInv, TypeOK
  <2>2. Left(l) => stop[l]
    BY <1>4 DEF IInv, EndInv, EndAt, Left
  <2> QED BY <1>4, <2>1, <2>2, EndKept DEF IInv, TypeOK
<1> QED BY <1>6, <1>7, <1>8, <1>9, <1>10, <1>11, <1>12 DEF IInv

\* Cancellation: what it takes from the map has no handle, and what it queues to
\* be closed has one that is open, for the expiration would have erased the entry.
LEMMA CancelStep ==
  ASSUME IInv, NEW l \in Loops, NEW t \in Timers,
         CancelEarly(l, t) \/ CancelStarted(l, t)
  PROVE  IInv'
<1>1. CASE CancelEarly(l, t)
  <2>1. /\ handle[t] = "null" /\ cancelled' = cancelled \cup {t} /\ entry' = entry \ {t}
        /\ UNCHANGED <<handle, owner, ticks, jobs, at, wake, other, stop>>
    BY <1>1 DEF CancelEarly
  <2>2. \A m \in Loops : \A i \in DOMAIN jobs[m] : jobs[m][i].timer \in Timers
    BY JobsTyped DEF IInv
  <2>3. TypeOK' /\ JobsAtHome' /\ CloseInv'
    BY <2>1 DEF IInv, TypeOK, JobsAtHome, CloseInv
  <2>4. StartInv'
    BY <2>1 DEF IInv, StartInv
  <2>5. owner[t] = l
    BY <1>1 DEF CancelEarly, MayCancel
  <2>6. EntryInv'
    BY <2>1, <2>5 DEF IInv, EntryInv
  <2>7. LambdaInv'
    BY <2>1 DEF IInv, LambdaInv, LambdaAt, Queued
  <2>8. EndInv'
    <3>1. OnTimer(l, t) /\ (Left(l) /\ ~stop[l] => t \notin entry')
      BY <1>1, <2>1 DEF OnTimer
    <3> QED BY <2>1, <2>5, <3>1, EndKept
  <2> QED BY <2>3, <2>4, <2>6, <2>7, <2>8 DEF IInv
<1>2. CASE CancelStarted(l, t)
  <2>1. /\ t \in entry /\ owner[t] = l /\ handle[t] # "null"
        /\ cancelled' = cancelled \cup {t}
        /\ UNCHANGED <<entry, handle, owner, ticks, at, other, stop>>
    BY <1>2 DEF CancelStarted, MayCancel, InCode
  <2>2. Appends(l, "close", t)
    <3>1. TypeOK /\ "close" \in Kinds /\ RunOnLoop(l, "close", t)
      BY <1>2 DEF IInv, Kinds, CancelStarted
    <3> QED BY <3>1, Appended
  <2>3. TypeOK' /\ JobsAtHome'
    BY <2>1, <2>2, AppendsHome DEF IInv, TypeOK, Kinds
  <2>4. CloseInv'
    BY <2>1, <2>2 DEF IInv, CloseInv, EntryInv, Appends
  <2>5. StartInv'
    BY <2>1, <2>2 DEF IInv, StartInv, Appends
  <2>6. EntryInv'
    BY <2>1 DEF IInv, EntryInv
  <2>7. LambdaInv'
    <3> SUFFICES ASSUME NEW u \in Timers PROVE LambdaAt(u)'
      BY DEF LambdaInv
    <3>1. /\ Queued(l, "close", t)'
          /\ \A m \in Loops, k \in Kinds : Queued(m, k, u) => Queued(m, k, u)'
      BY <1>2, AppendKeeps DEF IInv, Kinds, CancelStarted
    <3>2. CASE u = t
      BY <2>1, <3>1, <3>2 DEF LambdaAt, Queued
    <3>3. CASE u # t
      BY <2>1, <3>1, <3>3, LambdaKept DEF Kinds
    <3> QED BY <3>2, <3>3
  <2>8. EndInv'
    <3>1. OnTimer(l, t) /\ (Left(l) /\ ~stop[l] => t \notin entry)
      BY <1>2, <2>1 DEF OnTimer, IInv, EndInv, EndAt
    <3> QED BY <2>1, <3>1, EndKept
  <2> QED BY <2>3, <2>4, <2>5, <2>6, <2>7, <2>8 DEF IInv
<1> QED BY <1>1, <1>2

\* The lambdas: a start lambda finds the entry or the flag and no second one; a
\* close lambda finds the flag.
LEMMA JobStep ==
  ASSUME IInv, NEW l \in Loops, NEW t \in Timers,
         StartTimer(l, t) \/ CloseTimer(l, t) \/ RunCallback(l, t)
  PROVE  IInv'
<1>1. /\ at[l] = "loop" /\ ~Left(l) /\ at' \in [Loops -> Places]
      /\ OnTimer(l, t)
  <2>1. OnTimer(l, t)
    BY DEF OnTimer
  <2> QED BY <2>1, TimerPlaces DEF StartTimer, CloseTimer, RunCallback, TakeJob, Left
<1>2. \A w \in Kinds : TakeJob(l, w, t) => Takes(l, w, t)
  BY Taken DEF IInv
<1>3. CASE StartTimer(l, t)
  <2>1. /\ IF t \in cancelled THEN entry' = entry \ {t} /\ handle' = handle
           ELSE handle' = [handle EXCEPT ![t] = "live"] /\ entry' = entry
        /\ UNCHANGED <<cancelled, owner, ticks, wake, other, stop>>
    BY <1>3 DEF StartTimer
  <2>2. Takes(l, "start", t)
    BY <1>2, <1>3 DEF StartTimer, Kinds
  <2>3. handle[t] = "null" /\ t \in cancelled \cup entry /\ owner[t] = l
    BY <2>2 DEF IInv, StartInv, JobsAtHome, Takes
  <2>4. \A m \in Loops : \A i \in DOMAIN jobs'[m] :
          jobs'[m][i].do = "start" => jobs'[m][i].timer # t
    <3> SUFFICES ASSUME NEW m \in Loops, NEW i \in DOMAIN jobs'[m],
                        jobs'[m][i].do = "start", jobs'[m][i].timer = t
                 PROVE  FALSE
      OBVIOUS
    <3>1. i \in Nat \ {0} /\ jobs'[m][i] = jobs[m][Shift(m, l, i)]
          /\ Shift(m, l, i) \in DOMAIN jobs[m]
      BY <2>2 DEF Takes
    <3>2. m = l
      BY <2>3, <3>1 DEF IInv, JobsAtHome
    <3>3. i + 1 \in DOMAIN jobs[l] /\ jobs[l][i + 1].do = "start"
          /\ jobs[l][i + 1].timer = t
      BY <3>1, <3>2 DEF Shift
    <3>4. 1 \in DOMAIN jobs[l] /\ jobs[l][1].do = "start" /\ jobs[l][1].timer = t
      BY <2>2 DEF Takes
    <3>5. i + 1 = 1
      BY <3>3, <3>4 DEF IInv, StartInv
    <3> QED BY <3>1, <3>5
  <2>5. TypeOK' /\ JobsAtHome'
    BY <2>1, <2>2, TakesHome, <1>1 DEF IInv, TypeOK, Kinds
  <2>6. CloseInv'
    BY <2>1, <2>2, <2>3 DEF IInv, TypeOK, CloseInv, Takes
  <2>7. StartInv'
    <3> SUFFICES ASSUME NEW m \in Loops, NEW i \in DOMAIN jobs'[m],
                        jobs'[m][i].do = "start"
                 PROVE  /\ handle'[jobs'[m][i].timer] = "null"
                        /\ jobs'[m][i].timer \in cancelled' \cup entry'
                        /\ \A j \in DOMAIN jobs'[m] :
                             jobs'[m][j].do = "start"
                             /\ jobs'[m][j].timer = jobs'[m][i].timer => j = i
      BY DEF StartInv
    <3>1. /\ handle[jobs'[m][i].timer] = "null"
          /\ jobs'[m][i].timer \in cancelled \cup entry
      BY <2>2 DEF IInv, StartInv, Takes
    <3>2. jobs'[m][i].timer # t
      BY <2>4
    <3> QED BY <2>1, <2>2, <3>1, <3>2, TakesOnce DEF IInv, TypeOK, Kinds
  <2>8. EntryInv'
    BY <2>1, <2>3 DEF IInv, TypeOK, EntryInv
  <2>9. LambdaInv'
    <3> SUFFICES ASSUME NEW u \in Timers PROVE LambdaAt(u)'
      BY DEF LambdaInv
    <3>1. CASE u = t
      BY <2>1, <2>3, <3>1 DEF IInv, TypeOK, LambdaAt
    <3>2. CASE u # t
      <4>1. \A m \in Loops, k \in Kinds : Queued(m, k, u) => Queued(m, k, u)'
        BY <1>3, <3>2, TakeKeeps DEF StartTimer, IInv, Kinds
      <4>2. /\ owner'[u] = owner[u] /\ handle'[u] = handle[u]
            /\ u \in entry' <=> u \in entry
            /\ u \in cancelled' <=> u \in cancelled
        BY <2>1, <3>2 DEF IInv, TypeOK
      <4> QED BY <4>1, <4>2, LambdaKept DEF Kinds
    <3> QED BY <3>1, <3>2
  <2>10. EndInv'
    BY <1>1, <2>1, <2>3, EndKept DEF IInv, TypeOK
  <2> QED BY <2>5, <2>6, <2>7, <2>8, <2>9, <2>10 DEF IInv
<1>4. CASE CloseTimer(l, t)
  <2>1. /\ handle' = [handle EXCEPT ![t] = "null"] /\ entry' = entry \ {t}
        /\ UNCHANGED <<cancelled, owner, ticks, wake, other, stop>>
    BY <1>4 DEF CloseTimer
  <2>2. Takes(l, "close", t)
    BY <1>2, <1>4 DEF CloseTimer, Kinds
  <2>3. t \in cancelled
    <3>1. 1 \in DOMAIN jobs[l] /\ jobs[l][1].do = "close" /\ jobs[l][1].timer = t
      BY <2>2 DEF Takes
    <3> QED BY <3>1 DEF IInv, CloseInv
  <2>4. TypeOK' /\ JobsAtHome'
    BY <2>1, <2>2, TakesHome, <1>1 DEF IInv, TypeOK, Kinds
  <2>5. CloseInv'
    BY <2>1, <2>2 DEF IInv, TypeOK, CloseInv, Takes
  <2>6. StartInv'
    <3> SUFFICES ASSUME NEW m \in Loops, NEW i \in DOMAIN jobs'[m],
                        jobs'[m][i].do = "start"
                 PROVE  /\ handle'[jobs'[m][i].timer] = "null"
                        /\ jobs'[m][i].timer \in cancelled' \cup entry'
                        /\ \A j \in DOMAIN jobs'[m] :
                             jobs'[m][j].do = "start"
                             /\ jobs'[m][j].timer = jobs'[m][i].timer => j = i
      BY DEF StartInv
    <3>1. /\ handle[jobs'[m][i].timer] = "null"
          /\ jobs'[m][i].timer \in cancelled \cup entry
      BY <2>2 DEF IInv, StartInv, Takes
    <3> QED BY <2>1, <2>2, <2>3, <3>1, TakesOnce DEF IInv, TypeOK, Kinds
  <2>7. EntryInv'
    BY <2>1 DEF IInv, TypeOK, EntryInv
  <2>8. LambdaInv'
    <3> SUFFICES ASSUME NEW u \in Timers PROVE LambdaAt(u)'
      BY DEF LambdaInv
    <3>1. CASE u = t
      BY <2>1, <3>1 DEF IInv, TypeOK, LambdaAt
    <3>2. CASE u # t
      <4>1. \A m \in Loops, k \in Kinds : Queued(m, k, u) => Queued(m, k, u)'
        BY <1>4, <3>2, TakeKeeps DEF CloseTimer, IInv, Kinds
      <4>2. /\ owner'[u] = owner[u] /\ handle'[u] = handle[u]
            /\ u \in entry' <=> u \in entry
            /\ u \in cancelled' <=> u \in cancelled
        BY <2>1, <3>2 DEF IInv, TypeOK
      <4> QED BY <4>1, <4>2, LambdaKept DEF Kinds
    <3> QED BY <3>1, <3>2
  <2>9. EndInv'
    <3>1. owner[t] = l
      <4>1. 1 \in DOMAIN jobs[l] /\ jobs[l][1].timer = t
        BY <2>2 DEF Takes
      <4> QED BY <4>1 DEF IInv, JobsAtHome
    <3> QED BY <1>1, <2>1, <3>1, EndKept DEF IInv, TypeOK
  <2> QED BY <2>4, <2>5, <2>6, <2>7, <2>8, <2>9 DEF IInv
<1>5. CASE RunCallback(l, t)
  <2>1. UNCHANGED <<entry, cancelled, handle, owner, ticks, wake, other, stop>>
    BY <1>5 DEF RunCallback
  <2>2. Takes(l, "call", t)
    BY <1>2, <1>5 DEF RunCallback, Kinds
  <2>3. TypeOK' /\ JobsAtHome'
    BY <2>1, <2>2, TakesHome, <1>1 DEF IInv, TypeOK, Kinds
  <2>6. CloseInv'
    BY <2>1, <2>2 DEF IInv, CloseInv, Takes
  <2>4. StartInv'
    <3> SUFFICES ASSUME NEW m \in Loops, NEW i \in DOMAIN jobs'[m],
                        jobs'[m][i].do = "start"
                 PROVE  /\ handle'[jobs'[m][i].timer] = "null"
                        /\ jobs'[m][i].timer \in cancelled' \cup entry'
                        /\ \A j \in DOMAIN jobs'[m] :
                             jobs'[m][j].do = "start"
                             /\ jobs'[m][j].timer = jobs'[m][i].timer => j = i
      BY DEF StartInv
    <3>1. /\ handle[jobs'[m][i].timer] = "null"
          /\ jobs'[m][i].timer \in cancelled \cup entry
      BY <2>2 DEF IInv, StartInv, Takes
    <3> QED BY <2>1, <2>2, <3>1, TakesOnce DEF IInv, TypeOK, Kinds
  <2>5. EntryInv'
    BY <2>1 DEF IInv, EntryInv
  <2>7. LambdaInv'
    <3> SUFFICES ASSUME NEW u \in Timers PROVE LambdaAt(u)'
      BY DEF LambdaInv
    <3>1. \A m \in Loops, k \in {"start", "close"} : Queued(m, k, u) => Queued(m, k, u)'
      BY <1>5, TakeKeeps DEF RunCallback, IInv, Kinds
    <3> QED BY <2>1, <3>1, LambdaKept
  <2>8. EndInv'
    <3>1. owner[t] = l
      <4>1. 1 \in DOMAIN jobs[l] /\ jobs[l][1].timer = t
        BY <2>2 DEF Takes
      <4> QED BY <4>1 DEF IInv, JobsAtHome
    <3> QED BY <1>1, <2>1, <3>1, EndKept
  <2> QED BY <2>3, <2>4, <2>5, <2>6, <2>7, <2>8 DEF IInv
<1> QED BY <1>3, <1>4, <1>5

\* Expiration: a timer that is armed has no start lambda in a queue and, unless
\* its flag is set, no close lambda.
LEMMA FireStep ==
  ASSUME IInv, NEW l \in Loops, NEW t \in Timers,
         FireCancelled(l, t) \/ FireInterval(l, t) \/ FireTimeout(l, t)
  PROVE  IInv'
<1>1. /\ owner[t] = l /\ handle[t] = "live" /\ t \in entry
      /\ UNCHANGED <<cancelled, owner, other, stop>>
  BY DEF FireCancelled, FireInterval, FireTimeout, Due, Armed, IInv, EntryInv
<1>2. at' \in [Loops -> Places] /\ ticks' \in [Timers -> 0..2] /\ OnTimer(l, t)
  <2>1. OnTimer(l, t)
    BY DEF OnTimer
  <2> QED BY <2>1, TimerPlaces
<1>5. Left(l) => stop[l]
  BY <1>1 DEF IInv, EndInv, EndAt
<1>3. CASE FireCancelled(l, t)
  <2>1. /\ t \in cancelled
        /\ handle' = [handle EXCEPT ![t] = IF t \in Intervals THEN "live" ELSE "spent"]
        /\ UNCHANGED <<entry, cancelled, owner, jobs, wake, other, stop>>
    BY <1>1, <1>3 DEF FireCancelled
  <2>2. \A m \in Loops : \A i \in DOMAIN jobs[m] :
          jobs[m][i].timer \in Timers /\ (jobs[m][i].do = "start" => jobs[m][i].timer # t)
    BY <1>1, JobsTyped DEF IInv, StartInv
  <2>3. TypeOK' /\ JobsAtHome'
    BY <1>2, <2>1 DEF IInv, TypeOK, JobsAtHome
  <2>4. CloseInv'
    BY <1>1, <2>1, <2>2 DEF IInv, TypeOK, CloseInv
  <2>5. StartInv'
    BY <2>1, <2>2 DEF IInv, TypeOK, StartInv
  <2>6. EntryInv'
    BY <1>1, <2>1 DEF IInv, TypeOK, EntryInv
  <2>7. LambdaInv'
    BY <1>1, <2>1 DEF IInv, TypeOK, LambdaInv, LambdaAt, Queued
  <2>8. EndInv'
    BY <1>1, <1>2, <1>5, <2>1, EndKept DEF IInv, TypeOK
  <2> QED BY <2>3, <2>4, <2>5, <2>6, <2>7, <2>8 DEF IInv
<1>4. CASE FireInterval(l, t) \/ FireTimeout(l, t)
  <2>1. t \notin cancelled
    BY <1>4 DEF FireInterval, FireTimeout
  <2>2. Appends(l, "call", t)
    <3>1. TypeOK /\ "call" \in Kinds /\ RunOnLoop(l, "call", t)
      BY <1>4 DEF IInv, Kinds, FireInterval, FireTimeout
    <3> QED BY <3>1, Appended
  <2>3. \/ UNCHANGED <<entry, handle>>
        \/ handle' = [handle EXCEPT ![t] = "freed"] /\ entry' = entry \ {t}
    BY <1>4 DEF FireInterval, FireTimeout
  <2>4. \A m \in Loops : \A i \in DOMAIN jobs[m] :
          jobs[m][i].do # "call" => jobs[m][i].timer # t
    <3>1. \A m \in Loops : \A i \in DOMAIN jobs[m] : jobs[m][i].do \in Kinds
      BY JobsTyped DEF IInv, Job, Kinds
    <3> QED BY <1>1, <2>1, <3>1 DEF IInv, CloseInv, StartInv, Kinds
  <2>5. TypeOK' /\ JobsAtHome'
    BY <1>1, <1>2, <2>2, <2>3, AppendsHome DEF IInv, TypeOK, Kinds
  <2>9. \A m \in Loops : \A i \in DOMAIN jobs'[m] : jobs'[m][i].do # "call" =>
          i \in DOMAIN jobs[m] /\ jobs'[m][i] = jobs[m][i] /\ jobs'[m][i].timer # t
    BY <2>2, <2>4 DEF Appends
  <2>6. CloseInv'
    <3> SUFFICES ASSUME NEW m \in Loops, NEW i \in DOMAIN jobs'[m],
                        jobs'[m][i].do = "close"
                 PROVE  jobs'[m][i].timer \in cancelled'
                        /\ handle'[jobs'[m][i].timer] # "freed"
      BY DEF CloseInv
    <3>1. /\ i \in DOMAIN jobs[m] /\ jobs'[m][i] = jobs[m][i] /\ jobs[m][i].timer # t
          /\ jobs[m][i].timer \in cancelled /\ handle[jobs[m][i].timer] # "freed"
      BY <2>9 DEF IInv, CloseInv
    <3>2. jobs[m][i].timer \in Timers
      BY <3>1, JobsTyped DEF IInv
    <3> QED BY <1>1, <2>3, <3>1, <3>2 DEF IInv, TypeOK
  <2>7. StartInv'
    <3>1. \A m \in Loops : \A i \in DOMAIN jobs'[m] : jobs'[m][i].do = "start" =>
            /\ i \in DOMAIN jobs[m] /\ jobs'[m][i] = jobs[m][i]
            /\ jobs[m][i].timer \in Timers \ {t}
      BY <2>9, JobsTyped DEF IInv
    <3>2. \A u \in Timers \ {t} : /\ handle'[u] = handle[u]
                                  /\ u \in cancelled \cup entry => u \in cancelled' \cup entry'
      BY <1>1, <2>3 DEF IInv, TypeOK
    <3> QED BY <3>1, <3>2 DEF IInv, StartInv
  <2>8. EntryInv'
    BY <1>1, <2>3 DEF IInv, TypeOK, EntryInv
  <2>10. LambdaInv'
    <3> SUFFICES ASSUME NEW u \in Timers PROVE LambdaAt(u)'
      BY DEF LambdaInv
    <3>1. CASE u = t
      BY <1>1, <2>1, <2>3, <3>1 DEF IInv, TypeOK, LambdaAt
    <3>2. CASE u # t
      <4>1. \A m \in Loops, k \in Kinds : Queued(m, k, u) => Queued(m, k, u)'
        BY <1>4, AppendKeeps DEF IInv, Kinds, FireInterval, FireTimeout
      <4>2. /\ owner'[u] = owner[u] /\ handle'[u] = handle[u]
            /\ u \in entry' <=> u \in entry
            /\ u \in cancelled' <=> u \in cancelled
        BY <1>1, <2>3, <3>2 DEF IInv, TypeOK
      <4> QED BY <4>1, <4>2, LambdaKept DEF Kinds
    <3> QED BY <3>1, <3>2
  <2>11. EndInv'
    BY <1>1, <1>2, <1>5, <2>3, EndKept DEF IInv, TypeOK
  <2> QED BY <2>5, <2>6, <2>7, <2>8, <2>10, <2>11 DEF IInv
<1> QED BY <1>3, <1>4

\* IInv holds at first, is kept by every step, and so always holds.
LEMMA InitInv == Init => IInv
<1> SUFFICES ASSUME Init PROVE IInv
  OBVIOUS
<1>1. <<>> \in Seq(Job) /\ DOMAIN <<>> = {}
  OBVIOUS
<1>2. TypeOK
  BY <1>1 DEF Init, TypeOK, Places
<1>3. \A l \in Loops : DOMAIN jobs[l] = {} /\ at[l] = "code"
  BY <1>1 DEF Init
<1> QED BY <1>2, <1>3 DEF Init, IInv, JobsAtHome, CloseInv, StartInv, EntryInv,
                          LambdaInv, LambdaAt, EndInv, EndAt, Left

\* One step per action, by the lemmas above.
LEMMA NextInv == IInv /\ [Next]_vars => IInv'
<1> SUFFICES ASSUME IInv, [Next]_vars PROVE IInv'
  OBVIOUS
<1>1. ASSUME NEW l \in Loops, OnLoop(l) PROVE IInv'
  BY <1>1, LoopStep
<1>2. ASSUME NEW l \in Loops, NEW t \in Timers, OnTimer(l, t) PROVE IInv'
  BY <1>2, CreateStep, CancelStep, JobStep, FireStep DEF OnTimer
<1>3. CASE AllDone \/ UNCHANGED vars
  BY <1>3 DEF AllDone, vars, IInv, TypeOK, JobsAtHome, CloseInv, StartInv, EntryInv,
              LambdaInv, LambdaAt, EndInv, EndAt, Left, Queued
<1> QED BY <1>1, <1>2, <1>3 DEF Next

\* The inductive invariant of timers.
LEMMA Always == Spec => []IInv
BY InitInv, NextInv, PTL DEF Spec

\* g_timers, the entries and the queues always have their types (AsyncApi.cpp:56-80).
THEOREM TypeCorrect == Spec => []TypeOK
<1>1. IInv => TypeOK
  BY DEF IInv
<1> QED BY <1>1, Always, PTL

\* On any number of loops, whatever is cancelled when: no uv handle is closed
\* twice, and no open one outlives the TimerEntry it points to (cancel_timer and
\* uv_timer_callback, AsyncApi.cpp:106-330).
THEOREM HandlesHaveOneOwner == Spec => []HandlesAreOwned
<1>1. ASSUME IInv, NEW l \in Loops, NEW t \in Timers, Queued(l, "close", t)
      PROVE  handle[t] # "freed"
  BY <1>1 DEF IInv, CloseInv, Queued
<1>2. IInv => HandlesAreOwned
  BY <1>1 DEF IInv, EntryInv, HandlesAreOwned, NoDoubleClose, EntryOutlivesHandle
<1> QED BY <1>2, Always, PTL

\* A thread that ended has left no uv timer running, and an entry in the map of
\* the process only if its loop was told to stop (worker.cc:608-620, 694-704) before
\* it took the entry's start or close lambda: has_pending and the idle test of
\* run_until_idle see all the others, also those of a teardown (Scheduler.cpp:38-66,
\* 152-180).
THEOREM LoopsLeaveNothing == Spec => []NothingLeftBehind
<1>1. ASSUME IInv, NEW l \in Loops, at[l] = "done", NEW t \in Timers, owner[t] = l
      PROVE  /\ handle[t] # "live"
             /\ t \in entry => stop[l] /\ (Queued(l, "start", t) \/ Queued(l, "close", t))
  <2>1. /\ handle[t] # "live"
        /\ ~stop[l] => t \notin entry
    BY <1>1 DEF IInv, EndInv, EndAt, Left
  <2>2. handle[t] \in {"null", "live", "spent", "freed"} /\ (handle[t] = "freed" => t \notin entry)
    BY <1>1 DEF IInv, TypeOK, EntryInv
  <2> QED BY <1>1, <2>1, <2>2 DEF IInv, LambdaInv, LambdaAt
<1>2. IInv => NothingLeftBehind
  BY <1>1 DEF NothingLeftBehind
<1> QED BY <1>2, Always, PTL

-----------------------------------------------------------------------------
\* Where a value stands in a sequence, and how often when the sequence grows at
\* its end or is taken from at its head.
Where(q, v) == {i \in DOMAIN q : q[i] = v}

LEMMA WhereIsFinite ==
  ASSUME NEW S, NEW q \in Seq(S), NEW v
  PROVE  IsFiniteSet(Where(q, v)) /\ Cardinality(Where(q, v)) \in Nat
<1>1. Where(q, v) \in SUBSET (1..Len(q)) /\ Len(q) \in Nat
  BY DEF Where
<1>2. IsFiniteSet(1..Len(q))
  BY <1>1, FS_Interval
<1>3. IsFiniteSet(Where(q, v))
  BY ONLY <1>1, <1>2, FS_Subset
<1> QED BY <1>3, FS_CardinalityType

LEMMA WhereAppended ==
  ASSUME NEW S, NEW q \in Seq(S), NEW x \in S, NEW v
  PROVE  Cardinality(Where(Append(q, x), v)) =
           IF x = v THEN Cardinality(Where(q, v)) + 1 ELSE Cardinality(Where(q, v))
<1> DEFINE k == Len(q) + 1
<1>1. IsFiniteSet(Where(q, v))
  BY WhereIsFinite
<1>2. k \notin Where(q, v)
  BY DEF Where
<1>3. CASE x = v
  <2>1. Where(Append(q, x), v) = Where(q, v) \cup {k}
    BY <1>3 DEF Where
  <2> HIDE DEF k
  <2>2. Cardinality(Where(q, v) \cup {k}) = Cardinality(Where(q, v)) + 1
    BY <1>1, <1>2, FS_AddElement
  <2> QED BY <1>3, <2>1, <2>2
<1>4. CASE x # v
  <2>1. Where(Append(q, x), v) = Where(q, v)
    BY <1>4 DEF Where
  <2> QED BY <1>4, <2>1
<1> QED BY <1>3, <1>4

LEMMA WhereTaken ==
  ASSUME NEW S, NEW q \in Seq(S), q # <<>>, NEW v
  PROVE  Cardinality(Where(Tail(q), v)) =
           IF Head(q) = v THEN Cardinality(Where(q, v)) - 1 ELSE Cardinality(Where(q, v))
<1> DEFINE F == [i \in Where(Tail(q), v) |-> i + 1]
<1>1. /\ 1 \in DOMAIN q /\ Head(q) = q[1]
      /\ \A i \in DOMAIN Tail(q) : i \in Nat \ {0} /\ i + 1 \in DOMAIN q /\ Tail(q)[i] = q[i + 1]
      /\ \A i \in DOMAIN q : i \in Nat /\ (i # 1 => i - 1 \in DOMAIN Tail(q) /\ Tail(q)[i - 1] = q[i])
  OBVIOUS
<1>2. F \in Bijection(Where(Tail(q), v), Where(q, v) \ {1})
  <2>1. F \in [Where(Tail(q), v) -> Where(q, v) \ {1}]
    BY <1>1 DEF Where
  <2>2. \A a, b \in Where(Tail(q), v) : F[a] = F[b] => a = b
    BY <1>1 DEF Where
  <2>3. ASSUME NEW i \in Where(q, v) \ {1}
        PROVE  \E a \in Where(Tail(q), v) : F[a] = i
    <3>1. i - 1 \in Where(Tail(q), v) /\ (i - 1) + 1 = i
      BY <1>1 DEF Where
    <3> QED BY <3>1
  <2> QED BY <2>1, <2>2, <2>3 DEF Bijection, Injection, Surjection, IsInjective
<1>3. IsFiniteSet(Where(Tail(q), v)) /\ IsFiniteSet(Where(q, v))
  <2>1. Tail(q) \in Seq(S)
    OBVIOUS
  <2> QED BY <2>1, WhereIsFinite
<1>4. Cardinality(Where(q, v) \ {1}) = Cardinality(Where(Tail(q), v))
  BY <1>2, <1>3, FS_Bijection DEF ExistsBijection
<1>5. Cardinality(Where(q, v) \ {1}) =
        IF 1 \in Where(q, v) THEN Cardinality(Where(q, v)) - 1 ELSE Cardinality(Where(q, v))
  BY <1>3, FS_RemoveElement
<1>6. 1 \in Where(q, v) <=> Head(q) = v
  BY <1>1 DEF Where
<1> QED BY <1>4, <1>5, <1>6

-----------------------------------------------------------------------------
\* The callbacks a timer is owed are queued on its own loop.
CallOf(t) == [do |-> "call", timer |-> t]
OwedAt(t) ==
  /\ CallsOwed(t) \in Nat
  /\ owner[t] = Nowhere => CallsOwed(t) = 0
  /\ owner[t] # Nowhere => CallsOwed(t) = Cardinality(Where(jobs[owner[t]], CallOf(t)))

OwedInv == \A t \in Timers : OwedAt(t)

LEMMA Owed == IInv => OwedInv
<1> USE DEF CallOf
<1> SUFFICES ASSUME IInv, NEW t \in Timers
             PROVE  /\ CallsOwed(t) \in Nat
                    /\ owner[t] = Nowhere => CallsOwed(t) = 0
                    /\ owner[t] # Nowhere => CallsOwed(t) =
                         Cardinality(Where(jobs[owner[t]], CallOf(t)))
  BY DEF OwedInv, OwedAt
<1> DEFINE call == [do |-> "call", timer |-> t]
           C == {c \in UNION {{<<l, i>> : i \in DOMAIN jobs[l]} : l \in Loops} :
                   jobs[c[1]][c[2]] = call}
<1>1. CallsOwed(t) = Cardinality(C)
  BY DEF CallsOwed
<1>2. \A c \in C : /\ c = <<owner[t], c[2]>> /\ owner[t] \in Loops
                   /\ c[2] \in Where(jobs[owner[t]], call)
  <2> SUFFICES ASSUME NEW l \in Loops, NEW i \in DOMAIN jobs[l], jobs[l][i] = call
               PROVE  l = owner[t] /\ i \in Where(jobs[owner[t]], call)
    OBVIOUS
  <2>1. l = owner[t]
    BY DEF IInv, JobsAtHome
  <2> QED BY <2>1 DEF Where
<1>3. \A i \in Where(jobs[owner[t]], call) : owner[t] \in Loops => <<owner[t], i>> \in C
  BY DEF Where
<1>4. owner[t] = Nowhere => CallsOwed(t) = 0
  <2>1. owner[t] = Nowhere => C = {}
    BY <1>2
  <2> QED BY <1>1, <2>1, FS_EmptySet
<1>5. ASSUME owner[t] # Nowhere
      PROVE  CallsOwed(t) = Cardinality(Where(jobs[owner[t]], call)) /\ CallsOwed(t) \in Nat
  <2>1. owner[t] \in Loops
    BY <1>5 DEF IInv, TypeOK
  <2>2. jobs[owner[t]] \in Seq(Job)
    BY <2>1 DEF IInv, TypeOK
  <2> DEFINE W == Where(jobs[owner[t]], call)
             F == [i \in W |-> <<owner[t], i>>]
  <2>3. IsFiniteSet(W) /\ Cardinality(W) \in Nat
    BY <2>2, WhereIsFinite
  <2>4. F \in Bijection(W, C)
    <3> HIDE DEF C, W
    <3>1. F \in [W -> C]
      BY <1>3, <2>1 DEF W
    <3>2. \A a, b \in W : F[a] = F[b] => a = b
      OBVIOUS
    <3>3. \A c \in C : \E a \in W : F[a] = c
      BY <1>2 DEF W
    <3> QED BY <3>1, <3>2, <3>3 DEF Bijection, Injection, Surjection, IsInjective
  <2>5. Cardinality(C) = Cardinality(W)
    BY <2>3, <2>4, FS_Bijection DEF ExistsBijection
  <2> QED BY <1>1, <2>3, <2>5
<1> QED BY <1>4, <1>5

\* What a step that queues a job, or takes one, changes of what is owed.

LEMMA OwedQueued ==
  ASSUME IInv, IInv', owner' = owner, NEW l \in Loops, NEW t \in Timers, owner[t] = l,
         NEW w \in Kinds, RunOnLoop(l, w, t), NEW u \in Timers
  PROVE  CallsOwed(u)' = IF w = "call" /\ u = t THEN CallsOwed(u) + 1 ELSE CallsOwed(u)
<1> DEFINE job == [do |-> w, timer |-> t]
<1>1. jobs' = [jobs EXCEPT ![l] = Append(jobs[l], job)] /\ jobs \in [Loops -> Seq(Job)]
  BY DEF RunOnLoop, IInv, TypeOK
<1>2. job \in Job /\ (job = CallOf(u) <=> w = "call" /\ u = t)
  BY DEF Job, Kinds, CallOf
<1>0. OwedAt(u) /\ OwedAt(u)'
  <2>1. OwedInv'
    BY Owed, PTL
  <2> QED BY <2>1, Owed DEF OwedInv
<1>3. CASE owner[u] = Nowhere
  <2>1. CallsOwed(u) = 0 /\ u # t
    BY <1>0, <1>3 DEF OwedAt
  <2>2. CallsOwed(u)' = 0
    BY <1>0, <1>3 DEF OwedAt
  <2> QED BY <2>1, <2>2
<1>4. CASE owner[u] # Nowhere
  <2>1. owner[u] \in Loops
    BY <1>4 DEF IInv, TypeOK
  <2>2. CallsOwed(u) = Cardinality(Where(jobs[owner[u]], CallOf(u)))
    BY <1>0, <1>4 DEF OwedAt
  <2>3. owner'[u] # Nowhere => CallsOwed(u)' = Cardinality(Where(jobs[owner[u]], CallOf(u)))'
    BY <1>0 DEF OwedAt
  <2>4. CallsOwed(u)' = Cardinality(Where(jobs'[owner[u]], CallOf(u)))
    BY <1>4, <2>3 DEF Where, CallOf
  <2>5. CASE owner[u] = l
    <3>1. jobs'[l] = Append(jobs[l], job) /\ jobs[l] \in Seq(Job)
      BY <1>1
    <3>2. Cardinality(Where(jobs'[l], CallOf(u))) =
            IF job = CallOf(u) THEN Cardinality(Where(jobs[l], CallOf(u))) + 1
                               ELSE Cardinality(Where(jobs[l], CallOf(u)))
      BY ONLY <1>2, <3>1, WhereAppended
    <3> HIDE DEF job
    <3> QED BY <1>2, <2>2, <2>4, <2>5, <3>2
  <2>6. CASE owner[u] # l
    BY <1>1, <2>1, <2>2, <2>4, <2>6
  <2> QED BY <2>5, <2>6
<1> QED BY <1>3, <1>4

LEMMA OwedTaken ==
  ASSUME IInv, IInv', owner' = owner, NEW l \in Loops, NEW t \in Timers, NEW w \in Kinds,
         TakeJob(l, w, t), NEW u \in Timers
  PROVE  /\ owner[t] = l
         /\ CallsOwed(u)' = IF w = "call" /\ u = t THEN CallsOwed(u) - 1 ELSE CallsOwed(u)
<1> DEFINE job == [do |-> w, timer |-> t]
<1>1. /\ jobs' = [jobs EXCEPT ![l] = Tail(jobs[l])] /\ jobs \in [Loops -> Seq(Job)]
      /\ jobs[l] # <<>> /\ Head(jobs[l]) = job
  BY DEF TakeJob, IInv, TypeOK
<1>2. job = CallOf(u) <=> w = "call" /\ u = t
  BY DEF Kinds, CallOf
<1>3. owner[t] = l
  <2>1. 1 \in DOMAIN jobs[l] /\ jobs[l][1].timer = t
    BY <1>1
  <2> QED BY <2>1 DEF IInv, JobsAtHome
<1>0. OwedAt(u) /\ OwedAt(u)'
  <2>1. OwedInv'
    BY Owed, PTL
  <2> QED BY <2>1, Owed DEF OwedInv
<1>4. CASE owner[u] = Nowhere
  <2>1. CallsOwed(u) = 0 /\ u # t
    BY <1>0, <1>3, <1>4 DEF OwedAt
  <2>2. CallsOwed(u)' = 0
    BY <1>0, <1>4 DEF OwedAt
  <2> QED BY <1>3, <2>1, <2>2
<1>5. CASE owner[u] # Nowhere
  <2>1. owner[u] \in Loops
    BY <1>5 DEF IInv, TypeOK
  <2>2. CallsOwed(u) = Cardinality(Where(jobs[owner[u]], CallOf(u)))
    BY <1>0, <1>5 DEF OwedAt
  <2>3. owner'[u] # Nowhere => CallsOwed(u)' = Cardinality(Where(jobs[owner[u]], CallOf(u)))'
    BY <1>0 DEF OwedAt
  <2>4. CallsOwed(u)' = Cardinality(Where(jobs'[owner[u]], CallOf(u)))
    BY <1>5, <2>3 DEF Where, CallOf
  <2>5. CASE owner[u] = l
    <3>1. jobs'[l] = Tail(jobs[l]) /\ jobs[l] \in Seq(Job)
      BY <1>1
    <3>2. Cardinality(Where(jobs'[l], CallOf(u))) =
            IF job = CallOf(u) THEN Cardinality(Where(jobs[l], CallOf(u))) - 1
                               ELSE Cardinality(Where(jobs[l], CallOf(u)))
      BY ONLY <1>1, <3>1, WhereTaken
    <3> HIDE DEF job
    <3> QED BY <1>2, <1>3, <2>2, <2>4, <2>5, <3>2
  <2>6. CASE owner[u] # l
    BY <1>1, <1>3, <2>1, <2>2, <2>4, <2>6
  <2> QED BY <2>5, <2>6
<1> QED BY <1>3, <1>4, <1>5

\* A timer that is created is owed nothing yet.
LEMMA OwedCreated ==
  ASSUME IInv, IInv', NEW l \in Loops, NEW t \in Timers, CreateTimer(l, t), NEW u \in Timers
  PROVE  CallsOwed(u)' = CallsOwed(u)
<1> DEFINE job == [do |-> "start", timer |-> t]
<1>1. /\ jobs' = [jobs EXCEPT ![l] = Append(jobs[l], job)] /\ jobs \in [Loops -> Seq(Job)]
      /\ owner[t] = Nowhere /\ owner' = [owner EXCEPT ![t] = l]
  BY DEF CreateTimer, RunOnLoop, IInv, TypeOK
<1>2. job \in Job /\ job # CallOf(u) /\ jobs[l] \in Seq(Job) /\ jobs'[l] = Append(jobs[l], job)
  BY <1>1 DEF Job, CallOf
<1>3. Cardinality(Where(jobs'[l], CallOf(u))) = Cardinality(Where(jobs[l], CallOf(u)))
  BY ONLY <1>2, WhereAppended
<1>0. OwedAt(u) /\ OwedAt(u)'
  <2>1. OwedInv'
    BY Owed, PTL
  <2> QED BY <2>1, Owed DEF OwedInv
<1>4. owner'[u] # Nowhere => CallsOwed(u)' = Cardinality(Where(jobs[owner[u]], CallOf(u)))'
  BY <1>0 DEF OwedAt
<1>5. CASE u = t
  <2>1. Where(jobs[l], CallOf(t)) = {}
    <3>1. \A i \in DOMAIN jobs[l] : jobs[l][i].timer # t
      BY <1>1 DEF IInv, JobsAtHome
    <3> QED BY <3>1 DEF Where, CallOf
  <2>2. owner'[t] = l
    BY <1>1 DEF IInv, TypeOK
  <2>3. CallsOwed(t)' = Cardinality(Where(jobs'[l], CallOf(t)))
    BY <1>4, <1>5, <2>2 DEF Where, CallOf
  <2>4. CallsOwed(t)' = 0
    BY <1>3, <1>5, <2>1, <2>3, FS_EmptySet
  <2> QED BY <1>0, <1>1, <1>5, <2>4 DEF OwedAt
<1>6. CASE u # t /\ owner[u] = Nowhere
  <2>1. owner'[u] = Nowhere
    BY <1>1, <1>6
  <2>2. (owner[u] = Nowhere => CallsOwed(u) = 0)'
    BY <1>0 DEF OwedAt
  <2> QED BY <1>0, <1>6, <2>1, <2>2 DEF OwedAt
<1>7. CASE u # t /\ owner[u] # Nowhere
  <2>1. owner'[u] = owner[u] /\ owner[u] \in Loops
    BY <1>1, <1>7 DEF IInv, TypeOK
  <2>2. CallsOwed(u)' = Cardinality(Where(jobs'[owner[u]], CallOf(u)))
    BY <1>4, <1>7, <2>1 DEF Where, CallOf
  <2>3. CallsOwed(u) = Cardinality(Where(jobs[owner[u]], CallOf(u)))
    BY <1>0, <1>7 DEF OwedAt
  <2>4. CASE owner[u] = l
    BY <1>3, <2>2, <2>3, <2>4
  <2>5. CASE owner[u] # l
    BY <1>1, <2>1, <2>2, <2>3, <2>5
  <2> QED BY <2>4, <2>5
<1> QED BY <1>5, <1>6, <1>7

-----------------------------------------------------------------------------
\* The refinement mapping: what a timer's contract sees of it.
AbsStatus == [t \in Timers |->
               CASE owner[t] = Nowhere -> "unused"
                 [] t \in entry \ cancelled -> "pending"
                 [] OTHER -> "over"]
AbsOwed == [t \in Timers |-> CallsOwed(t)]

StatusAt(t) ==
  /\ owner[t] = Nowhere => AbsStatus[t] = "unused"
  /\ owner[t] # Nowhere /\ t \in entry \ cancelled => AbsStatus[t] = "pending"
  /\ owner[t] # Nowhere /\ t \notin entry \ cancelled => AbsStatus[t] = "over"
StatusInv == \A t \in Timers : StatusAt(t)

LEMMA Status == IInv => StatusInv
<1> SUFFICES ASSUME IInv, NEW t \in Timers PROVE StatusAt(t)
  BY DEF StatusInv
<1>1. owner[t] = Nowhere => t \notin entry \ cancelled
  BY DEF IInv, EntryInv
<1> QED BY <1>1 DEF StatusAt, AbsStatus

\* A step that changes no timer's standing leaves the contract where it was.
LEMMA SameStatus ==
  ASSUME IInv, IInv', owner' = owner,
         \A u \in Timers : owner[u] # Nowhere =>
                             (u \in entry' \ cancelled' <=> u \in entry \ cancelled)
  PROVE  AbsStatus' = AbsStatus
<1>1. StatusInv /\ StatusInv'
  <2>1. StatusInv'
    BY Status, PTL
  <2> QED BY <2>1, Status
<1>2. \A u \in Timers : AbsStatus'[u] = AbsStatus[u]
  BY <1>1 DEF StatusInv, StatusAt
<1> QED BY <1>2 DEF AbsStatus

\* A step that ends the timer t changes no other.
LEMMA EndedStatus ==
  ASSUME IInv, IInv', owner' = owner, NEW t \in Timers, owner[t] # Nowhere,
         t \in entry \ cancelled, t \notin entry' \ cancelled',
         \A u \in Timers : u # t => (u \in entry' \ cancelled' <=> u \in entry \ cancelled)
  PROVE  AbsStatus[t] = "pending" /\ AbsStatus' = [AbsStatus EXCEPT ![t] = "over"]
<1>1. StatusInv /\ StatusInv'
  <2>1. StatusInv'
    BY Status, PTL
  <2> QED BY <2>1, Status
<1>2. AbsStatus[t] = "pending" /\ AbsStatus'[t] = "over"
  BY <1>1 DEF StatusInv, StatusAt
<1>3. \A u \in Timers : u # t => AbsStatus'[u] = AbsStatus[u]
  BY <1>1 DEF StatusInv, StatusAt
<1> QED BY <1>2, <1>3 DEF AbsStatus

\* Nobody's account changes, or one timer's goes up or down by one.
LEMMA SameOwed ==
  ASSUME \A u \in Timers : CallsOwed(u)' = CallsOwed(u)
  PROVE  AbsOwed' = AbsOwed
BY DEF AbsOwed

LEMMA MoreOwed ==
  ASSUME NEW t \in Timers,
         \A u \in Timers : CallsOwed(u)' = IF u = t THEN CallsOwed(u) + 1 ELSE CallsOwed(u)
  PROVE  AbsOwed' = [AbsOwed EXCEPT ![t] = @ + 1]
BY DEF AbsOwed

LEMMA LessOwed ==
  ASSUME NEW t \in Timers,
         \A u \in Timers : CallsOwed(u)' = IF u = t THEN CallsOwed(u) - 1 ELSE CallsOwed(u)
  PROVE  AbsOwed' = [AbsOwed EXCEPT ![t] = @ - 1]
BY DEF AbsOwed

LEMMA UnchangedAbs ==
  ASSUME AbsStatus' = AbsStatus, AbsOwed' = AbsOwed
  PROVE  UNCHANGED TC!absVars
BY DEF TC!absVars, AbsStatus, AbsOwed

\* Every step on a timer is one of its contract's, or none.
LEMMA TimerRefines ==
  ASSUME IInv, IInv', NEW l \in Loops, NEW t \in Timers, OnTimer(l, t)
  PROVE  TC!AbsNext \/ UNCHANGED TC!absVars
<1>1. CASE CreateTimer(l, t)
  <2>1. /\ owner[t] = Nowhere /\ owner' = [owner EXCEPT ![t] = l]
        /\ entry' = entry \cup {t} /\ cancelled' = cancelled
    BY <1>1 DEF CreateTimer
  <2>2. AbsOwed' = AbsOwed
    BY <1>1, OwedCreated, SameOwed
  <2>3. StatusInv /\ StatusInv'
    <3>1. StatusInv'
      BY Status, PTL
    <3> QED BY <3>1, Status
  <2>4. owner'[t] # Nowhere /\ t \in entry' \ cancelled'
    BY <2>1 DEF IInv, TypeOK, EntryInv
  <2>5. AbsStatus[t] = "unused" /\ AbsStatus'[t] = "pending"
    BY <2>1, <2>3, <2>4 DEF StatusInv, StatusAt
  <2>6. \A u \in Timers : u # t => AbsStatus'[u] = AbsStatus[u]
    <3> SUFFICES ASSUME NEW u \in Timers, u # t PROVE AbsStatus'[u] = AbsStatus[u]
      OBVIOUS
    <3>1. owner'[u] = owner[u] /\ (u \in entry' \ cancelled' <=> u \in entry \ cancelled)
      BY <2>1
    <3>2. StatusAt(u) /\ StatusAt(u)'
      BY <2>3 DEF StatusInv
    <3> QED BY <3>1, <3>2 DEF StatusAt
  <2>7. AbsStatus' = [AbsStatus EXCEPT ![t] = "pending"]
    BY <2>5, <2>6 DEF AbsStatus
  <2>8. TC!Schedule(t)
    BY <2>2, <2>5, <2>7 DEF TC!Schedule, AbsStatus, AbsOwed
  <2> QED BY <2>8 DEF TC!AbsNext
<1>2. CASE CancelEarly(l, t) \/ CancelStarted(l, t)
  <2>1. /\ t \in entry /\ owner[t] = l /\ owner' = owner /\ cancelled' = cancelled \cup {t}
        /\ entry' = entry \/ entry' = entry \ {t}
    BY <1>2 DEF CancelEarly, CancelStarted, MayCancel
  <2>2. AbsOwed' = AbsOwed
    <3>1. CASE CancelEarly(l, t)
      BY <3>1, SameOwed DEF CancelEarly, CallsOwed
    <3>2. CASE CancelStarted(l, t)
      BY <2>1, <3>2, OwedQueued, SameOwed DEF CancelStarted, Kinds
    <3> QED BY <1>2, <3>1, <3>2
  <2>3. CASE t \in cancelled
    <3>1. AbsStatus' = AbsStatus
      BY <2>1, <2>3, SameStatus
    <3> QED BY <2>2, <3>1, UnchangedAbs
  <2>4. CASE t \notin cancelled
    <3>1. AbsStatus[t] = "pending" /\ AbsStatus' = [AbsStatus EXCEPT ![t] = "over"]
      BY <2>1, <2>4, EndedStatus
    <3>2. TC!Cancel(t)
      BY <2>2, <3>1 DEF TC!Cancel, AbsStatus, AbsOwed
    <3> QED BY <3>2 DEF TC!AbsNext
  <2> QED BY <2>3, <2>4
<1>3. CASE StartTimer(l, t) \/ CloseTimer(l, t)
  <2>1. PICK w \in {"start", "close"} : TakeJob(l, w, t)
    BY <1>3 DEF StartTimer, CloseTimer
  <2>2. owner' = owner /\ cancelled' = cancelled
    BY <1>3 DEF StartTimer, CloseTimer
  <2>3. AbsOwed' = AbsOwed
    BY <2>1, <2>2, OwedTaken, SameOwed DEF Kinds
  <2>4. entry' = entry \/ (entry' = entry \ {t} /\ t \in cancelled)
    <3>1. CASE StartTimer(l, t)
      BY <3>1 DEF StartTimer
    <3>2. CASE CloseTimer(l, t)
      <4>1. Takes(l, "close", t) /\ entry' = entry \ {t}
        BY <3>2, Taken DEF CloseTimer, Kinds, IInv
      <4>2. 1 \in DOMAIN jobs[l] /\ jobs[l][1].do = "close" /\ jobs[l][1].timer = t
        BY <4>1 DEF Takes
      <4> QED BY <4>1, <4>2 DEF IInv, CloseInv
    <3> QED BY <1>3, <3>1, <3>2
  <2>5. AbsStatus' = AbsStatus
    BY <2>2, <2>4, SameStatus
  <2> QED BY <2>3, <2>5, UnchangedAbs
<1>4. CASE RunCallback(l, t)
  <2>1. TakeJob(l, "call", t) /\ UNCHANGED <<entry, cancelled, owner>> /\ "call" \in Kinds
    BY <1>4 DEF RunCallback, Kinds
  <2>2. AbsStatus' = AbsStatus
    BY <2>1, SameStatus
  <2>3. \A u \in Timers : CallsOwed(u)' = IF u = t THEN CallsOwed(u) - 1 ELSE CallsOwed(u)
    BY <2>1, OwedTaken
  <2>4. CallsOwed(t) > 0
    <3>1. OwedAt(t) /\ OwedAt(t)'
      <4>1. OwedInv'
        BY Owed, PTL
      <4> QED BY <4>1, Owed DEF OwedInv
    <3>2. CallsOwed(t) \in Nat /\ CallsOwed(t)' \in Nat
      BY <3>1 DEF OwedAt
    <3> QED BY <2>3, <3>2
  <2>5. AbsOwed[t] > 0 /\ AbsOwed' = [AbsOwed EXCEPT ![t] = @ - 1]
    BY <2>3, <2>4, LessOwed DEF AbsOwed
  <2>6. TC!Call(t)
    BY <2>2, <2>5 DEF TC!Call, AbsStatus, AbsOwed
  <2> QED BY <2>6 DEF TC!AbsNext
<1>5. CASE FireCancelled(l, t)
  <2>1. UNCHANGED <<entry, cancelled, owner, jobs>>
    BY <1>5 DEF FireCancelled
  <2>2. AbsStatus' = AbsStatus /\ AbsOwed' = AbsOwed
    BY <2>1, SameStatus, SameOwed DEF CallsOwed
  <2> QED BY <2>2, UnchangedAbs
<1>6. CASE FireInterval(l, t) \/ FireTimeout(l, t)
  <2>1. /\ owner[t] = l /\ handle[t] = "live" /\ t \notin cancelled
        /\ RunOnLoop(l, "call", t) /\ "call" \in Kinds /\ UNCHANGED <<cancelled, owner>>
    BY <1>6 DEF FireInterval, FireTimeout, Due, Armed, Kinds
  <2>2. t \in entry \ cancelled /\ owner[t] # Nowhere
    BY <2>1 DEF IInv, EntryInv
  <2>3. \A u \in Timers : CallsOwed(u)' = IF u = t THEN CallsOwed(u) + 1 ELSE CallsOwed(u)
    BY <2>1, OwedQueued
  <2>4. AbsOwed' = [AbsOwed EXCEPT ![t] = @ + 1]
    BY <2>3, MoreOwed
  <2>5. CASE FireInterval(l, t)
    <3>1. entry' = entry /\ t \in Intervals
      BY <2>5 DEF FireInterval
    <3>2. AbsStatus' = AbsStatus
      BY <2>1, <3>1, SameStatus
    <3>3. AbsStatus[t] = "pending"
      BY <2>2, Status DEF StatusInv, StatusAt
    <3>4. TC!Expire(t)
      BY <2>4, <3>1, <3>2, <3>3 DEF TC!Expire, AbsStatus, AbsOwed
    <3> QED BY <3>4 DEF TC!AbsNext
  <2>6. CASE FireTimeout(l, t)
    <3>1. entry' = entry \ {t} /\ t \notin Intervals
      BY <2>6 DEF FireTimeout
    <3>2. AbsStatus[t] = "pending" /\ AbsStatus' = [AbsStatus EXCEPT ![t] = "over"]
      BY <2>1, <2>2, <3>1, EndedStatus
    <3>3. TC!Expire(t)
      BY <2>4, <3>1, <3>2 DEF TC!Expire, AbsStatus, AbsOwed
    <3> QED BY <3>3 DEF TC!AbsNext
  <2> QED BY <1>6, <2>5, <2>6
<1> QED BY <1>1, <1>2, <1>3, <1>4, <1>5, <1>6 DEF OnTimer

LEMMA StepRefines == IInv /\ IInv' /\ [Next]_vars => [TC!AbsNext]_(TC!absVars)
<1> SUFFICES ASSUME IInv, IInv', [Next]_vars
             PROVE  TC!AbsNext \/ UNCHANGED TC!absVars
  OBVIOUS
<1>1. ASSUME NEW l \in Loops, NEW t \in Timers, OnTimer(l, t)
      PROVE  TC!AbsNext \/ UNCHANGED TC!absVars
  BY <1>1, TimerRefines
<1>2. CASE UNCHANGED <<entry, cancelled, owner, jobs>>
  <2>1. AbsStatus' = AbsStatus /\ AbsOwed' = AbsOwed
    BY <1>2, SameStatus, SameOwed DEF CallsOwed
  <2> QED BY <2>1, UnchangedAbs
<1>3. ASSUME NEW l \in Loops, OnLoop(l)
      PROVE  UNCHANGED <<entry, cancelled, owner, jobs>>
  BY <1>3 DEF OnLoop, OpenOther, CloseOther, OtherEvent, Terminate, Return, TestStop,
              BlockLoop, ReturnFromLoop, WakeUp, EndTurn, EndTeardown
<1>4. CASE AllDone \/ UNCHANGED vars
  BY <1>2, <1>4 DEF AllDone, vars
<1> QED BY <1>1, <1>2, <1>3, <1>4 DEF Next

LEMMA InitRefines == Init => TC!AbsInit
<1> SUFFICES ASSUME Init PROVE TC!AbsInit
  OBVIOUS
<1>1. IInv
  BY InitInv
<1>2. \A t \in Timers : owner[t] = Nowhere
  BY DEF Init
<1>3. \A t \in Timers : AbsStatus[t] = "unused" /\ CallsOwed(t) = 0
  BY <1>1, <1>2, Status, Owed DEF StatusInv, StatusAt, OwedInv, OwedAt
<1>4. AbsStatus = [t \in Timers |-> "unused"] /\ AbsOwed = [t \in Timers |-> 0]
  BY <1>3 DEF AbsStatus, AbsOwed
<1> QED BY <1>4 DEF TC!AbsInit, AbsStatus, AbsOwed

\* setTimeout, setInterval and their cancellation keep their promise on any number
\* of loops: a timeout expires at most once, nothing expires after it was cancelled
\* and every callback that is run was owed by an expiration (AsyncApi.cpp:106-330).
THEOREM TimersImplementContract == Spec => ImplementsContract
BY InitRefines, StepRefines, Always, PTL DEF Spec, ImplementsContract, TC!AbsSpec
===============================================================================
