--------------------------- MODULE SchedulerProofs ---------------------------
(***************************************************************************)
(* What the loop guarantees for every set of tasks, threads and handles:   *)
(* its types, no lost wake-up, no early return, microtasks first, and that *)
(* it implements EventLoop.  Then the sockets over TCP and UDP and ping,   *)
(* as components of the program that MCScheduler describes: who owns a     *)
(* handle, what is heard, and what keeps the loop alive.                   *)
(***************************************************************************)
EXTENDS MCScheduler, FiniteSetTheorems, TLAPS

-----------------------------------------------------------------------------
\* The loop.

\* What is enqueued is a continuation nobody enqueued before; the origins of the
\* others stay.
LEMMA PostedKeeps ==
  ASSUME TypeOK, NEW t \in Conts, NEW o \in Origins, Posted(t, o)
  PROVE  /\ from' \in [Conts -> Origins] /\ from[t] = "none" /\ from'[t] = o
         /\ \A u \in Conts : u # t => from'[u] = from[u]
BY DEF TypeOK, Posted

LEMMA InAppend ==
  ASSUME NEW q \in Seq(Conts), NEW t \in Conts
  PROVE  /\ Append(q, t) \in Seq(Conts)
         /\ \A i \in DOMAIN Append(q, t) :
              Append(q, t)[i] = t \/ (i \in DOMAIN q /\ Append(q, t)[i] = q[i])
OBVIOUS

LEMMA OriginsOfPosts ==
  /\ "loop" \in Origins /\ "counted" \in Origins /\ "stray" \in Origins
  /\ \A p : From(p) \in Origins
  /\ Tasks \subseteq Conts /\ Workers \subseteq Conts
BY DEF Origins, From, Conts

\* Type correctness, one step per group of actions.
LEMMA TypeStep == TypeOK /\ [Next]_vars => TypeOK'
<1> SUFFICES ASSUME TypeOK, [Next]_vars
             PROVE  TypeOK'
  OBVIOUS
<1> USE DEF Goto, Places
<1>0. /\ micro \in Seq(Conts) /\ macro \in Seq(Conts)
      /\ th \in [Counted -> {"none", "counted", "leaving", "ended"}]
      /\ Workers \subseteq Counted /\ Fetches \subseteq Counted
      /\ Counted \subseteq Others /\ Parents \subseteq Others
  BY DEF TypeOK, Counted, Others
<1>1. ASSUME NEW t \in Tasks, EnqueueMicrotask(t) \/ EnqueueMacrotask(t)
      PROVE  TypeOK'
  <2>1. t \in Conts /\ Posted(t, "loop")
    BY <1>1, OriginsOfPosts DEF EnqueueMicrotask, EnqueueMacrotask
  <2>2. from' \in [Conts -> Origins]
    BY <2>1, PostedKeeps, OriginsOfPosts
  <2>3. Append(micro, t) \in Seq(Conts) /\ Append(macro, t) \in Seq(Conts)
    BY <2>1, <1>0
  <2> QED BY <1>1, <2>2, <2>3 DEF EnqueueMicrotask, EnqueueMacrotask, TypeOK
<1>2. ASSUME NEW e \in Handles, StartHandle(e) \/ CloseHandle(e)
      PROVE  TypeOK'
  BY <1>2 DEF StartHandle, CloseHandle, TypeOK
<1>3. ASSUME NEW p \in Counted, SpawnThread(p) \/ Retire(p)
      PROVE  TypeOK'
  <2>1. th' \in [Counted -> Places] /\ unseen' \subseteq Fetches
    BY <1>3, <1>0 DEF SpawnThread, Retire, TypeOK
  <2> QED BY <1>3, <2>1 DEF SpawnThread, Retire, TypeOK
<1>4. CASE TakeMicro
  <2>1. Tail(micro) \in Seq(Conts)
    BY <1>4, <1>0 DEF TakeMicro
  <2> QED BY <1>4, <2>1 DEF TakeMicro, TypeOK, Pcs
<1>5. CASE TakeMacro
  <2>1. Tail(macro) \in Seq(Conts)
    BY <1>5, <1>0 DEF TakeMacro
  <2> QED BY <1>5, <2>1 DEF TakeMacro, TypeOK, Pcs
<1>6. CASE RunUntilIdle \/ TestStop \/ Drained \/ EndMicro \/ NoMacro
             \/ EndMacro \/ CheckIdle \/ EndEvent \/ NextLine \/ StopSelf
  <2>1. UNCHANGED <<micro, macro, active, th, sending, from>>
    BY <1>6 DEF RunUntilIdle, TestStop, Drained, EndMicro, NoMacro, EndMacro,
                CheckIdle, EndEvent, NextLine, StopSelf, sched
  <2>2. /\ wake' \in BOOLEAN /\ stop' \in BOOLEAN
        /\ pc' \in Pcs /\ runs' \in Nat /\ unseen' \subseteq Fetches
    <3>1. CASE RunUntilIdle
      BY <3>1 DEF RunUntilIdle, sched, TypeOK, Pcs
    <3>2. CASE TestStop \/ CheckIdle \/ StopSelf
      BY <3>2 DEF TestStop, CheckIdle, StopSelf, sched, TypeOK, Pcs
    <3>3. CASE Drained \/ EndMicro \/ NoMacro \/ EndMacro \/ EndEvent \/ NextLine
      BY <3>3 DEF Drained, EndMicro, NoMacro, EndMacro, EndEvent, NextLine, sched, TypeOK, Pcs
    <3> QED BY <1>6, <3>1, <3>2, <3>3
  <2> QED BY <2>1, <2>2 DEF TypeOK
<1>7. CASE PollWake \/ PollHandle
  BY <1>7 DEF PollWake, PollHandle, TypeOK, Pcs
<1>8. ASSUME NEW p \in Others, NEW t \in Tasks, Push(p, t)
      PROVE  TypeOK'
  <2>1. t \in Conts /\ from' \in [Conts -> Origins]
    BY <1>8, PostedKeeps, OriginsOfPosts DEF Push
  <2>2. Append(macro, t) \in Seq(Conts)
    BY <2>1, <1>0
  <2> QED BY <1>8, <2>1, <2>2 DEF Push, TypeOK
<1>9. ASSUME NEW p \in Fetches, NEW t \in Tasks, PushMicro(p, t)
      PROVE  TypeOK'
  <2>1. t \in Conts /\ from' \in [Conts -> Origins]
    BY <1>9, PostedKeeps, OriginsOfPosts DEF PushMicro
  <2>2. Append(micro, t) \in Seq(Conts)
    BY <2>1, <1>0
  <2> QED BY <1>9, <1>0, <2>1, <2>2 DEF PushMicro, TypeOK
<1>10. ASSUME NEW p \in Workers, ExitPush(p)
       PROVE  TypeOK'
  <2>1. p \in Conts /\ from' \in [Conts -> Origins]
    BY <1>10, PostedKeeps, OriginsOfPosts DEF ExitPush
  <2>2. Append(macro, p) \in Seq(Conts) /\ th' \in [Counted -> Places]
    BY <1>10, <2>1, <1>0 DEF ExitPush
  <2> QED BY <1>10, <1>0, <2>1, <2>2 DEF ExitPush, TypeOK
<1>11. ASSUME NEW p \in Others, (p \in Parents /\ Stop(p)) \/ Send(p)
       PROVE  TypeOK'
  BY <1>11 DEF Stop, Send, TypeOK
<1>12. CASE UNCHANGED vars
  BY <1>12 DEF vars, sched, TypeOK
<1>13. QED
  BY <1>0, <1>1, <1>2, <1>3, <1>4, <1>5, <1>6, <1>7, <1>8, <1>9, <1>10, <1>11, <1>12
     DEF Next, Code, Loop, OffLoop

\* The state of the scheduler always has the types of its fields
\* (Scheduler.hpp:47-59).
THEOREM TypeCorrect == Spec => []TypeOK
<1>1. Init => TypeOK
  <2>1. <<>> \in Seq(Conts) /\ 0 \in Nat
    OBVIOUS
  <2> QED BY <2>1 DEF Init, TypeOK, Pcs, Places, Origins
<1>2. QED
  BY <1>1, TypeStep, PTL DEF Spec

------------------------------------------------------------------------------
(* The strengthening of NoLostWakeup and MicrotasksFirst: from the moment a *)
(* test of the loop thread can no longer see what it missed, a wake-up is   *)
(* owed; and a microtask missed so was posted by the thread of a fetch.     *)
Signalled == wake \/ sending # {}
Strays(q) == \A i \in DOMAIN q : from[q[i]] = "stray"

WakeInv ==
  /\ pc \in {"pop", "idle", "poll"} => Strays(micro) /\ (micro = <<>> \/ Signalled)
  /\ pc \in {"idle", "poll"} => macro = <<>> \/ Signalled
  /\ pc \in {"drain", "inMicro", "pop", "inMacro", "idle", "poll"}
       => ~stop \/ Signalled
  /\ pc = "poll" =>
       \/ active # {} \/ running # {} \/ unseen # {} \/ Signalled
       \/ \E p \in Workers : th[p] = "leaving"

\* A queue of strays keeps its origins when another continuation is posted, and
\* stays one when the other is a stray of its own.
LEMMA StraysStay ==
  ASSUME TypeOK, NEW t \in Conts, NEW o \in Origins, Posted(t, o),
         NEW q \in Seq(Conts), Strays(q)
  PROVE  /\ \A i \in DOMAIN q : from'[q[i]] = "stray"
         /\ o = "stray" => \A i \in DOMAIN Append(q, t) : from'[Append(q, t)[i]] = "stray"
<1>1. \A i \in DOMAIN q : q[i] \in Conts /\ q[i] # t
  BY DEF Strays, Posted
<1>2. \A i \in DOMAIN q : from'[q[i]] = "stray"
  BY <1>1, PostedKeeps DEF Strays
<1> QED BY <1>2, PostedKeeps, InAppend

LEMMA WakeStep == TypeOK /\ WakeInv /\ [Next]_vars => WakeInv'
<1> SUFFICES ASSUME TypeOK, WakeInv, [Next]_vars
             PROVE  WakeInv'
  OBVIOUS
<1> USE DEF Goto
<1>0. micro \in Seq(Conts) /\ macro \in Seq(Conts)
  BY DEF TypeOK
<1>1. ASSUME NEW t \in Tasks, EnqueueMicrotask(t) \/ EnqueueMacrotask(t)
      PROVE  WakeInv'
  BY <1>1 DEF EnqueueMicrotask, EnqueueMacrotask, InCode, WakeInv, Signalled
<1>2. ASSUME NEW e \in Handles, StartHandle(e) \/ CloseHandle(e)
      PROVE  WakeInv'
  BY <1>2 DEF StartHandle, CloseHandle, InCode, WakeInv, Signalled
<1>3. ASSUME NEW p \in Counted, SpawnThread(p)
      PROVE  WakeInv'
  BY <1>3 DEF SpawnThread, InCode, WakeInv, Signalled
<1>4. CASE TakeMicro \/ TakeMacro \/ StopSelf
  BY <1>4 DEF TakeMicro, TakeMacro, StopSelf, InCode, WakeInv, Signalled
<1>5. CASE RunUntilIdle \/ TestStop \/ EndMicro \/ EndMacro \/ EndEvent \/ NextLine
  BY <1>5 DEF RunUntilIdle, TestStop, EndMicro, EndMacro, EndEvent, NextLine, sched,
              WakeInv, Signalled
<1>6. CASE Drained
  <2>1. micro' = <<>> /\ pc' = "pop" /\ pc = "drain"
        /\ UNCHANGED <<wake, stop, sending, macro>>
    BY <1>6 DEF Drained, sched
  <2> QED BY <2>1 DEF WakeInv, Signalled, Strays
<1>7. CASE NoMacro \/ CheckIdle
  <2>1. UNCHANGED <<micro, macro, wake, stop, active, th, sending, from>>
    BY <1>7 DEF NoMacro, CheckIdle, sched
  <2>2. CASE NoMacro
    BY <2>1, <2>2 DEF NoMacro, WakeInv, Signalled, Strays
  <2>3. CASE CheckIdle
    BY <2>1, <2>3 DEF CheckIdle, Idle, HasPending, WakeInv, Signalled, Strays, running
  <2> QED BY <1>7, <2>2, <2>3
<1>8. CASE PollWake \/ PollHandle
  BY <1>8 DEF PollWake, PollHandle, WakeInv, Signalled
<1>9. ASSUME NEW p \in Others, NEW t \in Tasks, Push(p, t)
      PROVE  WakeInv'
  <2>1. sending' # {} /\ UNCHANGED <<micro, pc>> /\ t \in Conts
        /\ Posted(t, From(p)) /\ From(p) \in Origins
    BY <1>9, OriginsOfPosts DEF Push
  <2>2. pc \in {"pop", "idle", "poll"} => \A i \in DOMAIN micro : from'[micro[i]] = "stray"
    BY <1>0, <2>1, StraysStay DEF WakeInv
  <2> QED BY <2>1, <2>2 DEF WakeInv, Signalled, Strays
<1>10. ASSUME NEW p \in Fetches, NEW t \in Tasks, PushMicro(p, t)
       PROVE  WakeInv'
  <2>1. sending' # {} /\ micro' = Append(micro, t) /\ UNCHANGED pc /\ t \in Conts
        /\ Posted(t, "stray") /\ "stray" \in Origins
    BY <1>10, OriginsOfPosts DEF PushMicro
  <2>2. pc \in {"pop", "idle", "poll"} =>
          \A i \in DOMAIN Append(micro, t) : from'[Append(micro, t)[i]] = "stray"
    BY <1>0, <2>1, StraysStay DEF WakeInv
  <2> QED BY <2>1, <2>2 DEF WakeInv, Signalled, Strays
<1>11. ASSUME NEW p \in Workers, ExitPush(p)
       PROVE  WakeInv'
  <2>1. sending' # {} /\ UNCHANGED <<micro, pc>> /\ p \in Conts
        /\ Posted(p, "stray") /\ "stray" \in Origins
    BY <1>11, OriginsOfPosts DEF ExitPush
  <2>2. pc \in {"pop", "idle", "poll"} => \A i \in DOMAIN micro : from'[micro[i]] = "stray"
    BY <1>0, <2>1, StraysStay DEF WakeInv
  <2> QED BY <2>1, <2>2 DEF WakeInv, Signalled, Strays
<1>12. ASSUME NEW p \in Counted, Retire(p)
       PROVE  WakeInv'
  <2>1. /\ UNCHANGED <<micro, macro, wake, stop, active, sending, pc, from>>
        /\ th' = [th EXCEPT ![p] = "leaving"] /\ th \in [Counted -> Places]
        /\ unseen' = unseen \cup ({p} \cap Fetches) /\ p \in Counted
    BY <1>12 DEF Retire, TypeOK
  <2>2. \/ p \in Fetches /\ unseen' # {}
        \/ p \in Workers /\ th'[p] = "leaving"
    BY <2>1 DEF Counted
  <2> QED BY <2>1, <2>2 DEF WakeInv, Signalled, Strays
<1>13. ASSUME NEW p \in Others, (p \in Parents /\ Stop(p)) \/ Send(p)
       PROVE  WakeInv'
  <2>1. /\ UNCHANGED <<micro, macro, active, th, pc, from, unseen>> /\ Signalled'
    BY <1>13 DEF Stop, Send, Signalled
  <2> QED BY <2>1 DEF WakeInv, Strays, running
<1>14. CASE UNCHANGED vars
  BY <1>14 DEF vars, sched, WakeInv, Signalled, Strays, running
<1>15. QED
  BY <1>1, <1>2, <1>3, <1>4, <1>5, <1>6, <1>7, <1>8, <1>9, <1>10, <1>11, <1>12,
     <1>13, <1>14
     DEF Next, Code, Loop, OffLoop, Counted, Others

LEMMA WakeInvariant == Spec => []WakeInv
<1>1. Init => WakeInv
  BY DEF Init, WakeInv
<1>2. QED
  BY <1>1, WakeStep, TypeCorrect, PTL DEF Spec

\* However pushes of both kinds, stops, silent retirements and exit events of any
\* number of threads interleave with the loop thread's tests, it is not left
\* blocked in uv_run with something to do and no wake-up on its way; but for a
\* fetch that gave its count back after has_pending was asked.
THEOREM NoWakeupIsLost == Spec => []NoLostWakeup
<1>1. WakeInv => NoLostWakeup
  BY DEF WakeInv, NoLostWakeup, Signalled
<1>2. QED
  BY <1>1, WakeInvariant, PTL

\* A macrotask never starts before a microtask of the loop's own code (run_one),
\* whatever the threads of fetches post between its two tests.
THEOREM MicrotasksRunFirst == Spec => MicrotasksFirst
<1>1. WakeInv /\ [Next]_vars => [TakeMacro => ~QueuedAs(micro, "loop")]_vars
  BY DEF WakeInv, TakeMacro, Goto, QueuedAs, Strays
<1>2. QED
  BY <1>1, WakeInvariant, PTL DEF Spec, MicrotasksFirst

------------------------------------------------------------------------------
\* One more in a queue is the only one more that is queued.
LEMMA QueuedGrows ==
  ASSUME TypeOK, NEW t \in Conts,
         \/ micro' = Append(micro, t) /\ macro' = macro
         \/ macro' = Append(macro, t) /\ micro' = micro
  PROVE  \A u \in Conts : Queued(u)' => u = t \/ Queued(u)
<1>1. micro \in Seq(Conts) /\ macro \in Seq(Conts)
  BY DEF TypeOK
<1>2. CASE micro' = Append(micro, t) /\ macro' = macro
  <2>1. \A i \in DOMAIN micro' : micro'[i] = t \/ (i \in DOMAIN micro /\ micro'[i] = micro[i])
    BY <1>1, <1>2, InAppend
  <2> QED BY <1>2, <2>1 DEF Queued
<1>3. CASE macro' = Append(macro, t) /\ micro' = micro
  <2>1. \A i \in DOMAIN macro' : macro'[i] = t \/ (i \in DOMAIN macro /\ macro'[i] = macro[i])
    BY <1>1, <1>3, InAppend
  <2> QED BY <1>3, <2>1 DEF Queued
<1> QED BY <1>2, <1>3

LEMMA ExitStep == TypeOK /\ NoEarlyExit /\ [Next]_vars => NoEarlyExit'
<1> SUFFICES ASSUME TypeOK, NoEarlyExit, [Next]_vars
             PROVE  NoEarlyExit'
  OBVIOUS
<1> USE DEF Goto
<1>1. CASE Code
  BY <1>1 DEF Code, EnqueueMicrotask, EnqueueMacrotask, StartHandle,
              CloseHandle, SpawnThread, StopSelf, InCode, NoEarlyExit
<1>2. CASE Loop /\ ~CheckIdle
  BY <1>2 DEF Loop, RunUntilIdle, TestStop, TakeMicro, Drained, EndMicro,
              TakeMacro, NoMacro, EndMacro, PollWake, PollHandle,
              EndEvent, NextLine, NoEarlyExit, sched
<1>3. CASE CheckIdle
  <2>1. UNCHANGED <<micro, macro, active, th>> /\ (pc' = "exited" => Idle)
    BY <1>3 DEF CheckIdle, sched
  <2>2. ASSUME Idle
        PROVE  active' = {} /\ running' = {} /\ \A t \in Conts : ~Queued(t)'
    BY <2>1, <2>2 DEF Idle, HasPending, Queued, running
  <2> QED BY <2>1, <2>2 DEF NoEarlyExit
<1>4. ASSUME NEW t \in Conts, NEW o \in Origins, Posted(t, o),
             running = {} => o = "stray",
             \/ micro' = Append(micro, t) /\ macro' = macro
             \/ macro' = Append(macro, t) /\ micro' = micro,
             UNCHANGED <<pc, stop, active>>, running' \subseteq running
      PROVE  NoEarlyExit'
  <2>1. \A u \in Conts : Queued(u)' => u = t \/ Queued(u)
    BY <1>4, QueuedGrows
  <2>2. from'[t] = o /\ \A u \in Conts : u # t => from'[u] = from[u]
    BY <1>4, PostedKeeps
  <2> QED BY <1>4, <2>1, <2>2 DEF NoEarlyExit
<1>5. ASSUME NEW p \in Others, NEW t \in Tasks, Push(p, t)
      PROVE  NoEarlyExit'
  <2>1. t \in Conts /\ Posted(t, From(p)) /\ From(p) \in Origins /\ running' = running
    BY <1>5, OriginsOfPosts DEF Push, running
  <2>2. running = {} => From(p) = "stray"
    BY DEF From
  <2> QED BY <1>4, <1>5, <2>1, <2>2 DEF Push
<1>6. ASSUME NEW p \in Fetches, NEW t \in Tasks, PushMicro(p, t)
      PROVE  NoEarlyExit'
  <2>1. t \in Conts /\ Posted(t, "stray") /\ running' = running
    BY <1>6, OriginsOfPosts DEF PushMicro, running
  <2> QED BY <1>4, <1>6, <2>1, OriginsOfPosts DEF PushMicro
<1>7. ASSUME NEW p \in Workers, ExitPush(p)
      PROVE  NoEarlyExit'
  <2>1. p \in Conts /\ Posted(p, "stray")
    BY <1>7, OriginsOfPosts DEF ExitPush
  <2>2. running' \subseteq running
    BY <1>7 DEF ExitPush, running, TypeOK
  <2> QED BY <1>4, <1>7, <2>1, <2>2, OriginsOfPosts DEF ExitPush
<1>8. ASSUME NEW p \in Counted, Retire(p)
      PROVE  NoEarlyExit'
  <2>1. running' \subseteq running /\ UNCHANGED <<pc, stop, active, micro, macro, from>>
    BY <1>8 DEF Retire, running, TypeOK
  <2> QED BY <2>1 DEF NoEarlyExit, Queued
<1>9. ASSUME NEW p \in Others, (p \in Parents /\ Stop(p)) \/ Send(p)
      PROVE  NoEarlyExit'
  BY <1>9 DEF Stop, Send, NoEarlyExit, Queued, running
<1>10. CASE UNCHANGED vars
  BY <1>10 DEF vars, sched, NoEarlyExit, Queued, running
<1>11. QED
  BY <1>1, <1>2, <1>3, <1>5, <1>6, <1>7, <1>8, <1>9, <1>10
     DEF Next, OffLoop, Others, Counted

\* run_until_idle returns on its own only when no handle is active, has_pending()
\* is false and nothing is queued; and what is queued after that, until the REPL
\* enters it again, comes from threads that it does not count (any more).
THEOREM LoopNeverReturnsEarly == Spec => []NoEarlyExit
<1>1. Init => NoEarlyExit
  BY DEF Init, NoEarlyExit
<1>2. QED
  BY <1>1, ExitStep, TypeCorrect, PTL DEF Spec

------------------------------------------------------------------------------
(* Refinement: every step of Scheduler is a step of EventLoop or leaves its *)
(* variables unchanged.                                                     *)
LEMMA SourceStep ==
  ASSUME TypeOK', UNCHANGED <<micro, macro, from, stop, pc>>,
         pc = "exited" => (active \cup running)' \subseteq active \cup running
  PROVE  EL!AbsNext
<1>1. (active \cup running)' \in SUBSET (Handles \cup Counted)
  BY DEF TypeOK, running
<1>2. EL!Sourcing((active \cup running)')
  BY DEF EL!Sourcing
<1>3. QED
  BY <1>1, <1>2 DEF EL!AbsNext

LEMMA PostStep ==
  ASSUME NEW t \in Conts,
         \/ Posted(t, "loop") /\ pc # "exited"
         \/ Posted(t, "counted") /\ running # {}
         \/ Posted(t, "stray"),
         \/ micro' = Append(micro, t) /\ macro' = macro
         \/ macro' = Append(macro, t) /\ micro' = micro,
         UNCHANGED <<stop, pc>>, UNCHANGED (active \cup running)
  PROVE  EL!AbsNext
<1>1. EL!Post(t)
  BY DEF EL!Post, Posted
<1>2. EL!PostMicro(t) \/ EL!PostMacro(t)
  BY <1>1 DEF EL!PostMicro, EL!PostMacro
<1> QED BY <1>2 DEF EL!AbsNext

LEMMA RefinementStep ==
  TypeOK /\ TypeOK' /\ WakeInv /\ [Next]_vars => [EL!AbsNext]_(EL!absVars)
<1> SUFFICES ASSUME TypeOK, TypeOK', WakeInv, [Next]_vars
             PROVE  EL!AbsNext \/ UNCHANGED EL!absVars
  OBVIOUS
<1> USE DEF Goto
<1>0. ASSUME UNCHANGED <<active, th>>
      PROVE  UNCHANGED (active \cup running)
  BY <1>0 DEF running
<1>1. ASSUME NEW t \in Tasks, EnqueueMicrotask(t) \/ EnqueueMacrotask(t)
      PROVE  EL!AbsNext
  <2>1. t \in Conts /\ Posted(t, "loop") /\ pc # "exited"
        /\ UNCHANGED <<stop, pc, active, th>>
    BY <1>1, OriginsOfPosts DEF EnqueueMicrotask, EnqueueMacrotask, InCode
  <2>2. \/ micro' = Append(micro, t) /\ macro' = macro
        \/ macro' = Append(macro, t) /\ micro' = micro
    BY <1>1 DEF EnqueueMicrotask, EnqueueMacrotask
  <2> QED BY <1>0, <2>1, <2>2, PostStep
<1>2. ASSUME NEW e \in Handles, StartHandle(e) \/ CloseHandle(e)
      PROVE  EL!AbsNext
  <2>1. pc # "exited" /\ UNCHANGED <<micro, macro, from, stop, pc>>
    BY <1>2 DEF StartHandle, CloseHandle, InCode
  <2> QED BY <2>1, SourceStep
<1>3. ASSUME NEW p \in Counted, SpawnThread(p)
      PROVE  EL!AbsNext
  <2>1. pc # "exited" /\ UNCHANGED <<micro, macro, from, stop, pc>>
    BY <1>3 DEF SpawnThread, InCode
  <2> QED BY <2>1, SourceStep
<1>4. CASE StopSelf
  <2>1. UNCHANGED (active \cup running)
    BY <1>0, <1>4 DEF StopSelf
  <2>2. EL!AskStop
    BY <1>4, <2>1 DEF StopSelf, EL!AskStop
  <2> QED BY <2>2 DEF EL!AbsNext
<1>5. CASE TakeMicro
  <2>1. UNCHANGED (active \cup running)
    BY <1>0, <1>5 DEF TakeMicro
  <2>2. EL!StartMicro
    BY <1>5, <2>1 DEF TakeMicro, EL!StartMicro
  <2> QED BY <2>2 DEF EL!AbsNext
<1>6. CASE TakeMacro
  <2>1. UNCHANGED (active \cup running)
    BY <1>0, <1>6 DEF TakeMacro
  <2>2. \A i \in DOMAIN micro : from[micro[i]] = "stray"
    BY <1>6 DEF TakeMacro, WakeInv, Strays
  <2>3. EL!StartMacro
    BY <1>6, <2>1, <2>2 DEF TakeMacro, EL!StartMacro
  <2> QED BY <2>3 DEF EL!AbsNext
<1>7. CASE RunUntilIdle \/ Drained \/ EndMicro \/ NoMacro \/ EndMacro
             \/ PollWake \/ PollHandle \/ EndEvent
  <2>1. UNCHANGED <<micro, macro, from, stop, active, th>>
        /\ (pc = "exited") = (pc' = "exited")
    BY <1>7 DEF RunUntilIdle, Drained, EndMicro, NoMacro, EndMacro, PollWake,
                PollHandle, EndEvent, sched
  <2> QED BY <1>0, <2>1 DEF EL!absVars
<1>8. CASE TestStop \/ CheckIdle
  <2>1. /\ UNCHANGED <<micro, macro, from, stop, active, th>> /\ pc # "exited"
        /\ pc' = "exited" => stop \/ Idle
    BY <1>8 DEF TestStop, CheckIdle, sched
  <2>2. UNCHANGED (active \cup running)
    BY <1>0, <2>1
  <2>3. CASE pc' = "exited"
    <3>1. EL!Finish
      BY <2>1, <2>2, <2>3 DEF EL!Finish, Idle, HasPending
    <3> QED BY <3>1 DEF EL!AbsNext
  <2>4. CASE pc' # "exited"
    BY <2>1, <2>2, <2>4 DEF EL!absVars
  <2> QED BY <2>3, <2>4
<1>9. CASE NextLine
  <2>1. UNCHANGED <<micro, macro, from, stop, active, th>>
        /\ pc = "exited" /\ pc' # "exited"
    BY <1>9 DEF NextLine, sched
  <2>2. EL!Resume
    BY <1>0, <2>1 DEF EL!Resume
  <2> QED BY <2>2 DEF EL!AbsNext
<1>10. ASSUME NEW p \in Others, NEW t \in Tasks, Push(p, t)
       PROVE  EL!AbsNext
  <2>1. t \in Conts /\ Posted(t, From(p)) /\ macro' = Append(macro, t) /\ micro' = micro
        /\ UNCHANGED <<stop, pc, active, th>>
    BY <1>10, OriginsOfPosts DEF Push
  <2>2. (From(p) = "counted" /\ running # {}) \/ From(p) = "stray"
    BY DEF From
  <2> QED BY <1>0, <2>1, <2>2, PostStep
<1>11. ASSUME NEW p \in Fetches, NEW t \in Tasks, PushMicro(p, t)
       PROVE  EL!AbsNext
  <2>1. t \in Conts /\ Posted(t, "stray") /\ micro' = Append(micro, t) /\ macro' = macro
        /\ UNCHANGED <<stop, pc, active, th>>
    BY <1>11, OriginsOfPosts DEF PushMicro
  <2> QED BY <1>0, <2>1, PostStep
<1>12. ASSUME NEW p \in Workers, ExitPush(p)
       PROVE  EL!AbsNext
  <2>1. p \in Conts /\ Posted(p, "stray") /\ macro' = Append(macro, p) /\ micro' = micro
        /\ UNCHANGED <<stop, pc, active>>
    BY <1>12, OriginsOfPosts DEF ExitPush
  <2>2. running' = running
    BY <1>12 DEF ExitPush, running, TypeOK
  <2> QED BY <2>1, <2>2, PostStep
<1>13. ASSUME NEW p \in Parents, Stop(p)
       PROVE  EL!AbsNext
  <2>1. UNCHANGED (active \cup running)
    BY <1>0, <1>13 DEF Stop
  <2>2. EL!AskStop
    BY <1>13, <2>1 DEF Stop, EL!AskStop, TypeOK
  <2> QED BY <2>2 DEF EL!AbsNext
<1>14. ASSUME NEW p \in Counted, Retire(p)
       PROVE  EL!AbsNext
  <2>1. /\ UNCHANGED <<micro, macro, from, stop, pc, active>>
        /\ running' \subseteq running
    BY <1>14 DEF Retire, running, TypeOK
  <2> QED BY <2>1, SourceStep
<1>15. ASSUME NEW p \in Others, Send(p)
       PROVE  UNCHANGED EL!absVars
  BY <1>0, <1>15 DEF Send, EL!absVars
<1>16. CASE UNCHANGED vars
  BY <1>0, <1>16 DEF vars, sched, EL!absVars
<1>17. QED
  BY <1>1, <1>2, <1>3, <1>4, <1>5, <1>6, <1>7, <1>8, <1>9, <1>10, <1>11,
     <1>12, <1>13, <1>14, <1>15, <1>16
     DEF Next, Code, Loop, OffLoop

\* The threaded scheduler implements the sequential promise of EventLoop: first-in
\* first-out within a class, the loop's own microtasks first, no early finish, and
\* nothing but strays posted to a loop that returned.
THEOREM SchedulerImplementsEventLoop == Spec => ImplementsEventLoop
<1>1. Init => EL!AbsInit
  BY DEF Init, EL!AbsInit, running
<1>2. QED
  BY <1>1, RefinementStep, TypeCorrect, WakeInvariant, PTL
     DEF Spec, ImplementsEventLoop, EL!AbsSpec

-----------------------------------------------------------------------------
\* Queues: r is q with m behind it, or q without its first; and the numbers that
\* the jobs of a set D carry in q are those from a to b, in their order.
Longer(q, m, r) ==
  /\ \A i \in DOMAIN q : i \in DOMAIN r /\ r[i] = q[i]
  /\ \A i \in DOMAIN r :
       \/ i \in DOMAIN q /\ r[i] = q[i]
       \/ i \notin DOMAIN q /\ i - Len(q) \in DOMAIN m /\ r[i] = m[i - Len(q)]
  /\ \A i \in DOMAIN m : Len(q) + i \in DOMAIN r /\ r[Len(q) + i] = m[i]
Shorter(q, r) ==
  /\ \A i \in DOMAIN r : i + 1 \in DOMAIN q /\ r[i] = q[i + 1]
  /\ \A i \in DOMAIN q : i = 1 \/ (i - 1 \in DOMAIN r /\ r[i - 1] = q[i])
Carried(q, D, a, b) ==
  /\ \A i \in DOMAIN q : q[i] \in D => a < q[i].c /\ q[i].c <= b
  /\ \A n \in (a + 1)..b : \E i \in DOMAIN q : q[i] \in D /\ q[i].c = n
  /\ \A i, j \in DOMAIN q : q[i] \in D /\ q[j] \in D /\ i < j => q[i].c < q[j].c

LEMMA JoinIsLonger ==
  ASSUME NEW S, NEW q \in Seq(S), NEW m \in Seq(S)
  PROVE  q \o m \in Seq(S) /\ Longer(q, m, q \o m)
BY DEF Longer

LEMMA TailIsShorter ==
  ASSUME NEW S, NEW q \in Seq(S), q # <<>>
  PROVE  /\ Tail(q) \in Seq(S) /\ Shorter(q, Tail(q))
         /\ 1 \in DOMAIN q /\ Head(q) = q[1] /\ q[1] \in S
BY DEF Shorter

LEMMA CarriedLonger ==
  ASSUME NEW S, NEW q \in Seq(S), NEW m \in Seq(S), NEW r \in Seq(S), Longer(q, m, r),
         NEW D, NEW a \in Nat, NEW b \in Nat, Carried(q, D, a, b), \A k \in DOMAIN m : m[k] \notin D
  PROVE  Carried(r, D, a, b)
<1>1. \A i \in DOMAIN r : r[i] \in D => i \in DOMAIN q /\ r[i] = q[i]
  BY DEF Longer
<1>2. \A i \in DOMAIN q : i \in DOMAIN r /\ r[i] = q[i]
  BY DEF Longer
<1>3. \A n \in (a + 1)..b : \E i \in DOMAIN r : r[i] \in D /\ r[i].c = n
  BY <1>2 DEF Carried
<1>4. \A i \in DOMAIN r : r[i] \in D => a < r[i].c /\ r[i].c <= b
  BY <1>1 DEF Carried
<1>5. \A i, j \in DOMAIN r : r[i] \in D /\ r[j] \in D /\ i < j => r[i].c < r[j].c
  BY <1>1 DEF Carried
<1> QED BY <1>3, <1>4, <1>5 DEF Carried

\* What is in order in q is in order behind its first.
LEMMA AfterFirst ==
  ASSUME NEW S, NEW q \in Seq(S), NEW r \in Seq(S), Shorter(q, r), NEW D,
         \A i, j \in DOMAIN q : q[i] \in D /\ q[j] \in D /\ i < j => q[i].c < q[j].c
  PROVE  /\ \A i, j \in DOMAIN r : r[i] \in D /\ r[j] \in D /\ i < j => r[i].c < r[j].c
         /\ 1 \in DOMAIN q /\ q[1] \in D =>
              \A i \in DOMAIN r : r[i] \in D => q[1].c < r[i].c
<1>1. \A i \in DOMAIN r : i \in Nat /\ i > 0 /\ i + 1 \in DOMAIN q /\ r[i] = q[i + 1]
  BY DEF Shorter
<1>2. ASSUME NEW i \in DOMAIN r, NEW j \in DOMAIN r, r[i] \in D, r[j] \in D, i < j
      PROVE  r[i].c < r[j].c
  <2>1. i + 1 < j + 1
    BY <1>1, <1>2
  <2> QED BY <1>1, <1>2, <2>1
<1>3. ASSUME 1 \in DOMAIN q, q[1] \in D, NEW i \in DOMAIN r, r[i] \in D
      PROVE  q[1].c < r[i].c
  <2>1. 1 < i + 1
    BY <1>1
  <2> QED BY <1>1, <1>3, <2>1
<1> QED BY <1>2, <1>3

LEMMA CarriedShorter ==
  ASSUME NEW S, NEW q \in Seq(S), NEW r \in Seq(S), Shorter(q, r),
         NEW D, NEW a \in Nat, NEW b \in Nat, Carried(q, D, a, b), q[1] \notin D
  PROVE  Carried(r, D, a, b)
<1>1. \A i \in DOMAIN r : i \in Nat /\ i + 1 \in DOMAIN q /\ r[i] = q[i + 1]
  BY DEF Shorter
<1>2. \A n \in (a + 1)..b : \E i \in DOMAIN r : r[i] \in D /\ r[i].c = n
  <2> TAKE n \in (a + 1)..b
  <2>1. PICK i \in DOMAIN q : q[i] \in D /\ q[i].c = n
    BY DEF Carried
  <2>2. i - 1 \in DOMAIN r /\ r[i - 1] = q[i]
    BY <2>1 DEF Shorter
  <2> QED BY <2>1, <2>2
<1>3. \A i \in DOMAIN r : r[i] \in D => a < r[i].c /\ r[i].c <= b
  BY <1>1 DEF Carried
<1>4. \A i, j \in DOMAIN r : r[i] \in D /\ r[j] \in D /\ i < j => r[i].c < r[j].c
  BY <1>1, AfterFirst DEF Carried
<1> QED BY <1>2, <1>3, <1>4 DEF Carried

\* The number in front is the next one.
LEMMA CarriedHead ==
  ASSUME NEW S, NEW q \in Seq(S), NEW r \in Seq(S), Shorter(q, r), 1 \in DOMAIN q,
         \A i \in DOMAIN q : q[i].c \in Nat,
         NEW D, NEW a \in Nat, NEW b \in Nat, Carried(q, D, a, b), q[1] \in D
  PROVE  q[1].c = a + 1 /\ a + 1 <= b /\ Carried(r, D, a + 1, b)
<1>1. a < q[1].c /\ q[1].c <= b /\ q[1].c \in Nat
  BY DEF Carried
<1>2. a + 1 \in (a + 1)..b
  BY <1>1
<1>3. PICK i \in DOMAIN q : q[i] \in D /\ q[i].c = a + 1
  BY <1>2 DEF Carried
<1>4. q[1].c = a + 1
  <2>1. CASE i = 1 BY <1>3, <2>1
  <2>2. CASE i # 1
    <3>1. 1 < i BY <2>2
    <3>2. q[1].c < q[i].c BY <1>3, <3>1 DEF Carried
    <3> QED BY <1>1, <1>3, <3>2
  <2> QED BY <2>1, <2>2
<1>5. \A k \in DOMAIN r : k \in Nat /\ k > 0 /\ k + 1 \in DOMAIN q /\ r[k] = q[k + 1]
  BY DEF Shorter
<1>6. \A k \in DOMAIN r : r[k] \in D => a + 1 < r[k].c /\ r[k].c <= b
  <2>1. ASSUME NEW k \in DOMAIN r, r[k] \in D
        PROVE  a + 1 < r[k].c /\ r[k].c <= b
    <3>1. q[1].c < r[k].c
      BY <2>1, AfterFirst DEF Carried
    <3>2. r[k].c <= b
      BY <1>5, <2>1 DEF Carried
    <3> QED BY <1>4, <3>1, <3>2
  <2> QED BY <2>1
<1>7. \A n \in (a + 2)..b : \E k \in DOMAIN r : r[k] \in D /\ r[k].c = n
  <2> TAKE n \in (a + 2)..b
  <2>1. PICK k \in DOMAIN q : q[k] \in D /\ q[k].c = n
    BY DEF Carried
  <2>2. k # 1
    BY <1>4, <2>1
  <2>3. k - 1 \in DOMAIN r /\ r[k - 1] = q[k]
    BY <2>2 DEF Shorter
  <2> QED BY <2>1, <2>3
<1>8. \A k, l \in DOMAIN r : r[k] \in D /\ r[l] \in D /\ k < l => r[k].c < r[l].c
  BY AfterFirst DEF Carried
<1>9. (a + 1) + 1 = a + 2
  OBVIOUS
<1>10. Carried(r, D, a + 1, b)
  BY <1>6, <1>7, <1>8, <1>9 DEF Carried
<1>11. a + 1 <= b
  BY <1>1
<1> QED BY <1>4, <1>10, <1>11

LEMMA CarriedOne ==
  ASSUME NEW S, NEW q \in Seq(S), NEW r \in Seq(S), NEW x \in S, Longer(q, <<x>>, r),
         \A i \in DOMAIN q : q[i].c \in Nat,
         NEW D, NEW a \in Nat, NEW b \in Nat, Carried(q, D, a, b), x \in D, x.c = b + 1, a <= b
  PROVE  Carried(r, D, a, b + 1)
<1>1. /\ \A i \in DOMAIN q : i \in DOMAIN r /\ r[i] = q[i]
      /\ \A i \in DOMAIN r : \/ i \in DOMAIN q /\ r[i] = q[i]
                             \/ i \notin DOMAIN q /\ i = Len(q) + 1 /\ r[i] = x
      /\ Len(q) + 1 \in DOMAIN r /\ r[Len(q) + 1] = x
  BY DEF Longer
<1>2. \A i \in DOMAIN r : r[i] \in D => a < r[i].c /\ r[i].c <= b + 1
  BY <1>1 DEF Carried
<1>3. \A n \in (a + 1)..(b + 1) : \E i \in DOMAIN r : r[i] \in D /\ r[i].c = n
  <2> TAKE n \in (a + 1)..(b + 1)
  <2>1. CASE n = b + 1
    BY <1>1, <2>1
  <2>2. CASE n # b + 1
    <3>1. n \in (a + 1)..b BY <2>2
    <3> QED BY <1>1, <3>1 DEF Carried
  <2> QED BY <2>1, <2>2
<1>4. \A i, j \in DOMAIN r : r[i] \in D /\ r[j] \in D /\ i < j => r[i].c < r[j].c
  <2> SUFFICES ASSUME NEW i \in DOMAIN r, NEW j \in DOMAIN r, r[i] \in D, r[j] \in D, i < j
               PROVE  r[i].c < r[j].c
    OBVIOUS
  <2>1. i \in DOMAIN q /\ r[i] = q[i]
    BY <1>1
  <2>2. CASE j \in DOMAIN q
    BY <1>1, <2>1, <2>2 DEF Carried
  <2>3. CASE j \notin DOMAIN q
    BY <1>1, <2>1, <2>3 DEF Carried
  <2> QED BY <2>2, <2>3
<1> QED BY <1>2, <1>3, <1>4 DEF Carried

-----------------------------------------------------------------------------
\* Ping and resolve.

\* Which handles an attempt has: over TCP the socket, its timer and the wait for
\* an answer go together; over ICMP the timer and the wait do; the interval
\* runs when neither does, and only while the ping is under way.
AttemptInv ==
  /\ try.timer = "running" <=> try.waits
  /\ ~ping.icmp => (try.sock = "open" <=> try.waits)
  /\ try.next = "running" => ~try.waits
  /\ try.timer = "running" \/ try.next = "running" \/ try.late => 
       ping.phase \in {"running", "astray"}

\* Attempts that count, by the phase of the ping.
CountInv ==
  /\ ping.phase \in {"none", "resolving"} => ping.attempts = 0
  /\ ping.phase # "settled" => ping.settled = 0
  /\ ping.phase = "settled" => ping.settled = 1 /\ ping.attempts \in {0, Count}
  /\ ping.good + ping.failed = ping.attempts - (IF try.waits THEN 1 ELSE 0)

Attempts == [sock : {"none", "open", "closing"}, timer : {"none", "running", "closing"},
             next : {"none", "running", "closing"}, waits : BOOLEAN, late : BOOLEAN]
Phases == {"none", "resolving", "running", "settled", "astray"}
Pings == [icmp : BOOLEAN, phase : Phases, attempts : 0..Count, good : Nat, failed : Nat,
          settled : Nat]
PingInv ==
  /\ Net!TypeOK /\ try \in Attempts
  /\ AttemptInv /\ CountInv /\ Net!PingIsDriven /\ Net!WorkIsGivenBack

LEMMA PingBegins ==
  ASSUME NetworkAssumption, Net!Init
  PROVE  PingInv
BY DEF NetworkAssumption, Net!NetAssumption, Net!Init, PingInv, Net!TypeOK, Net!Idle, Attempts,
       AttemptInv, CountInv, Net!PingIsDriven, Net!WorkIsGivenBack, Net!Stranded

\* What the steps write in the record of the ping.
LEMMA PingSettled ==
  ASSUME NEW f \in Pings, NEW g, g = [f EXCEPT !.phase = "settled", !.settled = @ + 1]
  PROVE  /\ g \in Pings /\ g.phase = "settled" /\ g.settled = f.settled + 1
         /\ g.icmp = f.icmp /\ g.attempts = f.attempts /\ g.good = f.good /\ g.failed = f.failed
<1>1. PICK phase \in Phases : phase = "settled"
  BY DEF Phases
<1>2. PICK n \in Nat : n = f.settled + 1
  BY DEF Pings
<1>3. g = [f EXCEPT !.phase = phase, !.settled = n]
  BY <1>1, <1>2
<1> QED BY <1>1, <1>2, <1>3 DEF Pings

LEMMA PingCounts ==
  ASSUME NEW f \in Pings, NEW g, NEW m \in {0, 1}, NEW n \in {0, 1},
         g = [f EXCEPT !.good = @ + m, !.failed = @ + n]
  PROVE  /\ g \in Pings /\ g.good = f.good + m /\ g.failed = f.failed + n
         /\ g.icmp = f.icmp /\ g.settled = f.settled /\ g.phase = f.phase
         /\ g.attempts = f.attempts
<1>1. PICK i \in Nat : i = f.good + m
  BY DEF Pings
<1>2. PICK j \in Nat : j = f.failed + n
  BY DEF Pings
<1>3. g = [f EXCEPT !.good = i, !.failed = j]
  BY <1>1, <1>2
<1> QED BY <1>1, <1>2, <1>3 DEF Pings

LEMMA PingTyped ==
  ASSUME PingInv
  PROVE  /\ ping \in Pings /\ pending \in Int /\ turn \in {"run", "close"}
         /\ lookup \in {"none", "waiting", "settled", "refused"}
         /\ ping.attempts \in 0..Count /\ ping.good \in Nat /\ ping.failed \in Nat /\ ping.settled \in Nat
BY DEF PingInv, Net!TypeOK, Pings, Phases

LEMMA PingIsTyped ==
  ASSUME ping' \in Pings, try' \in Attempts, pending' \in Int, turn' \in {"run", "close"},
         lookup' \in {"none", "waiting", "settled", "refused"}
  PROVE  Net!TypeOK'
BY DEF Net!TypeOK, Pings, Phases, Attempts

LEMMA GoOnKeeps ==
  ASSUME NetworkAssumption, PingInv, ping.phase \in {"resolving", "running", "astray"},
         NEW at0 \in Attempts, Net!GoOn(ping, at0), UNCHANGED <<lookup, turn>>,
         at0.timer # "running", at0.next # "running", ~at0.waits, ~at0.late,
         ~ping.icmp => at0.sock # "open", ~try.waits
  PROVE  PingInv'
<1> USE DEF Attempts, PingInv, NetworkAssumption, Net!NetAssumption
<1>0. /\ ping \in Pings /\ pending \in Int /\ turn \in {"run", "close"}
      /\ lookup \in {"none", "waiting", "settled", "refused"}
      /\ ping.attempts \in 0..Count /\ ping.good \in Nat /\ ping.failed \in Nat
      /\ ping.settled \in Nat /\ Count \in Nat \ {0}
  BY PingTyped
<1>1. CASE ping.attempts >= Count
  <2>1. /\ ping' = [ping EXCEPT !.phase = "settled", !.settled = @ + 1]
        /\ pending' = pending - 1
        /\ try' = [at0 EXCEPT !.sock = IF ping.icmp THEN "closing" ELSE @]
    BY <1>1 DEF Net!GoOn, Net!Result
  <2>2. /\ ping' \in Pings /\ ping'.phase = "settled" /\ ping'.settled = ping.settled + 1
        /\ ping'.icmp = ping.icmp /\ ping'.attempts = ping.attempts /\ ping'.good = ping.good
        /\ ping'.failed = ping.failed
    BY <1>0, <2>1, PingSettled
  <2>3. /\ try' \in Attempts /\ try'.waits = at0.waits /\ try'.timer = at0.timer
        /\ try'.next = at0.next /\ try'.late = at0.late
        /\ try'.sock = IF ping.icmp THEN "closing" ELSE at0.sock
    BY <2>1
  <2>4. Net!TypeOK'
    BY <1>0, <2>1, <2>2, <2>3, PingIsTyped
  <2>5. AttemptInv'
    BY <2>2, <2>3 DEF AttemptInv
  <2>6. Net!PingIsDriven'
    BY <2>2 DEF Net!PingIsDriven
  <2>7. CountInv'
    BY <1>0, <1>1, <2>2, <2>3 DEF CountInv
  <2>8. Net!WorkIsGivenBack'
    BY <1>0, <2>1, <2>2 DEF Net!WorkIsGivenBack
  <2> QED BY <2>3, <2>4, <2>5, <2>6, <2>7, <2>8
<1>2. CASE ~(ping.attempts >= Count)
  <2>0. ping.attempts < Count
    BY <1>0, <1>2
  <2>1. PICK unsent \in {FALSE, ping.icmp} :
          /\ ping' = [ping EXCEPT !.phase = "running", !.attempts = @ + 1,
                                  !.failed = @ + (IF unsent THEN 1 ELSE 0)]
          /\ try' = IF unsent THEN [at0 EXCEPT !.sock = "open", !.next = "running"]
                    ELSE [at0 EXCEPT !.sock = "open", !.timer = "running", !.waits = TRUE]
          /\ UNCHANGED pending
    BY <1>2 DEF Net!GoOn, Net!Attempt
  <2>2. PICK n \in {0, 1} : n = IF unsent THEN 1 ELSE 0
    OBVIOUS
  <2>3. ping' = [ping EXCEPT !.phase = "running", !.attempts = @ + 1, !.failed = @ + n]
    BY <2>1, <2>2
  <2>4. /\ ping' \in Pings /\ ping'.phase = "running" /\ ping'.attempts = ping.attempts + 1
        /\ ping'.failed = ping.failed + n
        /\ ping'.icmp = ping.icmp /\ ping'.settled = ping.settled /\ ping'.good = ping.good
    <3>1. PICK phase \in Phases : phase = "running"
      BY DEF Phases
    <3>2. PICK k \in 0..Count : k = ping.attempts + 1
      BY <1>0, <2>0
    <3>3. PICK m \in Nat : m = ping.failed + n
      BY <1>0, <2>2
    <3>4. ping' = [ping EXCEPT !.phase = phase, !.attempts = k, !.failed = m]
      BY <2>3, <3>1, <3>2, <3>3
    <3> HIDE DEF PingInv, NetworkAssumption
    <3> QED BY <1>0, <3>1, <3>2, <3>3, <3>4 DEF Pings
  <2>7. /\ try' \in Attempts /\ try'.late = FALSE
        /\ \/ n = 1 /\ ping.icmp /\ try'.waits = FALSE /\ try'.timer = at0.timer
              /\ try'.next = "running"
           \/ n = 0 /\ try'.waits = TRUE /\ try'.timer = "running" /\ try'.next = at0.next
              /\ try'.sock = "open"
    <3>1. CASE unsent
      BY <2>1, <2>2, <3>1
    <3>2. CASE ~unsent
      BY <2>1, <2>2, <3>2
    <3> QED BY <3>1, <3>2
  <2>8. Net!TypeOK'
    BY <1>0, <2>1, <2>4, <2>7, PingIsTyped
  <2>9. AttemptInv' /\ Net!PingIsDriven'
    BY <2>4, <2>7 DEF AttemptInv, Net!PingIsDriven
  <2>10. CountInv'
    BY <1>0, <2>4, <2>7 DEF CountInv
  <2>11. Net!WorkIsGivenBack'
    BY <1>0, <2>1, <2>4 DEF Net!WorkIsGivenBack
  <2> QED BY <2>7, <2>8, <2>9, <2>10, <2>11
<1> QED BY <1>1, <1>2

LEMMA PingSteps ==
  ASSUME NetworkAssumption, PingInv, Net!Next
  PROVE  PingInv'
<1> USE DEF PingInv, Attempts
<1>1. CASE Net!Resolve
  <2> ping \in Pings /\ pending \in Int /\ turn \in {"run", "close"}
    BY DEF Net!TypeOK, Pings, Phases
  <2>5. ping' \in Pings
    BY <1>1 DEF Net!Resolve, Pings, Phases, CountInv
  <2>6. try' \in Attempts
    BY <1>1 DEF Net!Resolve, Pings
  <2>7. Net!TypeOK'
    BY <1>1, <2>5, <2>6 DEF Net!Resolve, Net!TypeOK, Pings, Phases
  <2>2. AttemptInv' /\ Net!PingIsDriven'
    BY <1>1 DEF Net!Resolve, Net!TypeOK, AttemptInv, Net!PingIsDriven, Net!Stranded
  <2>3. CountInv'
    BY <1>1 DEF Net!Resolve, Net!TypeOK, AttemptInv, CountInv
  <2>4. Net!WorkIsGivenBack'
    BY <1>1 DEF Net!Resolve, Net!TypeOK, AttemptInv, Net!WorkIsGivenBack
  <2> QED BY <2>2, <2>3, <2>4, <2>6, <2>7
<1>2. CASE Net!Refuse
  <2> ping \in Pings /\ pending \in Int /\ turn \in {"run", "close"}
    BY DEF Net!TypeOK, Pings, Phases
  <2>5. ping' \in Pings
    BY <1>2 DEF Net!Refuse, Pings, Phases, CountInv
  <2>6. try' \in Attempts
    BY <1>2 DEF Net!Refuse, Pings
  <2>7. Net!TypeOK'
    BY <1>2, <2>5, <2>6 DEF Net!Refuse, Net!TypeOK, Pings, Phases
  <2>2. AttemptInv' /\ Net!PingIsDriven'
    BY <1>2 DEF Net!Refuse, Net!TypeOK, AttemptInv, Net!PingIsDriven, Net!Stranded
  <2>3. CountInv'
    BY <1>2 DEF Net!Refuse, Net!TypeOK, AttemptInv, CountInv
  <2>4. Net!WorkIsGivenBack'
    BY <1>2 DEF Net!Refuse, Net!TypeOK, AttemptInv, Net!WorkIsGivenBack
  <2> QED BY <2>2, <2>3, <2>4, <2>6, <2>7
<1>3. CASE Net!Resolved
  <2> ping \in Pings /\ pending \in Int /\ turn \in {"run", "close"}
    BY DEF Net!TypeOK, Pings, Phases
  <2>5. ping' \in Pings
    BY <1>3 DEF Net!Resolved, Pings, Phases, CountInv
  <2>6. try' \in Attempts
    BY <1>3 DEF Net!Resolved, Pings
  <2>7. Net!TypeOK'
    BY <1>3, <2>5, <2>6 DEF Net!Resolved, Net!TypeOK, Pings, Phases
  <2>2. AttemptInv' /\ Net!PingIsDriven'
    BY <1>3 DEF Net!Resolved, Net!TypeOK, AttemptInv, Net!PingIsDriven, Net!Stranded
  <2>3. CountInv'
    BY <1>3 DEF Net!Resolved, Net!TypeOK, AttemptInv, CountInv
  <2>4. Net!WorkIsGivenBack'
    BY <1>3 DEF Net!Resolved, Net!TypeOK, AttemptInv, Net!WorkIsGivenBack
  <2> QED BY <2>2, <2>3, <2>4, <2>6, <2>7
<1>4. CASE Net!Ping
  <2> ping \in Pings /\ pending \in Int /\ turn \in {"run", "close"}
    BY DEF Net!TypeOK, Pings, Phases
  <2>5. ping' \in Pings
    BY <1>4 DEF Net!Ping, Pings, Phases, CountInv
  <2>6. try' \in Attempts
    BY <1>4 DEF Net!Ping, Pings
  <2>7. Net!TypeOK'
    BY <1>4, <2>5, <2>6 DEF Net!Ping, Net!TypeOK, Pings, Phases
  <2>2. AttemptInv' /\ Net!PingIsDriven'
    BY <1>4 DEF Net!Ping, Net!TypeOK, AttemptInv, Net!PingIsDriven, Net!Stranded
  <2>3. CountInv'
    BY <1>4 DEF Net!Ping, Net!TypeOK, AttemptInv, CountInv
  <2>4. Net!WorkIsGivenBack'
    BY <1>4 DEF Net!Ping, Net!TypeOK, AttemptInv, Net!WorkIsGivenBack
  <2> QED BY <2>2, <2>3, <2>4, <2>6, <2>7
<1>5. CASE Net!PingUnresolved
  <2> ping \in Pings /\ pending \in Int /\ turn \in {"run", "close"}
    BY DEF Net!TypeOK, Pings, Phases
  <2>5. ping' \in Pings
    BY <1>5, PingSettled DEF Net!PingUnresolved
  <2>6. try' \in Attempts
    BY <1>5 DEF Net!PingUnresolved, Pings
  <2>7. Net!TypeOK'
    BY <1>5, <2>5, <2>6 DEF Net!PingUnresolved, Net!TypeOK, Pings, Phases
  <2>2. AttemptInv' /\ Net!PingIsDriven'
    BY <1>5 DEF Net!PingUnresolved, Net!TypeOK, AttemptInv, Net!PingIsDriven, Net!Stranded
  <2>3. CountInv'
    BY <1>5 DEF Net!PingUnresolved, Net!TypeOK, AttemptInv, CountInv
  <2>4. Net!WorkIsGivenBack'
    BY <1>5 DEF Net!PingUnresolved, Net!TypeOK, AttemptInv, Net!WorkIsGivenBack
  <2> QED BY <2>2, <2>3, <2>4, <2>6, <2>7
<1>6. CASE Net!PingResolved
  <2>1. Net!Idle \in Attempts /\ Net!Idle.timer # "running" /\ Net!Idle.next # "running"
        /\ ~Net!Idle.waits /\ ~Net!Idle.late /\ Net!Idle.sock # "open"
    BY DEF Net!Idle
  <2>2. Net!GoOn(ping, Net!Idle) /\ UNCHANGED <<lookup, turn>> /\ ping.phase = "resolving"
    BY <1>6 DEF Net!PingResolved
  <2>3. ~try.waits
    BY <2>2 DEF AttemptInv
  <2> QED BY <2>1, <2>2, <2>3, GoOnKeeps
<1>7. CASE Net!NextAttempt
  <2> DEFINE again == [try EXCEPT !.next = "closing"]
  <2>1. Net!GoOn(ping, again) /\ UNCHANGED <<lookup, turn>> /\ try.next = "running" /\ ~try.late
    BY <1>7 DEF Net!NextAttempt
  <2>2. /\ again \in Attempts /\ again.next # "running" /\ again.timer = try.timer
        /\ again.waits = try.waits /\ again.late = try.late /\ again.sock = try.sock
    OBVIOUS
  <2>3. ping.phase \in {"running", "astray"} /\ ~try.waits /\ try.timer # "running"
        /\ (~ping.icmp => try.sock # "open")
    BY <2>1 DEF AttemptInv
  <2> HIDE DEF again
  <2> QED BY <2>1, <2>2, <2>3, GoOnKeeps
<1>8. CASE Net!TcpAnswer
  <2> ping \in Pings /\ pending \in Int /\ turn \in {"run", "close"}
    BY DEF Net!TypeOK, Pings, Phases
  <2>5. ping' \in Pings
    <3>1. PICK ok \in BOOLEAN : ping' = [ping EXCEPT !.good = @ + (IF ok THEN 1 ELSE 0),
                                                    !.failed = @ + (IF ok THEN 0 ELSE 1)]
      BY <1>8 DEF Net!TcpAnswer
    <3>2. PICK m \in {0, 1} : m = IF ok THEN 1 ELSE 0
      OBVIOUS
    <3>3. PICK n \in {0, 1} : n = IF ok THEN 0 ELSE 1
      OBVIOUS
    <3> QED BY <3>1, <3>2, <3>3, PingCounts
  <2>6. try' \in Attempts
    BY <1>8 DEF Net!TcpAnswer, Net!Over, Pings
  <2>7. Net!TypeOK'
    BY <1>8, <2>5, <2>6 DEF Net!TcpAnswer, Net!Over, Net!TypeOK, Pings, Phases
  <2>2. AttemptInv' /\ Net!PingIsDriven'
    BY <1>8 DEF Net!TcpAnswer, Net!Over, Net!TypeOK, AttemptInv, Net!PingIsDriven, Net!Stranded
  <2>3. CountInv'
    BY <1>8 DEF Net!TcpAnswer, Net!Over, Net!TypeOK, AttemptInv, CountInv
  <2>4. Net!WorkIsGivenBack'
    BY <1>8 DEF Net!TcpAnswer, Net!Over, Net!TypeOK, AttemptInv, Net!WorkIsGivenBack
  <2> QED BY <2>2, <2>3, <2>4, <2>6, <2>7
<1>9. CASE Net!TcpTimeout
  <2> ping \in Pings /\ pending \in Int /\ turn \in {"run", "close"}
    BY DEF Net!TypeOK, Pings, Phases
  <2>5. ping' \in Pings
    BY <1>9 DEF Net!TcpTimeout, Net!Over, Pings, Phases, CountInv
  <2>6. try' \in Attempts
    BY <1>9 DEF Net!TcpTimeout, Net!Over, Pings
  <2>7. Net!TypeOK'
    BY <1>9, <2>5, <2>6 DEF Net!TcpTimeout, Net!Over, Net!TypeOK, Pings, Phases
  <2>2. AttemptInv' /\ Net!PingIsDriven'
    BY <1>9 DEF Net!TcpTimeout, Net!Over, Net!TypeOK, AttemptInv, Net!PingIsDriven, Net!Stranded
  <2>3. CountInv'
    BY <1>9 DEF Net!TcpTimeout, Net!Over, Net!TypeOK, AttemptInv, CountInv
  <2>4. Net!WorkIsGivenBack'
    BY <1>9 DEF Net!TcpTimeout, Net!Over, Net!TypeOK, AttemptInv, Net!WorkIsGivenBack
  <2> QED BY <2>2, <2>3, <2>4, <2>6, <2>7
<1>10. CASE Net!IcmpReply
  <2> ping \in Pings /\ pending \in Int /\ turn \in {"run", "close"}
    BY DEF Net!TypeOK, Pings, Phases
  <2>5. ping' \in Pings
    BY <1>10 DEF Net!IcmpReply, Pings, Phases, CountInv
  <2>6. try' \in Attempts
    BY <1>10 DEF Net!IcmpReply, Pings
  <2>7. Net!TypeOK'
    BY <1>10, <2>5, <2>6 DEF Net!IcmpReply, Net!TypeOK, Pings, Phases
  <2>2. AttemptInv' /\ Net!PingIsDriven'
    BY <1>10 DEF Net!IcmpReply, Net!TypeOK, AttemptInv, Net!PingIsDriven, Net!Stranded
  <2>3. CountInv'
    BY <1>10 DEF Net!IcmpReply, Net!TypeOK, AttemptInv, CountInv
  <2>4. Net!WorkIsGivenBack'
    BY <1>10 DEF Net!IcmpReply, Net!TypeOK, AttemptInv, Net!WorkIsGivenBack
  <2> QED BY <2>2, <2>3, <2>4, <2>6, <2>7
<1>11. CASE Net!IcmpTimeout
  <2> ping \in Pings /\ pending \in Int /\ turn \in {"run", "close"}
    BY DEF Net!TypeOK, Pings, Phases
  <2>5. ping' \in Pings
    BY <1>11 DEF Net!IcmpTimeout, Pings, Phases, CountInv
  <2>6. try' \in Attempts
    BY <1>11 DEF Net!IcmpTimeout, Pings
  <2>7. Net!TypeOK'
    BY <1>11, <2>5, <2>6 DEF Net!IcmpTimeout, Net!TypeOK, Pings, Phases
  <2>2. AttemptInv' /\ Net!PingIsDriven'
    BY <1>11 DEF Net!IcmpTimeout, Net!TypeOK, AttemptInv, Net!PingIsDriven, Net!Stranded
  <2>3. CountInv'
    BY <1>11 DEF Net!IcmpTimeout, Net!TypeOK, AttemptInv, CountInv
  <2>4. Net!WorkIsGivenBack'
    BY <1>11 DEF Net!IcmpTimeout, Net!TypeOK, AttemptInv, Net!WorkIsGivenBack
  <2> QED BY <2>2, <2>3, <2>4, <2>6, <2>7
<1>12. CASE Net!CloseHandles
  <2> ping \in Pings /\ pending \in Int /\ turn \in {"run", "close"}
    BY DEF Net!TypeOK, Pings, Phases
  <2>5. ping' \in Pings
    BY <1>12 DEF Net!CloseHandles, Pings, Phases, CountInv
  <2>6. try' \in Attempts
    BY <1>12 DEF Net!CloseHandles, Pings
  <2>7. Net!TypeOK'
    BY <1>12, <2>5, <2>6 DEF Net!CloseHandles, Net!TypeOK, Pings, Phases
  <2>2. AttemptInv' /\ Net!PingIsDriven'
    BY <1>12 DEF Net!CloseHandles, Net!TypeOK, AttemptInv, Net!PingIsDriven, Net!Stranded
  <2>3. CountInv'
    BY <1>12 DEF Net!CloseHandles, Net!TypeOK, AttemptInv, CountInv
  <2>4. Net!WorkIsGivenBack'
    BY <1>12 DEF Net!CloseHandles, Net!TypeOK, AttemptInv, Net!WorkIsGivenBack
  <2> QED BY <2>2, <2>3, <2>4, <2>6, <2>7
<1>13. CASE Net!HandlesClosed
  <2> ping \in Pings /\ pending \in Int /\ turn \in {"run", "close"}
    BY DEF Net!TypeOK, Pings, Phases
  <2>5. ping' \in Pings
    BY <1>13 DEF Net!HandlesClosed, Pings, Phases, CountInv
  <2>6. try' \in Attempts
    BY <1>13 DEF Net!HandlesClosed, Pings
  <2>7. Net!TypeOK'
    BY <1>13, <2>5, <2>6 DEF Net!HandlesClosed, Net!TypeOK, Pings, Phases
  <2>2. AttemptInv' /\ Net!PingIsDriven'
    BY <1>13 DEF Net!HandlesClosed, Net!TypeOK, AttemptInv, Net!PingIsDriven, Net!Stranded
  <2>3. CountInv'
    BY <1>13 DEF Net!HandlesClosed, Net!TypeOK, AttemptInv, CountInv
  <2>4. Net!WorkIsGivenBack'
    BY <1>13 DEF Net!HandlesClosed, Net!TypeOK, AttemptInv, Net!WorkIsGivenBack
  <2> QED BY <2>2, <2>3, <2>4, <2>6, <2>7
<1> QED
  BY <1>1, <1>2, <1>3, <1>4, <1>5, <1>6, <1>7, <1>8, <1>9, <1>10, <1>11, <1>12, <1>13
  DEF Net!Next, Net!Driven, Net!UvRuns

-----------------------------------------------------------------------------
\* Sockets over UDP.

UdpJobs == {"init", "receive", "bind", "send", "close", "message", "sent", "closed"}
Tasked == [do : UdpJobs, c : 0..Messages]
Histories == [arrived : 0..Messages, heard : Seq(Nat), sends : Nat, answers : Nat,
              calls : 0..UdpCalls, bad : BOOLEAN]
Instances == [made : BOOLEAN, ptr : BOOLEAN, closed : BOOLEAN, counted : BOOLEAN, freed : BOOLEAN]
UdpTyped ==
  /\ inst \in Instances
  /\ hnd \in {"none", "open", "receiving", "closing", "gone"}
  /\ jobs \in Seq(Tasked)
  /\ place \in {"script", "tasks", "poll", "closing", "returned"}
  /\ held \subseteq {"script", "registry"} /\ req \in [names : Nat, sends : Nat]
  /\ uh \in Histories

Due(what) == \E i \in DOMAIN jobs : jobs[i].do = what

\* What is still to be done for the handle, and who owns its instance until then.
UdpInv ==
  /\ ~inst.made => jobs = <<>> /\ ~inst.closed /\ ~inst.ptr /\ hnd = "none" /\ ~inst.freed
                   /\ req.names = 0 /\ req.sends = 0
  /\ \A i \in DOMAIN jobs : jobs[i].do = "init" => i = 1
  /\ Due("init") => hnd = "none" /\ ~inst.ptr
  /\ inst.ptr => hnd \in {"open", "receiving"}
  /\ hnd \in {"open", "receiving"} => inst.ptr
  /\ hnd \in {"closing", "gone"} => inst.closed
  /\ \A i \in DOMAIN jobs : jobs[i].do = "close" =>
       /\ inst.closed /\ hnd \notin {"closing", "gone"} /\ req.names = 0
       /\ \A j \in DOMAIN jobs : j < i => jobs[j].do # "bind"
       /\ \A j \in DOMAIN jobs : jobs[j].do = "close" => j = i
  /\ req.names > 0 => inst.ptr
  /\ hnd \in {"open", "receiving"} \/ Due("init") =>
       IF inst.closed THEN "script" \in held ELSE "registry" \in held
  /\ hnd = "closing" => "script" \in held
  /\ inst.freed => held = {}
  /\ ~uh.bad

LEMMA SettleFacts ==
  ASSUME NEW rec \in Instances, NEW owners, NEW q, NEW s, s = Udp!Settle(rec, owners, q)
  PROVE  /\ s \in Instances /\ s.made = rec.made /\ s.ptr = rec.ptr /\ s.closed = rec.closed
         /\ s.freed => rec.freed \/ owners = {}
<1>1. CASE s = [rec EXCEPT !.freed = TRUE, !.counted = FALSE] /\ owners = {}
  BY <1>1 DEF Instances
<1>2. CASE s = rec
  BY <1>2
<1> QED BY <1>1, <1>2 DEF Udp!Settle

\* A job that is done leaves what is said of the others.
LEMMA JobsShorter ==
  ASSUME UdpTyped, UdpInv, jobs # <<>>, NEW r, r = Tail(jobs)
  PROVE  /\ r \in Seq(Tasked) /\ Shorter(jobs, r)
         /\ 1 \in DOMAIN jobs /\ Head(jobs) = jobs[1] /\ jobs[1] \in Tasked
         /\ \A i \in DOMAIN r : r[i].do # "init"
         /\ inst.made
         /\ \A i \in DOMAIN r : r[i].do = "close" =>
              /\ inst.closed /\ hnd \notin {"closing", "gone"} /\ req.names = 0
              /\ jobs[1].do \notin {"bind", "close"}
              /\ \A j \in DOMAIN r : j < i => r[j].do # "bind"
              /\ \A j \in DOMAIN r : r[j].do = "close" => j = i
<1>1. /\ r \in Seq(Tasked) /\ Shorter(jobs, r)
      /\ 1 \in DOMAIN jobs /\ Head(jobs) = jobs[1] /\ jobs[1] \in Tasked
  BY TailIsShorter DEF UdpTyped
<1>2. \A i \in DOMAIN r : i \in Nat /\ i > 0 /\ i + 1 \in DOMAIN jobs /\ r[i] = jobs[i + 1]
  BY <1>1 DEF Shorter
<1>3. \A i \in DOMAIN r : r[i].do # "init"
  BY <1>2 DEF UdpInv
<1>4. inst.made
  BY DEF UdpInv
<1>5. ASSUME NEW i \in DOMAIN r, r[i].do = "close"
      PROVE  /\ inst.closed /\ hnd \notin {"closing", "gone"} /\ req.names = 0
             /\ jobs[1].do \notin {"bind", "close"}
             /\ \A j \in DOMAIN r : j < i => r[j].do # "bind"
             /\ \A j \in DOMAIN r : r[j].do = "close" => j = i
  <2>1. i + 1 \in DOMAIN jobs /\ jobs[i + 1].do = "close" /\ i \in Nat /\ i > 0
    BY <1>2, <1>5
  <2>2. /\ inst.closed /\ hnd \notin {"closing", "gone"} /\ req.names = 0
        /\ \A j \in DOMAIN jobs : j < i + 1 => jobs[j].do # "bind"
        /\ \A j \in DOMAIN jobs : jobs[j].do = "close" => j = i + 1
    BY <2>1 DEF UdpInv
  <2>3. jobs[1].do \notin {"bind", "close"}
    BY <1>1, <2>1, <2>2
  <2>4. \A j \in DOMAIN r : j < i => r[j].do # "bind"
    BY <1>2, <2>1, <2>2
  <2>5. \A j \in DOMAIN r : r[j].do = "close" => j = i
    BY <1>2, <2>1, <2>2
  <2> QED BY <2>2, <2>3, <2>4, <2>5
<1> QED BY <1>1, <1>3, <1>4, <1>5

\* So does one that is queued behind them, unless it is a close or an init.
LEMMA JobsLonger ==
  ASSUME UdpTyped, UdpInv, NEW m \in Seq(Tasked), jobs' = jobs \o m, inst.made,
         \A i \in DOMAIN m : m[i].do \notin {"init", "close"}
  PROVE  /\ jobs' \in Seq(Tasked) /\ Longer(jobs, m, jobs')
         /\ \A i \in DOMAIN jobs' : jobs'[i].do = "init" => i = 1
         /\ Due("init")' => Due("init")
         /\ \A i \in DOMAIN jobs' : jobs'[i].do = "close" =>
              /\ inst.closed /\ hnd \notin {"closing", "gone"} /\ req.names = 0
              /\ \A j \in DOMAIN jobs' : j < i => jobs'[j].do # "bind"
              /\ \A j \in DOMAIN jobs' : jobs'[j].do = "close" => j = i
<1>1. jobs' \in Seq(Tasked) /\ Longer(jobs, m, jobs')
  BY JoinIsLonger DEF UdpTyped
<1>2. \A i \in DOMAIN jobs' : i \in Nat /\ (jobs'[i].do \in {"init", "close"} =>
        i \in DOMAIN jobs /\ jobs'[i] = jobs[i])
  BY <1>1 DEF Longer
<1>3. \A i \in DOMAIN jobs' : \A j \in DOMAIN jobs' :
        i \in DOMAIN jobs /\ j < i => j \in DOMAIN jobs /\ jobs'[j] = jobs[j]
  BY <1>1 DEF Longer, UdpTyped
<1>4. /\ \A i \in DOMAIN jobs' : jobs'[i].do = "init" => i = 1
      /\ Due("init")' => Due("init")
  BY <1>2 DEF UdpInv, Due
<1>5. ASSUME NEW i \in DOMAIN jobs', jobs'[i].do = "close"
      PROVE  /\ inst.closed /\ hnd \notin {"closing", "gone"} /\ req.names = 0
             /\ \A j \in DOMAIN jobs' : j < i => jobs'[j].do # "bind"
             /\ \A j \in DOMAIN jobs' : jobs'[j].do = "close" => j = i
  <2>1. i \in DOMAIN jobs /\ jobs[i].do = "close"
    BY <1>2, <1>5
  <2>2. /\ inst.closed /\ hnd \notin {"closing", "gone"} /\ req.names = 0
        /\ \A j \in DOMAIN jobs : j < i => jobs[j].do # "bind"
        /\ \A j \in DOMAIN jobs : jobs[j].do = "close" => j = i
    BY <2>1 DEF UdpInv
  <2> QED BY <1>2, <1>3, <2>1, <2>2
<1> QED BY <1>1, <1>4, <1>5

LEMMA UdpBegins ==
  ASSUME NetworkAssumption, Udp!Init
  PROVE  UdpTyped /\ UdpInv
BY DEF NetworkAssumption, Udp!UdpAssumption, Udp!Init, UdpTyped, UdpInv, Instances, Histories, Due

LEMMA HistorySteps ==
  ASSUME NetworkAssumption, UdpTyped
  PROVE  /\ uh.calls < UdpCalls =>
              /\ Udp!UCounted(uh) \in Histories
              /\ [Udp!UCounted(uh) EXCEPT !.sends = @ + 1] \in Histories
         /\ \A f \in {Udp!UCounted(uh), [Udp!UCounted(uh) EXCEPT !.sends = @ + 1]} :
              f.bad = uh.bad /\ f.arrived = uh.arrived /\ f.heard = uh.heard
         /\ LET f == [uh EXCEPT !.answers = @ + 1] IN
              f \in Histories /\ f.bad = uh.bad /\ f.arrived = uh.arrived /\ f.heard = uh.heard
         /\ uh.arrived < Messages => LET f == [uh EXCEPT !.arrived = @ + 1] IN
              f \in Histories /\ f.bad = uh.bad /\ f.arrived = uh.arrived + 1 /\ f.heard = uh.heard
<1>1. PICK a \in Nat : a = uh.answers + 1
  BY DEF UdpTyped, Histories
<1>2. PICK s \in Nat : s = uh.sends + 1
  BY DEF UdpTyped, Histories
<1>3. uh.calls < UdpCalls => uh.calls + 1 \in 0..UdpCalls
  BY DEF UdpTyped, Histories, NetworkAssumption, Udp!UdpAssumption
<1>4. uh.arrived < Messages => uh.arrived + 1 \in 0..Messages
  BY DEF UdpTyped, Histories, NetworkAssumption, Udp!UdpAssumption
<1>5. uh \in Histories
  BY DEF UdpTyped
<1>6. uh.calls < UdpCalls =>
        /\ Udp!UCounted(uh) \in Histories /\ [Udp!UCounted(uh) EXCEPT !.sends = s] \in Histories
  BY <1>3, <1>5 DEF Histories, Udp!UCounted
<1>7. Udp!UCounted(uh).sends = uh.sends
  BY <1>5 DEF Histories, Udp!UCounted
<1>8. \A f \in {Udp!UCounted(uh), [Udp!UCounted(uh) EXCEPT !.sends = @ + 1]} :
              f.bad = uh.bad /\ f.arrived = uh.arrived /\ f.heard = uh.heard
  BY <1>5 DEF Histories, Udp!UCounted
<1>9. LET f == [uh EXCEPT !.answers = a] IN
        f \in Histories /\ f.bad = uh.bad /\ f.arrived = uh.arrived /\ f.heard = uh.heard
  BY <1>5 DEF Histories
<1>10. uh.arrived < Messages => LET f == [uh EXCEPT !.arrived = @ + 1] IN
        f \in Histories /\ f.bad = uh.bad /\ f.arrived = uh.arrived + 1 /\ f.heard = uh.heard
  BY <1>4, <1>5 DEF Histories
<1> QED BY <1>1, <1>2, <1>6, <1>7, <1>8, <1>9, <1>10

LEMMA OneWork ==
  ASSUME NetworkAssumption, NEW what \in UdpJobs
  PROVE  LET m == <<Udp!Work(what)>> IN
         m \in Seq(Tasked) /\ DOMAIN m = {1} /\ Len(m) = 1 /\ m[1].do = what /\ m[1].c = 0
BY DEF NetworkAssumption, Udp!UdpAssumption, Udp!Work, Tasked

LEMMA OneMessage ==
  ASSUME NetworkAssumption, NEW n \in 0..Messages
  PROVE  LET m == <<[do |-> "message", c |-> n]>> IN
         m \in Seq(Tasked) /\ DOMAIN m = {1} /\ Len(m) = 1 /\ m[1].do = "message" /\ m[1].c = n
BY DEF Tasked, UdpJobs

\* What the script and uv add to the queue changes nothing else.
LEMMA UdpAdds ==
  ASSUME NetworkAssumption, UdpTyped, UdpInv, inst.made, NEW m \in Seq(Tasked), jobs' = jobs \o m,
         \A i \in DOMAIN m : m[i].do \notin {"init", "close"},
         inst' \in Instances, inst'.made = inst.made, inst'.closed = inst.closed,
         inst'.ptr = inst.ptr, inst'.freed = inst.freed,
         hnd' = hnd \/ (hnd = "closing" /\ hnd' = "gone"), UNCHANGED held,
         req' \in [names : Nat, sends : Nat], req'.names = req.names,
         uh' \in Histories, uh'.bad = uh.bad,
         place' \in {"script", "tasks", "poll", "closing", "returned"}
  PROVE  UdpTyped' /\ UdpInv'
<1>1. UdpTyped'
  BY JobsLonger DEF UdpTyped
<1>2. \A i \in DOMAIN jobs' : jobs'[i].do = "close" =>
        /\ inst'.closed /\ hnd' \notin {"closing", "gone"} /\ req'.names = 0
        /\ \A j \in DOMAIN jobs' : j < i => jobs'[j].do # "bind"
        /\ \A j \in DOMAIN jobs' : jobs'[j].do = "close" => j = i
  BY JobsLonger
<1>3. /\ \A i \in DOMAIN jobs' : jobs'[i].do = "init" => i = 1
      /\ Due("init")' => Due("init") /\ hnd = "none"
  BY JobsLonger DEF UdpInv
<1>4. hnd' \in {"open", "receiving"} \/ Due("init")' =>
        IF inst'.closed THEN "script" \in held' ELSE "registry" \in held'
  BY <1>3 DEF UdpInv
<1>5. hnd' = "closing" => "script" \in held'
  BY DEF UdpInv
<1>6. UdpInv'
  BY <1>2, <1>3, <1>4, <1>5 DEF UdpInv
<1> QED BY <1>1, <1>6

LEMMA ScriptAdds ==
  ASSUME NetworkAssumption, UdpTyped, UdpInv, Udp!OnMessage \/ Udp!Bind \/ Udp!Send
  PROVE  UdpTyped' /\ UdpInv'
<1>1. PICK what \in {"receive", "bind", "send", "sent"} : jobs' = jobs \o <<Udp!Work(what)>>
  BY DEF Udp!OnMessage, Udp!Bind, Udp!Send, Udp!Also
<1>2. what \in UdpJobs /\ what \notin {"init", "close"}
  BY DEF UdpJobs
<1> DEFINE m == <<Udp!Work(what)>>
<1>3. m \in Seq(Tasked) /\ \A i \in DOMAIN m : m[i].do \notin {"init", "close"}
  BY <1>2, OneWork
<1>4. /\ uh.calls < UdpCalls /\ inst.made /\ UNCHANGED <<inst, hnd, place, held, req>>
      /\ uh' \in {Udp!UCounted(uh), [Udp!UCounted(uh) EXCEPT !.sends = @ + 1]}
  BY DEF Udp!OnMessage, Udp!Bind, Udp!Send, Udp!UCall, Udp!Exists
<1>5. uh' \in Histories /\ uh'.bad = uh.bad
  BY <1>4, HistorySteps
<1>6. place' \in {"script", "tasks", "poll", "closing", "returned"}
  BY <1>4 DEF UdpTyped
<1>7. jobs' = jobs \o m
  BY <1>1
<1>8. inst \in Instances /\ req \in [names : Nat, sends : Nat]
  BY DEF UdpTyped
<1> HIDE DEF m
<1> QED BY <1>3, <1>4, <1>5, <1>6, <1>7, <1>8, UdpAdds

LEMMA CreateKeeps ==
  ASSUME NetworkAssumption, UdpTyped, UdpInv, Udp!Create
  PROVE  UdpTyped' /\ UdpInv'
<1>1. /\ ~inst.made /\ uh.calls < UdpCalls /\ uh' = Udp!UCounted(uh)
      /\ inst' = [inst EXCEPT !.made = TRUE, !.counted = TRUE]
      /\ held' = {"script", "registry"} /\ UNCHANGED <<hnd, place, req>>
      /\ \E heeded \in BOOLEAN : jobs' = jobs \o (<<Udp!Work("init")>> \o
           IF heeded THEN <<Udp!Work("receive")>> ELSE <<>>)
  BY DEF Udp!Create, Udp!UCall, Udp!Also
<1>2. jobs = <<>> /\ ~inst.closed /\ ~inst.ptr /\ hnd = "none" /\ ~inst.freed /\ req.names = 0
  BY <1>1 DEF UdpInv
<1>3. inst' \in Instances /\ inst'.made /\ ~inst'.ptr /\ ~inst'.closed /\ ~inst'.freed
  BY <1>1, <1>2 DEF UdpTyped, Instances
<1>4. PICK heeded \in BOOLEAN : jobs' = jobs \o (<<Udp!Work("init")>> \o
           IF heeded THEN <<Udp!Work("receive")>> ELSE <<>>)
  BY <1>1
<1> DEFINE m == <<Udp!Work("init")>>
           n == IF heeded THEN <<Udp!Work("receive")>> ELSE <<>>
<1>5. m \in Seq(Tasked) /\ DOMAIN m = {1} /\ Len(m) = 1 /\ m[1].do = "init"
  BY OneWork DEF UdpJobs
<1>6. n \in Seq(Tasked) /\ \A i \in DOMAIN n : n[i].do = "receive"
  <2>1. CASE heeded
    BY <2>1, OneWork DEF UdpJobs
  <2>2. CASE ~heeded
    BY <2>2
  <2> QED BY <2>1, <2>2
<1> HIDE DEF m, n
<1>10. m \o n \in Seq(Tasked) /\ Longer(m, n, m \o n)
  BY <1>5, <1>6, JoinIsLonger
<1> DEFINE l == m \o n
<1>11. jobs' = jobs \o l
  BY <1>4 DEF m, n
<1>12. \A i \in DOMAIN l : (l[i].do = "init" /\ i = 1) \/ l[i].do = "receive"
  BY <1>5, <1>6, <1>10 DEF Longer
<1>13. l \in Seq(Tasked)
  BY <1>10
<1> HIDE DEF l
<1>14. jobs' \in Seq(Tasked) /\ Longer(jobs, l, jobs') /\ DOMAIN jobs = {} /\ Len(jobs) = 0
  <2>1. jobs \in Seq(Tasked)
    BY DEF UdpTyped
  <2>2. DOMAIN jobs = {} /\ Len(jobs) = 0
    BY <1>2
  <2> QED BY <1>11, <1>13, <2>1, <2>2, JoinIsLonger
<1>15. \A i \in DOMAIN jobs' : (jobs'[i].do = "init" /\ i = 1) \/ jobs'[i].do = "receive"
  BY <1>12, <1>13, <1>14 DEF Longer
<1>7. uh' \in Histories /\ uh'.bad = uh.bad
  BY <1>1, HistorySteps
<1>8. UdpTyped'
  BY <1>1, <1>3, <1>7, <1>14 DEF UdpTyped
<1>9. UdpInv'
  BY <1>1, <1>2, <1>3, <1>7, <1>15 DEF UdpInv, Due
<1> QED BY <1>8, <1>9

LEMMA CloseKeeps ==
  ASSUME NetworkAssumption, UdpCareless = {}, UdpTyped, UdpInv, Udp!CloseUdp
  PROVE  UdpTyped' /\ UdpInv'
<1>1. /\ inst.made /\ "script" \in held /\ uh.calls < UdpCalls /\ uh' = Udp!UCounted(uh)
      /\ UNCHANGED <<hnd, place, req>>
      /\ req.names = 0 /\ \A i \in DOMAIN jobs : jobs[i].do # "bind"
  BY DEF Udp!CloseUdp, Udp!UCall, Udp!Exists
<1>2. uh' \in Histories /\ uh'.bad = uh.bad
  BY <1>1, HistorySteps
<1>3. CASE inst.closed
  <2>1. UNCHANGED <<inst, jobs, held>>
    BY <1>3 DEF Udp!CloseUdp
  <2>2. UdpTyped'
    BY <1>1, <1>2, <2>1 DEF UdpTyped
  <2>3. UdpInv'
    BY <1>1, <1>2, <2>1 DEF UdpInv, Due
  <2> QED BY <2>2, <2>3
<1>4. CASE ~inst.closed
  <2> DEFINE m == <<Udp!Work("close")>>
  <2>1. /\ inst' = [inst EXCEPT !.closed = TRUE] /\ jobs' = jobs \o m
        /\ held' = held \ {"registry"}
    BY <1>4 DEF Udp!CloseUdp, Udp!Also
  <2>2. m \in Seq(Tasked) /\ DOMAIN m = {1} /\ Len(m) = 1 /\ m[1].do = "close"
    BY OneWork DEF UdpJobs
  <2> HIDE DEF m
  <2>3. jobs' \in Seq(Tasked) /\ Longer(jobs, m, jobs')
    BY <2>1, <2>2, JoinIsLonger DEF UdpTyped
  <2>4. /\ inst' \in Instances /\ inst'.made /\ inst'.closed /\ inst'.ptr = inst.ptr
        /\ inst'.freed = inst.freed
    BY <1>1, <2>1 DEF UdpTyped, Instances
  <2>5. \A i \in DOMAIN jobs' :
          \/ i \in DOMAIN jobs /\ jobs'[i] = jobs[i] /\ jobs'[i].do \notin {"bind", "close"}
          \/ i = Len(jobs) + 1 /\ jobs'[i].do = "close"
    BY <1>1, <1>4, <2>2, <2>3 DEF Longer, UdpInv
  <2>6. \A i \in DOMAIN jobs' : jobs'[i].do # "bind"
    BY <2>5
  <2>7. \A i, j \in DOMAIN jobs' : jobs'[i].do = "close" /\ jobs'[j].do = "close" => j = i
    BY <2>5
  <2>8. hnd \notin {"closing", "gone"} /\ ~inst.freed
    BY <1>1, <1>4 DEF UdpInv
  <2>9. UdpTyped'
    BY <1>1, <1>2, <2>1, <2>3, <2>4 DEF UdpTyped
  <2>10. (\A i \in DOMAIN jobs' : jobs'[i].do = "init" => i = 1) /\ (Due("init")' => Due("init"))
    BY <2>5 DEF UdpInv, Due
  <2>11. UdpInv'
    BY <1>1, <1>2, <2>1, <2>4, <2>6, <2>7, <2>8, <2>10 DEF UdpInv
  <2> QED BY <2>9, <2>11
<1> QED BY <1>3, <1>4

LEMMA DropKeeps ==
  ASSUME NetworkAssumption, UdpCareless = {}, UdpTyped, UdpInv, Udp!Drop
  PROVE  UdpTyped' /\ UdpInv'
<1>1. /\ inst.made /\ "script" \in held /\ uh.calls < UdpCalls /\ uh' = Udp!UCounted(uh)
      /\ ~inst.closed \/ hnd = "gone"
      /\ UNCHANGED <<hnd, jobs, place, req>> /\ held' = held \ {"script"}
      /\ inst' = Udp!Settle(inst, held \ {"script"}, jobs)
  BY DEF Udp!Drop, Udp!UCall, Udp!Exists
<1>2. uh' \in Histories /\ uh'.bad = uh.bad
  BY <1>1, HistorySteps
<1>3. /\ inst' \in Instances /\ inst'.made /\ inst'.closed = inst.closed /\ inst'.ptr = inst.ptr
      /\ inst'.freed => inst.freed \/ held' = {}
  BY <1>1, SettleFacts DEF UdpTyped
<1>4. UdpTyped'
  BY <1>1, <1>2, <1>3 DEF UdpTyped
<1>5. hnd = "gone" => ~Due("init")
  BY DEF UdpInv
<1>6. UdpInv'
  BY <1>1, <1>2, <1>3, <1>5 DEF UdpInv, Due
<1> QED BY <1>4, <1>6

\* A task is taken: what it does to the instance and the handle is left to say.
LEMMA TaskKeeps ==
  ASSUME NetworkAssumption, UdpTyped, UdpInv, jobs # <<>>, jobs' = Tail(jobs),
         inst' \in Instances, inst'.made = inst.made, inst'.closed = inst.closed,
         inst'.freed => inst.freed \/ held = {},
         inst'.ptr => hnd' \in {"open", "receiving"},
         hnd' \in {"open", "receiving"} =>
           inst'.ptr /\ (hnd \in {"open", "receiving"} \/ jobs[1].do = "init"),
         hnd' = "closing" => hnd \in {"open", "receiving", "closing"},
         hnd' \in {"closing", "gone"} =>
           inst.closed /\ (hnd' = hnd \/ jobs[1].do = "close"),
         hnd' \in {"none", "open", "receiving", "closing", "gone"},
         held' = held, uh' \in Histories, uh'.bad = uh.bad,
         req' \in [names : Nat, sends : Nat],
         req'.names # req.names => jobs[1].do = "bind" /\ inst'.ptr,
         req'.names > 0 => inst'.ptr,
         place' \in {"script", "tasks", "poll", "closing", "returned"}
  PROVE  UdpTyped' /\ UdpInv'
<1>1. UdpTyped'
  BY JobsShorter DEF UdpTyped
<1>2. ~Due("init")' /\ inst'.made /\ ~uh'.bad
  BY JobsShorter DEF Due, UdpInv
<1>3. \A i \in DOMAIN jobs' : jobs'[i].do = "close" =>
        /\ inst'.closed /\ hnd' \notin {"closing", "gone"} /\ req'.names = 0
        /\ \A j \in DOMAIN jobs' : j < i => jobs'[j].do # "bind"
        /\ \A j \in DOMAIN jobs' : jobs'[j].do = "close" => j = i
  BY JobsShorter
<1>4. hnd' \in {"open", "receiving"} =>
        IF inst'.closed THEN "script" \in held' ELSE "registry" \in held'
  <2> SUFFICES ASSUME hnd' \in {"open", "receiving"}
               PROVE  IF inst'.closed THEN "script" \in held' ELSE "registry" \in held'
    OBVIOUS
  <2>1. hnd \in {"open", "receiving"} \/ Due("init")
    BY JobsShorter DEF Due
  <2> QED BY <2>1 DEF UdpInv
<1>5. hnd' = "closing" => "script" \in held'
  BY DEF UdpInv
<1>6. inst'.freed => held' = {}
  BY DEF UdpInv
<1>7. \A i \in DOMAIN jobs' : jobs'[i].do # "init"
  BY JobsShorter
<1> QED BY <1>1, <1>2, <1>3, <1>4, <1>5, <1>6, <1>7 DEF UdpInv

LEMMA TasksKeep ==
  ASSUME NetworkAssumption, UdpTyped, UdpInv,
         \/ Udp!RunInit \/ Udp!RunReceive \/ Udp!RunBind \/ Udp!RunClose
         \/ \E what \in {"message", "sent", "closed"} : Udp!RunUserCode(what)
  PROVE  UdpTyped' /\ UdpInv'
<1>0. /\ jobs # <<>> /\ jobs' = Tail(jobs) /\ 1 \in DOMAIN jobs /\ Head(jobs) = jobs[1]
      /\ jobs[1] \in Tasked /\ inst.made
  <2>1. jobs # <<>> /\ jobs' = Tail(jobs)
    BY DEF Udp!RunInit, Udp!RunReceive, Udp!RunBind, Udp!RunClose, Udp!RunUserCode, Udp!Start,
           Udp!Rest
  <2> QED BY <2>1, JobsShorter
<1>1. /\ inst \in Instances /\ uh \in Histories /\ req \in [names : Nat, sends : Nat]
      /\ place \in {"script", "tasks", "poll", "closing", "returned"}
      /\ hnd \in {"none", "open", "receiving", "closing", "gone"}
  BY DEF UdpTyped
<1>i. (jobs[1].do = "init" => hnd = "none" /\ ~inst.ptr /\ req.names = 0)
      /\ (hnd \in {"closing", "gone"} => inst.closed) /\ (inst.ptr <=> hnd \in {"open", "receiving"})
      /\ (req.names > 0 => inst.ptr)
      /\ (jobs[1].do = "close" => inst.closed /\ hnd \notin {"closing", "gone"} /\ req.names = 0)
  BY <1>0, <1>1 DEF UdpInv, Due
<1>2. CASE Udp!RunInit
  <2>1. jobs[1].do = "init" /\ UNCHANGED <<place, req, uh>>
    BY <1>0, <1>2 DEF Udp!RunInit, Udp!Start
  <2>2. CASE inst' = Udp!Settle([inst EXCEPT !.ptr = TRUE], held, Tail(jobs)) /\ hnd' = "open"
             /\ UNCHANGED held
    <3> DEFINE rec == [inst EXCEPT !.ptr = TRUE]
    <3>1. rec \in Instances /\ rec.made = inst.made /\ rec.closed = inst.closed /\ rec.ptr
          /\ rec.freed = inst.freed
      BY <1>1 DEF Instances
    <3> HIDE DEF rec
    <3>2. /\ inst' \in Instances /\ inst'.made = rec.made /\ inst'.ptr = rec.ptr
          /\ inst'.closed = rec.closed /\ (inst'.freed => rec.freed \/ held = {})
      <4>1. inst' = Udp!Settle(rec, held, Tail(jobs))
        BY <2>2 DEF rec
      <4> QED BY <3>1, <4>1, SettleFacts
    <3> QED BY <1>0, <1>1, <1>i, <2>1, <2>2, <3>1, <3>2, TaskKeeps
  <2>3. CASE /\ held' = held \ {"registry"} /\ UNCHANGED hnd
             /\ inst' = Udp!Settle([inst EXCEPT !.closed = TRUE, !.counted = FALSE], held', Tail(jobs))
    <3> DEFINE rec == [inst EXCEPT !.closed = TRUE, !.counted = FALSE]
    <3>1. rec \in Instances /\ rec.made = inst.made /\ rec.closed /\ rec.ptr = inst.ptr
          /\ rec.freed = inst.freed
      BY <1>1 DEF Instances
    <3> HIDE DEF rec
    <3>2. /\ inst' \in Instances /\ inst'.made = rec.made /\ inst'.ptr = rec.ptr
          /\ inst'.closed = rec.closed /\ (inst'.freed => rec.freed \/ held' = {})
      <4>1. inst' = Udp!Settle(rec, held', Tail(jobs))
        BY <2>3 DEF rec
      <4> QED BY <3>1, <4>1, SettleFacts
    <3>3. ~Due("init")' /\ hnd' = "none" /\ ~inst'.ptr /\ inst'.closed /\ inst'.made
      BY <1>0, <1>i, <2>1, <2>3, <3>1, <3>2, JobsShorter DEF Due
    <3>4. UdpTyped'
      BY <1>0, <1>1, <2>1, <2>3, <3>2, JobsShorter DEF UdpTyped
    <3>5. \A i \in DOMAIN jobs' : jobs'[i].do # "init"
      BY <1>0, JobsShorter
    <3>6. \A i \in DOMAIN jobs' : jobs'[i].do = "close" =>
            /\ inst'.closed /\ hnd' \notin {"closing", "gone"} /\ req'.names = 0
            /\ \A j \in DOMAIN jobs' : j < i => jobs'[j].do # "bind"
            /\ \A j \in DOMAIN jobs' : jobs'[j].do = "close" => j = i
      BY <1>0, <2>1, <3>3, JobsShorter
    <3>7. inst'.freed => held' = {}
      BY <2>3, <3>1, <3>2 DEF UdpInv
    <3>8. ~uh'.bad /\ ~(req'.names > 0)
      BY <1>i, <2>1 DEF UdpInv
    <3> QED BY <3>3, <3>4, <3>5, <3>6, <3>7, <3>8 DEF UdpInv
  <2> QED BY <1>2, <2>2, <2>3 DEF Udp!RunInit, Udp!Rest
<1>3. CASE Udp!RunReceive
  <2>1. /\ inst' = Udp!Settle(inst, held, Tail(jobs)) /\ UNCHANGED <<place, held, req, uh>>
        /\ hnd' = IF inst.ptr /\ ~inst.closed THEN "receiving" ELSE hnd
    BY <1>3 DEF Udp!RunReceive, Udp!Rest
  <2>2. /\ inst' \in Instances /\ inst'.made = inst.made /\ inst'.ptr = inst.ptr
        /\ inst'.closed = inst.closed /\ (inst'.freed => inst.freed \/ held = {})
    BY <1>1, <2>1, SettleFacts
  <2> QED BY <1>0, <1>1, <1>i, <2>1, <2>2, TaskKeeps
<1>4. CASE Udp!RunBind
  <2>1. /\ inst' = Udp!Settle(inst, held, Tail(jobs)) /\ UNCHANGED <<place, held, hnd, uh>>
        /\ jobs[1].do = "bind"
        /\ \E named \in BOOLEAN :
             req' = IF inst.ptr /\ named THEN [req EXCEPT !.names = @ + 1] ELSE req
    BY <1>0, <1>4 DEF Udp!RunBind, Udp!Rest, Udp!Start
  <2>2. /\ inst' \in Instances /\ inst'.made = inst.made /\ inst'.ptr = inst.ptr
        /\ inst'.closed = inst.closed /\ (inst'.freed => inst.freed \/ held = {})
    BY <1>1, <2>1, SettleFacts
  <2>3. req' \in [names : Nat, sends : Nat] /\ (req'.names # req.names => inst.ptr)
    BY <1>1, <2>1
  <2> QED BY <1>0, <1>1, <1>i, <2>1, <2>2, <2>3, TaskKeeps
<1>5. CASE Udp!RunClose
  <2>1. jobs[1].do = "close" /\ UNCHANGED <<place, held, req, uh>>
    BY <1>0, <1>5 DEF Udp!RunClose, Udp!Start
  <2>2. CASE inst.ptr
    <3> DEFINE rec == [inst EXCEPT !.ptr = FALSE]
    <3>1. rec \in Instances /\ rec.made = inst.made /\ rec.closed = inst.closed /\ ~rec.ptr
          /\ rec.freed = inst.freed
      BY <1>1 DEF Instances
    <3> HIDE DEF rec
    <3>2. inst' = Udp!Settle(rec, held, Tail(jobs)) /\ hnd' = "closing"
      BY <1>5, <2>2 DEF Udp!RunClose, Udp!Rest, rec
    <3>3. /\ inst' \in Instances /\ inst'.made = rec.made /\ inst'.ptr = rec.ptr
          /\ inst'.closed = rec.closed /\ (inst'.freed => rec.freed \/ held = {})
      BY <3>1, <3>2, SettleFacts
    <3> QED BY <1>0, <1>1, <1>i, <2>1, <2>2, <3>1, <3>2, <3>3, TaskKeeps
  <2>3. CASE ~inst.ptr
    <3> DEFINE rec == [inst EXCEPT !.counted = FALSE]
    <3>1. rec \in Instances /\ rec.made = inst.made /\ rec.closed = inst.closed /\ ~rec.ptr
          /\ rec.freed = inst.freed
      BY <1>1, <2>3 DEF Instances
    <3> HIDE DEF rec
    <3>2. inst' = Udp!Settle(rec, held, Tail(jobs)) /\ UNCHANGED hnd
      BY <1>5, <2>3 DEF Udp!RunClose, Udp!Rest, rec
    <3>3. /\ inst' \in Instances /\ inst'.made = rec.made /\ inst'.ptr = rec.ptr
          /\ inst'.closed = rec.closed /\ (inst'.freed => rec.freed \/ held = {})
      BY <3>1, <3>2, SettleFacts
    <3> QED BY <1>0, <1>1, <1>i, <2>1, <2>3, <3>1, <3>2, <3>3, TaskKeeps
  <2> QED BY <2>2, <2>3
<1>6. ASSUME NEW what \in {"message", "sent", "closed"}, Udp!RunUserCode(what)
      PROVE  UdpTyped' /\ UdpInv'
  <2>1. /\ UNCHANGED <<inst, hnd, held, req>> /\ place' = "script"
        /\ what = "message" => uh' = [uh EXCEPT !.heard = Append(@, jobs[1].c)]
        /\ what = "sent" => uh' = [uh EXCEPT !.answers = @ + 1]
        /\ what = "closed" => uh' = uh
    BY <1>0, <1>6 DEF Udp!RunUserCode
  <2>2. [uh EXCEPT !.heard = Append(@, jobs[1].c)] \in Histories
        /\ [uh EXCEPT !.heard = Append(@, jobs[1].c)].bad = uh.bad
    <3>1. PICK s \in Seq(Nat) : s = Append(uh.heard, jobs[1].c)
      <4>1. jobs[1].c \in Nat
        BY <1>0 DEF Tasked, NetworkAssumption, Udp!UdpAssumption
      <4>2. uh.heard \in Seq(Nat)
        BY <1>1 DEF Histories
      <4>3. Append(uh.heard, jobs[1].c) \in Seq(Nat)
        BY <4>1, <4>2
      <4> QED BY <4>3
    <3> QED BY <1>1, <3>1 DEF Histories
  <2>3. uh' \in Histories /\ uh'.bad = uh.bad
    BY <1>1, <2>1, <2>2, HistorySteps
  <2> QED BY <1>0, <1>1, <1>i, <2>1, <2>3, TaskKeeps
<1> QED BY <1>2, <1>3, <1>4, <1>5, <1>6

LEMMA SendTaskKeeps ==
  ASSUME NetworkAssumption, UdpTyped, UdpInv, Udp!RunSend
  PROVE  UdpTyped' /\ UdpInv'
<1>0. /\ jobs # <<>> /\ jobs[1].do = "send" /\ inst' = Udp!Settle(inst, held, Tail(jobs))
      /\ UNCHANGED <<hnd, place, held, uh>>
      /\ \/ inst.ptr /\ req' = [req EXCEPT !.sends = @ + 1] /\ jobs' = Tail(jobs)
         \/ jobs' = Append(Tail(jobs), Udp!Work("sent")) /\ UNCHANGED req
  <2>1. jobs # <<>> /\ Head(jobs).do = "send"
    BY DEF Udp!RunSend, Udp!Start
  <2> QED BY <2>1, JobsShorter DEF Udp!RunSend, Udp!Rest
<1>1. /\ inst \in Instances /\ uh \in Histories /\ req \in [names : Nat, sends : Nat]
      /\ place \in {"script", "tasks", "poll", "closing", "returned"}
      /\ hnd \in {"none", "open", "receiving", "closing", "gone"}
  BY DEF UdpTyped
<1>2. /\ inst' \in Instances /\ inst'.made = inst.made /\ inst'.ptr = inst.ptr
      /\ inst'.closed = inst.closed /\ (inst'.freed => inst.freed \/ held = {})
  BY <1>0, <1>1, SettleFacts
<1>3. (hnd \in {"closing", "gone"} => inst.closed) /\ (inst.ptr <=> hnd \in {"open", "receiving"})
      /\ (req.names > 0 => inst.ptr)
  BY <1>1 DEF UdpInv
<1>4. CASE inst.ptr /\ req' = [req EXCEPT !.sends = @ + 1] /\ jobs' = Tail(jobs)
  <2>1. req' \in [names : Nat, sends : Nat] /\ req'.names = req.names
    BY <1>1, <1>4
  <2> QED BY <1>0, <1>1, <1>2, <1>3, <1>4, <2>1, TaskKeeps
<1>5. CASE jobs' = Append(Tail(jobs), Udp!Work("sent")) /\ UNCHANGED req
  <2> DEFINE rest == Tail(jobs)
             m == <<Udp!Work("sent")>>
  <2>1. m \in Seq(Tasked) /\ DOMAIN m = {1} /\ Len(m) = 1 /\ m[1].do = "sent"
    BY OneWork DEF UdpJobs
  <2>2. rest \in Seq(Tasked) /\ Shorter(jobs, rest)
    BY <1>0, JobsShorter
  <2>3. inst.made /\ \A i \in DOMAIN rest : rest[i].do # "init"
    BY <1>0, JobsShorter
  <2>4. \A i \in DOMAIN rest : rest[i].do = "close" =>
          /\ inst.closed /\ hnd \notin {"closing", "gone"} /\ req.names = 0
          /\ \A j \in DOMAIN rest : j < i => rest[j].do # "bind"
          /\ \A j \in DOMAIN rest : rest[j].do = "close" => j = i
    BY <1>0, JobsShorter
  <2>5. Udp!Work("sent") \in Tasked
    BY <2>1
  <2>6. jobs' = rest \o m
    BY <1>5, <2>2, <2>5
  <2> HIDE DEF rest, m
  <2>7. jobs' \in Seq(Tasked) /\ Longer(rest, m, jobs')
    BY <2>1, <2>2, <2>6, JoinIsLonger
  <2>8. \A i \in DOMAIN jobs' : i \in Nat /\
          ((i \in DOMAIN rest /\ jobs'[i] = rest[i]) \/ (i = Len(rest) + 1 /\ jobs'[i].do = "sent"))
    BY <2>1, <2>2, <2>7 DEF Longer
  <2>9. \A i \in DOMAIN jobs' : jobs'[i].do # "init"
    BY <2>3, <2>8
  <2>10. \A i \in DOMAIN jobs' : jobs'[i].do = "close" =>
          /\ inst.closed /\ hnd \notin {"closing", "gone"} /\ req.names = 0
          /\ \A j \in DOMAIN jobs' : j < i => jobs'[j].do # "bind"
          /\ \A j \in DOMAIN jobs' : jobs'[j].do = "close" => j = i
    <3> SUFFICES ASSUME NEW i \in DOMAIN jobs', jobs'[i].do = "close"
                 PROVE  /\ inst.closed /\ hnd \notin {"closing", "gone"} /\ req.names = 0
                        /\ \A j \in DOMAIN jobs' : j < i => jobs'[j].do # "bind"
                        /\ \A j \in DOMAIN jobs' : jobs'[j].do = "close" => j = i
      OBVIOUS
    <3>1. i \in DOMAIN rest /\ jobs'[i] = rest[i]
      BY <2>8
    <3> QED BY <2>4, <2>8, <3>1
  <2>11. UdpTyped'
    BY <1>0, <1>1, <1>2, <1>5, <2>7 DEF UdpTyped
  <2>12. ~Due("init")'
    BY <2>9 DEF Due
  <2>13. UdpInv'
    BY <1>0, <1>2, <1>5, <2>3, <2>9, <2>10, <2>12 DEF UdpInv
  <2> QED BY <2>11, <2>13
<1> QED BY <1>0, <1>4, <1>5

\* What happens in uv_run.
LEMMA PollKeeps ==
  ASSUME NetworkAssumption, UdpTyped, UdpInv,
         Udp!Receive \/ Udp!BindResolved \/ Udp!Sent \/ Udp!HandleClosed
         \/ Udp!Onwards \/ Udp!Turn \/ Udp!ReturnToLoop
  PROVE  UdpTyped' /\ UdpInv'
<1>0. /\ inst \in Instances /\ uh \in Histories /\ req \in [names : Nat, sends : Nat]
      /\ place \in {"script", "tasks", "poll", "closing", "returned"}
      /\ hnd \in {"none", "open", "receiving", "closing", "gone"} /\ jobs \in Seq(Tasked)
      /\ held \subseteq {"script", "registry"}
  BY DEF UdpTyped
<1>1. CASE Udp!Receive
  <2> DEFINE n == uh.arrived + 1
             m == <<[do |-> "message", c |-> n]>>
  <2>1. /\ hnd = "receiving" /\ uh.arrived < Messages /\ uh' = [uh EXCEPT !.arrived = @ + 1]
        /\ jobs' = jobs \o m /\ UNCHANGED <<inst, hnd, place, held, req>>
    BY <1>1 DEF Udp!Receive, Udp!Also
  <2>2. n \in 0..Messages
    BY <1>0, <2>1 DEF Histories, NetworkAssumption, Udp!UdpAssumption
  <2>3. m \in Seq(Tasked) /\ \A i \in DOMAIN m : m[i].do \notin {"init", "close"}
    BY <2>2, OneMessage
  <2>4. inst.made
    BY <2>1 DEF UdpInv
  <2>5. uh' \in Histories /\ uh'.bad = uh.bad
    BY <2>1, HistorySteps
  <2> HIDE DEF m, n
  <2> QED BY <1>0, <2>1, <2>3, <2>4, <2>5, UdpAdds
<1>2. CASE Udp!BindResolved
  <2>1. /\ req.names > 0 /\ req' = [req EXCEPT !.names = @ - 1]
        /\ \E found \in BOOLEAN : uh' = [uh EXCEPT !.bad = @ \/ (found /\ ~inst.ptr)]
        /\ UNCHANGED <<inst, hnd, jobs, place, held>>
    BY <1>2 DEF Udp!BindResolved
  <2>2. inst.ptr /\ ~uh.bad /\ inst.made
    BY <1>0, <2>1 DEF UdpInv
  <2>3. uh' \in Histories /\ ~uh'.bad
    BY <1>0, <2>1, <2>2 DEF Histories
  <2>4. req' \in [names : Nat, sends : Nat]
    BY <1>0, <2>1
  <2>5. \A i \in DOMAIN jobs : jobs[i].do # "close"
    BY <1>0, <2>1 DEF UdpInv
  <2>6. UdpTyped'
    BY <1>0, <2>1, <2>3, <2>4 DEF UdpTyped
  <2>7. UdpInv'
    BY <2>1, <2>2, <2>3, <2>5 DEF UdpInv, Due
  <2> QED BY <2>6, <2>7
<1>3. CASE Udp!Sent
  <2> DEFINE m == <<Udp!Work("sent")>>
  <2>1. /\ req.sends > 0 /\ req' = [req EXCEPT !.sends = @ - 1] /\ jobs' = jobs \o m
        /\ UNCHANGED <<inst, hnd, place, held, uh>>
    BY <1>3 DEF Udp!Sent, Udp!Also
  <2>2. m \in Seq(Tasked) /\ DOMAIN m = {1} /\ Len(m) = 1 /\ m[1].do = "sent"
    BY OneWork DEF UdpJobs
  <2>3. req' \in [names : Nat, sends : Nat] /\ req'.names = req.names
    BY <1>0, <2>1
  <2> HIDE DEF m
  <2>4. inst.made
    BY <1>0, <2>1 DEF UdpInv
  <2> QED BY <1>0, <2>1, <2>2, <2>3, <2>4, UdpAdds
<1>4. CASE Udp!HandleClosed
  <2> DEFINE sent == [i \in 1..req.sends |-> Udp!Work("sent")]
             m == <<Udp!Work("closed")>>
             more == sent \o m
  <2>1. /\ hnd = "closing" /\ hnd' = "gone" /\ req' = [req EXCEPT !.sends = 0]
        /\ inst' = [inst EXCEPT !.counted = FALSE] /\ UNCHANGED <<place, held, uh>>
        /\ jobs' = jobs \o more
    BY <1>4 DEF Udp!HandleClosed, Udp!Also
  <2>2. m \in Seq(Tasked) /\ DOMAIN m = {1} /\ Len(m) = 1 /\ m[1].do = "closed"
    BY OneWork DEF UdpJobs
  <2>3. Udp!Work("sent") \in Tasked /\ Udp!Work("sent").do = "sent"
    BY OneWork DEF UdpJobs
  <2>4. sent \in Seq(Tasked) /\ \A i \in DOMAIN sent : sent[i].do = "sent"
    <3>1. req.sends \in Nat
      BY <1>0
    <3> QED BY <2>3, <3>1
  <2> HIDE DEF sent, m
  <2>5. more \in Seq(Tasked) /\ Longer(sent, m, more)
    BY <2>2, <2>4, JoinIsLonger
  <2>6. \A i \in DOMAIN more : more[i].do \notin {"init", "close"}
    BY <2>2, <2>4, <2>5 DEF Longer
  <2>7. /\ inst' \in Instances /\ inst'.made = inst.made /\ inst'.closed = inst.closed
        /\ inst'.ptr = inst.ptr /\ inst'.freed = inst.freed /\ inst.made
    BY <1>0, <2>1 DEF Instances, UdpInv
  <2>8. req' \in [names : Nat, sends : Nat] /\ req'.names = req.names
    BY <1>0, <2>1
  <2> HIDE DEF more
  <2> QED BY <1>0, <2>1, <2>5, <2>6, <2>7, <2>8, UdpAdds
<1>5. CASE Udp!Onwards \/ Udp!Turn \/ Udp!ReturnToLoop
  <2>1. UNCHANGED <<inst, hnd, jobs, held, req, uh>>
        /\ place' \in {"script", "tasks", "poll", "closing", "returned"}
    BY <1>5 DEF Udp!Onwards, Udp!Turn, Udp!ReturnToLoop
  <2>2. UdpTyped'
    BY <1>0, <2>1 DEF UdpTyped
  <2>3. UdpInv'
    BY <2>1 DEF UdpInv, Due
  <2> QED BY <2>2, <2>3
<1> QED BY <1>1, <1>2, <1>3, <1>4, <1>5

LEMMA UdpSteps ==
  ASSUME NetworkAssumption, UdpCareless = {}, UdpTyped, UdpInv, [Udp!Next]_(Udp!uvars)
  PROVE  UdpTyped' /\ UdpInv'
<1>1. CASE UNCHANGED Udp!uvars
  BY <1>1 DEF Udp!uvars, UdpTyped, UdpInv, Due
<1>2. CASE Udp!LoopSteps
  BY <1>2, TasksKeep, SendTaskKeeps, PollKeeps DEF Udp!LoopSteps
<1>3. CASE Udp!Answers \/ Udp!Receive
  BY <1>3, PollKeeps DEF Udp!Answers
<1>4. CASE Udp!Create \/ Udp!OnMessage \/ Udp!Bind \/ Udp!Send \/ Udp!CloseUdp \/ Udp!Drop
  BY <1>4, CreateKeeps, ScriptAdds, CloseKeeps, DropKeeps
<1> QED BY <1>1, <1>2, <1>3, <1>4 DEF Udp!Next

LEMMA UdpHandles ==
  ASSUME UdpTyped, UdpInv
  PROVE  Udp!HandleIsOpen
BY DEF UdpTyped, UdpInv, Udp!HandleIsOpen

-----------------------------------------------------------------------------
\* What is heard over UDP.
Messaged == {j \in Tasked : j.do = "message"}
HeardInv ==
  /\ Len(uh.heard) <= uh.arrived /\ \A n \in DOMAIN uh.heard : uh.heard[n] = n
  /\ Carried(jobs, Messaged, Len(uh.heard), uh.arrived)

LEMMA UdpNumbers ==
  ASSUME NetworkAssumption, UdpTyped
  PROVE  /\ jobs \in Seq(Tasked) /\ uh \in Histories /\ uh.heard \in Seq(Nat)
         /\ Len(uh.heard) \in Nat /\ uh.arrived \in Nat
         /\ \A i \in DOMAIN jobs : jobs[i].c \in Nat /\ jobs[i] \in Tasked
<1>1. jobs \in Seq(Tasked) /\ uh \in Histories
  BY DEF UdpTyped
<1>2. uh.heard \in Seq(Nat) /\ uh.arrived \in Nat
  BY <1>1 DEF Histories
<1>3. Len(uh.heard) \in Nat
  BY <1>2
<1>4. \A i \in DOMAIN jobs : jobs[i] \in Tasked
  BY <1>1
<1>5. \A x \in Tasked : x.c \in Nat
  BY DEF Tasked, NetworkAssumption, Udp!UdpAssumption
<1> QED BY <1>1, <1>2, <1>3, <1>4, <1>5

LEMMA HeardHolds ==
  ASSUME NetworkAssumption, UdpTyped, HeardInv
  PROVE  Udp!MessagesInOrder
<1>1. \A i \in DOMAIN jobs : jobs[i] \in Messaged <=> i \in Udp!MessagesWaiting
  BY UdpNumbers DEF Messaged, Udp!MessagesWaiting
<1>2. Udp!MessagesWaiting \subseteq DOMAIN jobs
  BY DEF Udp!MessagesWaiting
<1>3. {jobs[i].c : i \in Udp!MessagesWaiting} = (Len(uh.heard) + 1)..uh.arrived
  <2>1. ASSUME NEW i \in Udp!MessagesWaiting
        PROVE  jobs[i].c \in (Len(uh.heard) + 1)..uh.arrived
    BY <1>1, <1>2, UdpNumbers DEF HeardInv, Carried
  <2>2. ASSUME NEW n \in (Len(uh.heard) + 1)..uh.arrived
        PROVE  \E i \in Udp!MessagesWaiting : jobs[i].c = n
    BY <1>1, UdpNumbers DEF HeardInv, Carried
  <2> QED BY <2>1, <2>2
<1>4. \A i, j \in Udp!MessagesWaiting : i < j => jobs[i].c < jobs[j].c
  BY <1>1, <1>2 DEF HeardInv, Carried
<1> QED BY <1>3, <1>4 DEF HeardInv, Udp!MessagesInOrder

\* Steps that neither receive nor hand over a message.
LEMMA SilentPush ==
  ASSUME NetworkAssumption, UdpTyped, HeardInv, NEW m \in Seq(Tasked), jobs' = jobs \o m,
         \A i \in DOMAIN m : m[i].do # "message",
         uh'.heard = uh.heard, uh'.arrived = uh.arrived
  PROVE  HeardInv'
<1>1. jobs' \in Seq(Tasked) /\ Longer(jobs, m, jobs')
  BY UdpNumbers, JoinIsLonger
<1>2. \A i \in DOMAIN m : m[i] \notin Messaged
  BY DEF Messaged
<1>3. Carried(jobs, Messaged, Len(uh.heard), uh.arrived)
  BY DEF HeardInv
<1>4. Carried(jobs', Messaged, Len(uh.heard), uh.arrived)
  BY <1>1, <1>2, <1>3, UdpNumbers, CarriedLonger
<1> QED BY <1>4 DEF HeardInv

LEMMA SilentTask ==
  ASSUME NetworkAssumption, UdpTyped, HeardInv, jobs # <<>>, Head(jobs).do # "message",
         jobs' = Tail(jobs), uh'.heard = uh.heard, uh'.arrived = uh.arrived
  PROVE  HeardInv'
<1>1. jobs' \in Seq(Tasked) /\ Shorter(jobs, jobs') /\ Head(jobs) = jobs[1]
  BY UdpNumbers, TailIsShorter
<1>2. jobs[1] \notin Messaged
  BY <1>1 DEF Messaged
<1>3. Carried(jobs, Messaged, Len(uh.heard), uh.arrived)
  BY DEF HeardInv
<1>4. Carried(jobs', Messaged, Len(uh.heard), uh.arrived)
  BY <1>1, <1>2, <1>3, UdpNumbers, CarriedShorter
<1> QED BY <1>4 DEF HeardInv

LEMMA MessageArrives ==
  ASSUME NetworkAssumption, UdpTyped, HeardInv, Udp!Receive
  PROVE  HeardInv'
<1> DEFINE n == uh.arrived + 1
           x == [do |-> "message", c |-> n]
<1>1. uh.arrived < Messages /\ uh' = [uh EXCEPT !.arrived = @ + 1] /\ jobs' = jobs \o <<x>>
  BY DEF Udp!Receive, Udp!Also
<1>2. n \in 0..Messages
  BY <1>1, UdpNumbers DEF NetworkAssumption, Udp!UdpAssumption
<1>3. x \in Tasked /\ x \in Messaged /\ x.c = uh.arrived + 1
  BY <1>2 DEF Tasked, UdpJobs, Messaged
<1>4. uh'.arrived = uh.arrived + 1 /\ uh'.heard = uh.heard
  BY <1>1, HistorySteps
<1> HIDE DEF x, n
<1>5. <<x>> \in Seq(Tasked)
  BY <1>3
<1>6. jobs' \in Seq(Tasked) /\ Longer(jobs, <<x>>, jobs')
  BY <1>1, <1>5, UdpNumbers, JoinIsLonger
<1>7. Carried(jobs, Messaged, Len(uh.heard), uh.arrived) /\ Len(uh.heard) <= uh.arrived
  BY DEF HeardInv
<1>8. Carried(jobs', Messaged, Len(uh.heard), uh.arrived + 1)
  BY <1>3, <1>6, <1>7, UdpNumbers, CarriedOne
<1> QED BY <1>4, <1>7, <1>8, UdpNumbers DEF HeardInv

LEMMA MessageHeard ==
  ASSUME NetworkAssumption, UdpTyped, HeardInv, Udp!RunUserCode("message")
  PROVE  HeardInv'
<1>1. /\ jobs # <<>> /\ Head(jobs).do = "message" /\ jobs' = Tail(jobs)
      /\ uh' = [uh EXCEPT !.heard = Append(@, Head(jobs).c)]
  BY DEF Udp!RunUserCode, Udp!Start, Udp!Rest
<1>2. /\ jobs' \in Seq(Tasked) /\ Shorter(jobs, jobs') /\ Head(jobs) = jobs[1]
      /\ 1 \in DOMAIN jobs /\ jobs[1] \in Tasked
  BY <1>1, UdpNumbers, TailIsShorter
<1>3. jobs[1] \in Messaged
  BY <1>1, <1>2 DEF Messaged
<1>4. Carried(jobs, Messaged, Len(uh.heard), uh.arrived) /\ Len(uh.heard) <= uh.arrived
  BY DEF HeardInv
<1>5. /\ jobs[1].c = Len(uh.heard) + 1 /\ Len(uh.heard) + 1 <= uh.arrived
      /\ Carried(jobs', Messaged, Len(uh.heard) + 1, uh.arrived)
  BY <1>2, <1>3, <1>4, UdpNumbers, CarriedHead
<1> DEFINE new == Append(uh.heard, jobs[1].c)
<1>6. new \in Seq(Nat) /\ Len(new) = Len(uh.heard) + 1
      /\ \A k \in DOMAIN new : (k \in DOMAIN uh.heard /\ new[k] = uh.heard[k])
                               \/ (k = Len(uh.heard) + 1 /\ new[k] = jobs[1].c)
  BY <1>2, UdpNumbers
<1>7. uh'.heard = new /\ uh'.arrived = uh.arrived
  BY <1>1, <1>2, UdpNumbers DEF Histories
<1> HIDE DEF new
<1> QED BY <1>5, <1>6, <1>7 DEF HeardInv

LEMMA SilentSend ==
  ASSUME NetworkAssumption, UdpTyped, HeardInv, Udp!RunSend
  PROVE  HeardInv'
<1>1. jobs # <<>> /\ Head(jobs).do # "message" /\ uh'.heard = uh.heard /\ uh'.arrived = uh.arrived
  BY DEF Udp!RunSend, Udp!Start
<1>2. CASE jobs' = Tail(jobs)
  BY <1>1, <1>2, SilentTask
<1>3. CASE jobs' = Append(Tail(jobs), Udp!Work("sent"))
  <2> DEFINE rest == Tail(jobs)
             m == <<Udp!Work("sent")>>
  <2>1. m \in Seq(Tasked) /\ DOMAIN m = {1} /\ Len(m) = 1 /\ m[1].do = "sent"
        /\ Udp!Work("sent") \in Tasked
    BY OneWork DEF UdpJobs
  <2>2. rest \in Seq(Tasked) /\ Shorter(jobs, rest) /\ Head(jobs) = jobs[1]
    BY <1>1, UdpNumbers, TailIsShorter
  <2>3. jobs' = rest \o m
    BY <1>3, <2>1, <2>2
  <2>4. jobs[1] \notin Messaged /\ \A k \in DOMAIN m : m[k] \notin Messaged
    BY <1>1, <2>1, <2>2 DEF Messaged
  <2> HIDE DEF rest, m
  <2>5. jobs' \in Seq(Tasked) /\ Longer(rest, m, jobs')
    BY <2>1, <2>2, <2>3, JoinIsLonger
  <2>6. Carried(jobs, Messaged, Len(uh.heard), uh.arrived)
    BY DEF HeardInv
  <2>7. Carried(rest, Messaged, Len(uh.heard), uh.arrived)
    BY <2>2, <2>4, <2>6, UdpNumbers, CarriedShorter
  <2>8. Carried(jobs', Messaged, Len(uh.heard), uh.arrived)
    BY <2>1, <2>2, <2>4, <2>5, <2>7, UdpNumbers, CarriedLonger
  <2> QED BY <1>1, <2>8 DEF HeardInv
<1> QED BY <1>2, <1>3 DEF Udp!RunSend, Udp!Rest

LEMMA SilentRest ==
  ASSUME HeardInv, jobs' = jobs, uh'.heard = uh.heard, uh'.arrived = uh.arrived
  PROVE  HeardInv'
BY DEF HeardInv, Carried

LEMMA UdpHeardSteps ==
  ASSUME NetworkAssumption, UdpTyped, HeardInv, [Udp!Next]_(Udp!uvars)
  PROVE  HeardInv'
<1>1. CASE UNCHANGED Udp!uvars
  BY <1>1, SilentRest DEF Udp!uvars
<1>2. CASE Udp!RunInit \/ Udp!RunReceive \/ Udp!RunBind \/ Udp!RunClose
           \/ Udp!RunUserCode("sent") \/ Udp!RunUserCode("closed")
  <2>1. jobs # <<>> /\ Head(jobs).do # "message" /\ jobs' = Tail(jobs)
    BY <1>2 DEF Udp!RunInit, Udp!RunReceive, Udp!RunBind, Udp!RunClose, Udp!RunUserCode,
                Udp!Start, Udp!Rest
  <2>2. uh' \in {uh, [uh EXCEPT !.answers = @ + 1]}
    BY <1>2 DEF Udp!RunInit, Udp!RunReceive, Udp!RunBind, Udp!RunClose, Udp!RunUserCode
  <2>3. uh'.heard = uh.heard /\ uh'.arrived = uh.arrived
    BY <2>2, HistorySteps
  <2> QED BY <2>1, <2>3, SilentTask
<1>3. CASE Udp!RunSend \/ Udp!Receive \/ Udp!RunUserCode("message")
  BY <1>3, SilentSend, MessageArrives, MessageHeard
<1>4. CASE Udp!Turn \/ Udp!Onwards \/ Udp!ReturnToLoop
  BY <1>4, SilentRest DEF Udp!Turn, Udp!Onwards, Udp!ReturnToLoop
<1>5. CASE Udp!BindResolved \/ Udp!Drop
  <2>1. jobs' = jobs
    BY <1>5 DEF Udp!BindResolved, Udp!Drop
  <2>2. uh'.heard = uh.heard /\ uh'.arrived = uh.arrived
    <3>1. CASE Udp!BindResolved
      BY <3>1, UdpNumbers DEF Udp!BindResolved, Histories
    <3>2. CASE Udp!Drop
      BY <3>2, HistorySteps DEF Udp!Drop
    <3> QED BY <1>5, <3>1, <3>2
  <2> QED BY <2>1, <2>2, SilentRest
<1>6. CASE Udp!HandleClosed
  <2> DEFINE sent == [i \in 1..req.sends |-> Udp!Work("sent")]
             m == <<Udp!Work("closed")>>
             more == sent \o m
  <2>1. jobs' = jobs \o more /\ uh' = uh
    BY <1>6 DEF Udp!HandleClosed, Udp!Also
  <2>2. m \in Seq(Tasked) /\ DOMAIN m = {1} /\ Len(m) = 1 /\ m[1].do = "closed"
    BY OneWork DEF UdpJobs
  <2>3. Udp!Work("sent") \in Tasked /\ Udp!Work("sent").do = "sent" /\ req.sends \in Nat
    BY OneWork DEF UdpJobs, UdpTyped
  <2>4. sent \in Seq(Tasked) /\ \A i \in DOMAIN sent : sent[i].do = "sent"
    BY <2>3
  <2> HIDE DEF sent, m
  <2>5. more \in Seq(Tasked) /\ Longer(sent, m, more)
    BY <2>2, <2>4, JoinIsLonger
  <2>6. \A i \in DOMAIN more : more[i].do # "message"
    BY <2>2, <2>4, <2>5 DEF Longer
  <2> HIDE DEF more
  <2> QED BY <2>1, <2>5, <2>6, SilentPush
<1>7. CASE Udp!Sent \/ Udp!OnMessage \/ Udp!Bind \/ Udp!Send
  <2>1. PICK what \in UdpJobs : jobs' = jobs \o <<Udp!Work(what)>> /\ what # "message"
    BY <1>7 DEF Udp!Sent, Udp!OnMessage, Udp!Bind, Udp!Send, Udp!Also, UdpJobs
  <2> DEFINE m == <<Udp!Work(what)>>
  <2>2. m \in Seq(Tasked) /\ \A i \in DOMAIN m : m[i].do # "message"
    BY <2>1, OneWork
  <2>3. uh' \in {uh, Udp!UCounted(uh), [Udp!UCounted(uh) EXCEPT !.sends = @ + 1]}
    BY <1>7 DEF Udp!Sent, Udp!OnMessage, Udp!Bind, Udp!Send
  <2>4. uh'.heard = uh.heard /\ uh'.arrived = uh.arrived
    BY <2>3, HistorySteps
  <2>5. jobs' = jobs \o m
    BY <2>1
  <2> HIDE DEF m
  <2> QED BY <2>2, <2>4, <2>5, SilentPush
<1>8. CASE Udp!Create
  <2> DEFINE m == <<Udp!Work("init")>>
             n == <<Udp!Work("receive")>>
  <2>1. /\ uh' = Udp!UCounted(uh)
        /\ jobs' = jobs \o (m \o n) \/ jobs' = jobs \o (m \o <<>>)
    BY <1>8 DEF Udp!Create, Udp!Also
  <2>2. /\ m \in Seq(Tasked) /\ n \in Seq(Tasked) /\ <<>> \in Seq(Tasked)
        /\ \A i \in DOMAIN m : m[i].do # "message"
        /\ \A i \in DOMAIN n : n[i].do # "message"
    BY OneWork DEF UdpJobs
  <2>3. uh'.heard = uh.heard /\ uh'.arrived = uh.arrived
    BY <2>1, HistorySteps
  <2> HIDE DEF m, n
  <2>4. PICK more : jobs' = jobs \o more /\ (more = m \o n \/ more = m \o <<>>)
    BY <2>1
  <2>5. more \in Seq(Tasked) /\ (Longer(m, n, more) \/ Longer(m, <<>>, more))
    BY <2>2, <2>4, JoinIsLonger
  <2>6. \A i \in DOMAIN more : more[i].do # "message"
    BY <2>2, <2>5 DEF Longer
  <2> QED BY <2>3, <2>4, <2>5, <2>6, SilentPush
<1>9. CASE Udp!CloseUdp
  <2>1. uh' = Udp!UCounted(uh) /\ (jobs' = jobs \/ jobs' = jobs \o <<Udp!Work("close")>>)
    BY <1>9 DEF Udp!CloseUdp, Udp!Also
  <2>2. uh'.heard = uh.heard /\ uh'.arrived = uh.arrived
    BY <2>1, HistorySteps
  <2> DEFINE m == <<Udp!Work("close")>>
  <2>3. m \in Seq(Tasked) /\ \A i \in DOMAIN m : m[i].do # "message"
    BY OneWork DEF UdpJobs
  <2>4. jobs' = jobs \/ jobs' = jobs \o m
    BY <2>1
  <2> HIDE DEF m
  <2> QED BY <2>2, <2>3, <2>4, SilentPush, SilentRest
<1> QED
  BY <1>1, <1>2, <1>3, <1>4, <1>5, <1>6, <1>7, <1>8, <1>9
  DEF Udp!Next, Udp!LoopSteps, Udp!Answers

LEMMA HeardBegins ==
  ASSUME NetworkAssumption, Udp!Init
  PROVE  HeardInv
BY DEF Udp!Init, HeardInv, Carried, NetworkAssumption, Udp!UdpAssumption

LEMMA UdpIsTyped ==
  ASSUME UdpTyped
  PROVE  Udp!TypeOK
<1>1. \A i \in DOMAIN jobs : jobs[i].c \in 0..Messages
  <2>1. \A x \in Tasked : x.c \in 0..Messages
    BY DEF Tasked
  <2> QED BY <2>1 DEF UdpTyped
<1>2. uh.answers \in Nat /\ uh.calls \in 0..UdpCalls
  BY DEF UdpTyped, Histories
<1> QED BY <1>1, <1>2 DEF UdpTyped, Udp!TypeOK, Instances

LEMMA PingHolds ==
  ASSUME NetworkAssumption, PingInv
  PROVE  Net!TypeOK /\ Net!WorkIsGivenBack /\ Net!PingIsDriven /\ Net!PingAddsUp
<1>1. ping.phase = "settled" => ~try.waits
  BY DEF PingInv, AttemptInv, Attempts
<1> QED BY <1>1, PingTyped DEF PingInv, CountInv, Net!PingAddsUp

-----------------------------------------------------------------------------
\* Sockets over TCP.

Walks == {"none", "resolving", "connecting", "open", "over"}
Records == [walk : Walks, handle : 0..Addrs, closed : BOOLEAN, reading : BOOLEAN,
            paused : BOOLEAN, onData : BOOLEAN, drains : Nat, kept : BOOLEAN, known : BOOLEAN]
HandleStates == {"none", "connecting", "idle", "reading", "gone", "dropped", "closing", "cancelled"}
Rows == [1..Addrs -> HandleStates]
TcpDone == {"connect", "connection", "data", "close", "error"}
TcpJobs == [do : TcpDone \cup {"listen", "unlisten"}, of : Tcp!Socks \cup {"server"}, c : Nat]
TcpHistories == [sent : 0..Chunks, read : [Tcp!Socks -> 0..Chunks], heard : [Tcp!Socks -> Seq(Nat)],
                 closes : [Tcp!Socks -> Seq(Nat)], calls : 0..Calls,
                 cancelled : SUBSET (Clients \X (1..Addrs))]

TcpTyped ==
  /\ sock \in [Tcp!Socks -> Records] /\ uv \in [Tcp!Socks -> Rows]
  /\ peer \in [Tcp!Socks -> [owed : Nat, failed : BOOLEAN]]
  /\ srv \in [handle : {"none", "idle", "listening"}, closed : BOOLEAN, lost : Nat]
  /\ work \in Int /\ at \in {"tasks", "script", "poll", "drain", "closing", "returned"}
  /\ queue \in Seq(TcpJobs) /\ h \in TcpHistories
  /\ \A i \in DOMAIN queue : queue[i].do \in TcpDone => queue[i].of \in Tcp!Socks
  /\ \A s \in Tcp!Socks : h.read[s] <= h.sent

\* One socket: its record f, the row u of its handles, the addresses C whose
\* attempt close() has cancelled, and its kind. At most one handle
\* is under way, and the state of the walk says which.
UnderWay == {"connecting", "idle", "reading", "closing", "cancelled"}
Kinds == {"client", "guest"}
Sound(f, u, C, kind) ==
  /\ f.walk \in {"none", "resolving"} => \A a \in 1..Addrs : u[a] = "none"
  /\ f.handle # 0 => f.walk \in {"connecting", "open"}
  /\ \A a \in 1..Addrs :
       /\ u[a] = "connecting" => f.walk = "connecting" /\ f.handle = a
       /\ u[a] = "cancelled" => f.walk = "connecting" /\ f.handle = 0 /\ f.closed
       /\ u[a] \in {"idle", "reading"} => f.walk = "open" /\ f.handle = a
       /\ u[a] = "reading" => ~f.closed
       /\ u[a] = "closing" => f.walk = "open" /\ f.handle \in {0, a} /\ f.closed
       /\ u[a] \in {"connecting", "cancelled"} =>
            \A b \in 1..Addrs : b > a => u[b] = "none"
       /\ u[a] \in UnderWay => \A b \in 1..Addrs : u[b] \in UnderWay => b = a
       /\ u[a] \in UnderWay => f.kept \/ C # {}
       /\ a \in C => u[a] = "gone"
  /\ f.handle # 0 /\ f.walk = "connecting" => u[f.handle] = "connecting"
  /\ f.handle # 0 /\ f.walk = "open" => u[f.handle] \in {"idle", "reading", "closing", "gone"}
  /\ f.handle # 0 /\ f.walk = "open" /\ ~f.closed => u[f.handle] \in {"idle", "reading"}
  /\ f.walk \in {"resolving", "connecting"} => f.kept \/ C # {}
  /\ kind = "guest" => f.walk \in {"none", "open"} /\ f.handle \in {0, 1} /\ C = {}

\* A script that waits for its connections and asks to read before it resumes:
\* then what is to be read is read, and nothing else.
Careful == Careless \cap {"listenEarly", "resumeEarly"} = {}
Heeded(f, u) ==
  /\ f.walk = "open" /\ (f.onData \/ f.reading) /\ ~f.paused /\ ~f.closed /\ f.handle # 0 =>
       u[f.handle] = "reading"
  /\ f.walk \in {"none", "resolving", "connecting"} => ~f.onData /\ ~f.reading
  /\ \A a \in 1..Addrs : u[a] = "reading" => f.onData
Right(f, u, C, kind) == Sound(f, u, C, kind) /\ (Careful => Heeded(f, u))

\* The peer has ended the connection.
Finished(f, u) == f.walk = "open" /\ f.handle # 0 /\ u[f.handle] \in {"closing", "gone"}

Kind(s) == IF s \in Clients THEN "client" ELSE "guest"
CancelledOf(s) == {a \in 1..Addrs : <<s, a>> \in h.cancelled}
SocketsInv ==
  \A s \in Tcp!Socks : Right(sock[s], uv[s], CancelledOf(s), Kind(s))

\* The jobs of a socket: its chunks in their order, then the close.
DataOf(s) == {j \in TcpJobs : j.do = "data" /\ j.of = s}
CloseOf(s) == {j \in TcpJobs : j.do = "close" /\ j.of = s}
ChunksOf(q, s, heard, n) ==
  /\ Len(heard) <= n /\ \A k \in DOMAIN heard : heard[k] = k
  /\ Carried(q, DataOf(s), Len(heard), n)
ClosesOf(q, s, said, n) ==
  /\ \A i \in DOMAIN q : q[i] \in CloseOf(s) =>
       /\ said = <<>>
       /\ \A j \in DOMAIN q : q[j] \in CloseOf(s) => j = i
       /\ \A j \in DOMAIN q : q[j] \in DataOf(s) => j < i
  /\ said # <<>> => said = <<n>> /\ \A j \in DOMAIN q : q[j] \notin DataOf(s)
OfSocket(s) ==
  /\ ChunksOf(queue, s, h.heard[s], h.read[s])
  /\ ClosesOf(queue, s, h.closes[s], h.read[s])
  /\ h.closes[s] # <<>> \/ (\E i \in DOMAIN queue : queue[i] \in CloseOf(s)) =>
       Finished(sock[s], uv[s])
InputInv == \A s \in Tcp!Socks : OfSocket(s)

\* What a socket weighs in the counter, attempts cancelled left aside.
CountedAs(f, u, kind) ==
  kind = "client" /\ (f.walk \in {"resolving", "connecting"}
             \/ \E a \in 1..Addrs : u[a] \in {"idle", "reading", "closing"})
EndedAs(f, u, kind) == kind = "guest" /\ f.handle = 1 /\ u[1] = "gone"
Weight(f, u, kind) ==
  IF CountedAs(f, u, kind) THEN 1 ELSE IF EndedAs(f, u, kind) THEN -1 ELSE 0

\* A socket goes from f and u to g and v, and its weight changes by d.
Moved(f, u, g, v, C, kind, d) ==
  /\ g \in Records /\ v \in Rows /\ Right(g, v, C, kind)
  /\ Weight(g, v, kind) = Weight(f, u, kind) + d
  /\ Finished(f, u) => Finished(g, v)

\* The walk is between two addresses: no handle is under way, those from a on
\* are new. It ends, or goes on at k.
Between(f, u, a, C) ==
  /\ f \in Records /\ u \in Rows /\ f.handle = 0 /\ (Careful => ~f.onData /\ ~f.reading)
  /\ \A b \in 1..Addrs : u[b] \notin UnderWay /\ (b \in C => u[b] = "gone")
                         /\ (b >= a => u[b] = "none")

LEMMA WalkEnds ==
  ASSUME NetworkAssumption, NEW f, NEW u, NEW a \in 1..(Addrs + 1), NEW C \in SUBSET (1..Addrs),
         NEW kind \in Kinds, kind = "client", Between(f, u, a, C),
         NEW g \in Records, g.walk = "over", g.handle = 0
  PROVE  Right(g, u, C, kind) /\ Weight(g, u, kind) = 0
<1>2. \A b \in 1..Addrs : u[b] \notin UnderWay /\ (b \in C => u[b] = "gone")
  BY DEF Between
<1>3. Sound(g, u, C, kind)
  BY <1>2 DEF Sound, UnderWay
<1>4. Heeded(g, u)
  BY <1>2 DEF Heeded, UnderWay
<1>5. ~CountedAs(g, u, kind) /\ ~EndedAs(g, u, kind)
  BY <1>2 DEF CountedAs, EndedAs, UnderWay
<1> QED BY <1>3, <1>4, <1>5 DEF Right, Weight

LEMMA WalkGoesOn ==
  ASSUME NetworkAssumption, NEW f, NEW u, NEW a \in 1..(Addrs + 1), NEW C \in SUBSET (1..Addrs),
         NEW kind \in Kinds, kind = "client", Between(f, u, a, C), NEW k \in a..Addrs,
         NEW g \in Records, g.walk = "connecting", g.handle = k, g.kept \/ C # {},
         g.onData = f.onData, g.reading = f.reading,
         NEW v \in Rows, v[k] = "connecting",
         \A b \in 1..Addrs : b # k => v[b] = u[b] \/ (v[b] = "dropped" /\ a <= b /\ b < k)
  PROVE  Right(g, v, C, kind) /\ Weight(g, v, kind) = 1
<1>0. Addrs \in Nat /\ k \in 1..Addrs /\ a <= k
  BY DEF NetworkAssumption, Tcp!TcpAssumption
<1>2. \A b \in 1..Addrs : u[b] \notin UnderWay /\ (b \in C => u[b] = "gone")
                          /\ (b >= a => u[b] = "none")
  BY DEF Between
<1>3. \A b \in 1..Addrs : b # k => v[b] \notin UnderWay
  BY <1>2 DEF UnderWay
<1>4. \A b \in 1..Addrs : b > k => v[b] = "none"
  BY <1>0, <1>2
<1>5. \A b \in C : v[b] = "gone"
  BY <1>0, <1>2
<1>6. Sound(g, v, C, kind)
  BY <1>0, <1>3, <1>4, <1>5 DEF Sound, UnderWay
<1>7. Careful => Heeded(g, v)
  BY <1>0, <1>3 DEF Heeded, UnderWay, Between
<1>8. CountedAs(g, v, kind)
  BY DEF CountedAs
<1> QED BY <1>6, <1>7, <1>8 DEF Right, Weight

LEMMA Weighs ==
  ASSUME NEW f, NEW u, NEW kind \in Kinds, kind = "client", f.walk \in {"resolving", "connecting"}
  PROVE  Weight(f, u, kind) = 1 /\ ~Finished(f, u)
BY DEF Weight, CountedAs, Finished

LEMMA HandleOpens ==
  ASSUME NetworkAssumption, NEW f \in Records, NEW u \in Rows, NEW C \in SUBSET (1..Addrs),
         NEW kind \in Kinds, Right(f, u, C, kind),
         f.walk = "connecting", f.handle # 0, u[f.handle] = "connecting"
  PROVE  Moved(f, u, [f EXCEPT !.walk = "open"], [u EXCEPT ![f.handle] = "idle"], C, kind, 0)
<1> DEFINE g == [f EXCEPT !.walk = "open"]
           v == [u EXCEPT ![f.handle] = "idle"]
           k == f.handle
<1>0. Addrs \in Nat /\ k \in 1..Addrs
  BY DEF NetworkAssumption, Tcp!TcpAssumption, Records
<1>1. /\ g \in Records /\ g.walk = "open" /\ g.handle = k /\ g.closed = f.closed
      /\ g.kept = f.kept /\ g.onData = f.onData /\ g.reading = f.reading
  BY DEF Records, Walks
<1>2. v \in Rows /\ v[k] = "idle" /\ \A b \in 1..Addrs : b # k => v[b] = u[b]
  BY <1>0 DEF Rows, HandleStates
<1>3. Sound(f, u, C, kind) /\ u[k] = "connecting"
  BY DEF Right
<1>4. kind = "client" /\ \A b \in 1..Addrs : b # k => u[b] \notin UnderWay
  BY <1>0, <1>3 DEF Sound, UnderWay, Kinds
<1> HIDE DEF g, v, k
<1>5. Sound(g, v, C, kind)
  BY <1>0, <1>1, <1>2, <1>3, <1>4 DEF Sound, UnderWay
<1>6. Careful => Heeded(g, v)
  BY <1>0, <1>1, <1>2, <1>3, <1>4 DEF Heeded, UnderWay, Right
<1>7. CountedAs(g, v, kind) /\ CountedAs(f, u, kind) /\ ~Finished(f, u)
  BY <1>0, <1>1, <1>2, <1>4 DEF CountedAs, Finished
<1>8. Moved(f, u, g, v, C, kind, 0)
  BY <1>1, <1>2, <1>5, <1>6, <1>7 DEF Moved, Right, Weight
<1> QED BY <1>8 DEF g, v, k

\* A change of the record that nothing here asks about.
LEMMA HandleStays ==
  ASSUME NEW f \in Records, NEW u \in Rows, NEW C, NEW kind \in Kinds, Right(f, u, C, kind),
         NEW n \in Nat, NEW known \in BOOLEAN
  PROVE  Moved(f, u, [f EXCEPT !.drains = n, !.known = known], u, C, kind, 0)
<1> DEFINE g == [f EXCEPT !.drains = n, !.known = known]
<1>1. /\ g \in Records /\ g.walk = f.walk /\ g.handle = f.handle /\ g.closed = f.closed
      /\ g.reading = f.reading /\ g.paused = f.paused /\ g.onData = f.onData /\ g.kept = f.kept
  BY DEF Records
<1> HIDE DEF g
<1>2. Right(g, u, C, kind)
  BY <1>1 DEF Right, Sound, Heeded
<1>3. Weight(g, u, kind) = Weight(f, u, kind) + 0 /\ (Finished(f, u) => Finished(g, u))
  BY <1>1 DEF Weight, CountedAs, EndedAs, Finished
<1>4. Moved(f, u, g, u, C, kind, 0)
  BY <1>1, <1>2, <1>3 DEF Moved
<1> QED BY <1>4 DEF g

LEMMA ReadEnds ==
  ASSUME NetworkAssumption, NEW f \in Records, NEW u \in Rows, NEW C \in SUBSET (1..Addrs),
         NEW kind \in Kinds, Right(f, u, C, kind), f.handle # 0, u[f.handle] = "reading"
  PROVE  LET g == [f EXCEPT !.reading = FALSE, !.drains = 0, !.closed = TRUE]
             v == [u EXCEPT ![f.handle] = "closing"]
         IN  ~Finished(f, u) /\ Finished(g, v) /\ Moved(f, u, g, v, C, kind, 0)
<1> DEFINE g == [f EXCEPT !.reading = FALSE, !.drains = 0, !.closed = TRUE]
           v == [u EXCEPT ![f.handle] = "closing"]
           k == f.handle
<1>0. Addrs \in Nat /\ k \in 1..Addrs
  BY DEF NetworkAssumption, Tcp!TcpAssumption, Records
<1>1. /\ g \in Records /\ g.walk = f.walk /\ g.handle = k /\ g.closed
      /\ g.kept = f.kept /\ g.onData = f.onData /\ ~g.reading
  BY DEF Records
<1>2. v \in Rows /\ v[k] = "closing" /\ \A b \in 1..Addrs : b # k => v[b] = u[b]
  BY <1>0 DEF Rows, HandleStates
<1>3. Sound(f, u, C, kind) /\ u[k] = "reading"
  BY DEF Right
<1>4. f.walk = "open" /\ \A b \in 1..Addrs : b # k => u[b] \notin UnderWay
  BY <1>0, <1>3 DEF Sound, UnderWay
<1> HIDE DEF g, v, k
<1>5. Sound(g, v, C, kind)
  BY <1>0, <1>1, <1>2, <1>3, <1>4 DEF Sound, UnderWay
<1>6. Heeded(g, v)
  BY <1>0, <1>1, <1>2, <1>4 DEF Heeded, UnderWay
<1>7. /\ CountedAs(g, v, kind) <=> (kind = "client")
      /\ CountedAs(f, u, kind) <=> (kind = "client")
      /\ ~EndedAs(f, u, kind) /\ ~EndedAs(g, v, kind)
  BY <1>0, <1>1, <1>2, <1>3, <1>4 DEF CountedAs, EndedAs, k
<1>8. ~Finished(f, u) /\ Finished(g, v)
  BY <1>0, <1>1, <1>2, <1>3, <1>4 DEF Finished, k
<1>9. Moved(f, u, g, v, C, kind, 0)
  BY <1>1, <1>2, <1>5, <1>6, <1>7, <1>8 DEF Moved, Right, Weight
<1> QED BY <1>8, <1>9 DEF g, v, k

LEMMA HandleCloses ==
  ASSUME NetworkAssumption, NEW f \in Records, NEW u \in Rows, NEW C \in SUBSET (1..Addrs),
         NEW kind \in Kinds, Right(f, u, C, kind), NEW a \in 1..Addrs, u[a] = "closing"
  PROVE  Moved(f, u, [f EXCEPT !.kept = FALSE], [u EXCEPT ![a] = "gone"], C, kind,
               IF kind = "client" \/ f.handle # 0 THEN -1 ELSE 0)
<1> DEFINE g == [f EXCEPT !.kept = FALSE]
           v == [u EXCEPT ![a] = "gone"]
           d == IF kind = "client" \/ f.handle # 0 THEN -1 ELSE 0
<1>0. Addrs \in Nat
  BY DEF NetworkAssumption, Tcp!TcpAssumption
<1>1. /\ g \in Records /\ g.walk = f.walk /\ g.handle = f.handle /\ g.closed = f.closed
      /\ ~g.kept /\ g.onData = f.onData /\ g.reading = f.reading /\ g.handle \in 0..Addrs
  BY DEF Records
<1>2. v \in Rows /\ v[a] = "gone" /\ \A b \in 1..Addrs : b # a => v[b] = u[b]
  BY DEF Rows, HandleStates
<1>3. Sound(f, u, C, kind)
  BY DEF Right
<1>4. /\ f.walk = "open" /\ f.closed /\ f.handle \in {0, a}
      /\ \A b \in 1..Addrs : v[b] \notin UnderWay
  BY <1>2, <1>3 DEF Sound, UnderWay
<1>5. f.handle = a \/ f.handle = 0
  BY <1>4
<1>6. \A b \in C : v[b] = "gone"
  BY <1>2, <1>3 DEF Sound
<1>7. kind = "guest" => f.handle \in {0, 1} /\ C = {}
  BY <1>3 DEF Sound
<1> HIDE DEF g, v, d
<1>8. Sound(g, v, C, kind)
  BY <1>0, <1>1, <1>2, <1>4, <1>5, <1>6, <1>7 DEF Sound, UnderWay
<1>9. Heeded(g, v)
  BY <1>1, <1>4 DEF Heeded, UnderWay
<1>10. ~CountedAs(g, v, kind)
  BY <1>1, <1>4 DEF CountedAs, UnderWay
<1>11. /\ CountedAs(f, u, kind) <=> (kind = "client")
       /\ ~EndedAs(f, u, kind)
       /\ EndedAs(g, v, kind) <=> (kind = "guest") /\ f.handle # 0
  BY <1>1, <1>2, <1>4, <1>5, <1>7 DEF CountedAs, EndedAs
<1>12. Weight(g, v, kind) = Weight(f, u, kind) + d
  BY <1>10, <1>11 DEF Weight, d, Kinds
<1>13. Finished(f, u) => Finished(g, v)
  BY <1>1, <1>2, <1>4, <1>5 DEF Finished
<1>14. Moved(f, u, g, v, C, kind, d)
  BY <1>1, <1>2, <1>8, <1>9, <1>12, <1>13 DEF Moved, Right
<1> QED BY <1>14 DEF g, v, d

LEMMA HandleDrops ==
  ASSUME NetworkAssumption, NEW f \in Records, NEW u \in Rows, NEW C \in SUBSET (1..Addrs),
         NEW kind \in Kinds, Right(f, u, C, kind), NEW a \in 1..Addrs, u[a] = "dropped"
  PROVE  Moved(f, u, f, [u EXCEPT ![a] = "gone"], C, kind, 0)
<1> DEFINE v == [u EXCEPT ![a] = "gone"]
<1>0. Addrs \in Nat /\ f.handle \in 0..Addrs
  BY DEF NetworkAssumption, Tcp!TcpAssumption, Records
<1>2. v \in Rows /\ v[a] = "gone" /\ \A b \in 1..Addrs : b # a => v[b] = u[b]
  BY DEF Rows, HandleStates
<1>3. Sound(f, u, C, kind)
  BY DEF Right
<1>4. f.walk \notin {"none", "resolving"} /\ (f.handle # 0 => f.handle # a)
  BY <1>3 DEF Sound
<1>5. \A b \in 1..Addrs : v[b] \in UnderWay => v[b] = u[b]
  BY <1>2 DEF UnderWay
<1>6. \A b \in 1..Addrs : u[b] \in UnderWay => v[b] = u[b] /\ b # a
  BY <1>2 DEF UnderWay
<1>7. f.handle # 0 => v[f.handle] = u[f.handle]
  BY <1>0, <1>2, <1>4
<1>8. \A b \in C : v[b] = "gone"
  BY <1>2, <1>3 DEF Sound
<1> HIDE DEF v
<1>9. \A b \in 1..Addrs : u[b] \in {"connecting", "cancelled"} => 
        \A c \in 1..Addrs : c > b => v[c] = "none"
  BY <1>2, <1>3 DEF Sound
<1>10. Sound(f, v, C, kind)
  BY <1>2, <1>3, <1>4, <1>5, <1>7, <1>8, <1>9 DEF Sound, UnderWay
<1>11. Careful => Heeded(f, v)
  BY <1>2, <1>5, <1>7, <1>0 DEF Heeded, UnderWay, Right
<1>12. CountedAs(f, v, kind) <=> CountedAs(f, u, kind)
  BY <1>5, <1>6 DEF CountedAs, UnderWay
<1>13. EndedAs(f, v, kind) <=> EndedAs(f, u, kind)
  BY <1>0, <1>7 DEF EndedAs
<1>14. Finished(f, v) <=> Finished(f, u)
  BY <1>7 DEF Finished
<1>15. Moved(f, u, f, v, C, kind, 0)
  BY <1>2, <1>10, <1>11, <1>12, <1>13, <1>14 DEF Moved, Right, Weight
<1> QED BY <1>15 DEF v

\* connect(), and a connection that is accepted.
LEMMA FreshIs ==
  ASSUME NetworkAssumption
  PROVE  /\ Tcp!Fresh \in Records /\ ~Tcp!Fresh.closed /\ ~Tcp!Fresh.onData /\ ~Tcp!Fresh.reading
         /\ Tcp!Fresh.walk = "none" /\ Tcp!Fresh.handle = 0 /\ ~Tcp!Fresh.kept
<1>1. PICK none \in Walks : none = "none"
  BY DEF Walks
<1>2. PICK z \in 0..Addrs : z = 0
  BY DEF NetworkAssumption, Tcp!TcpAssumption
<1>3. PICK n \in Nat : n = 0
  OBVIOUS
<1>4. Tcp!Fresh = [walk |-> none, handle |-> z, closed |-> FALSE, reading |-> FALSE, paused |-> FALSE,
                   onData |-> FALSE, drains |-> n, kept |-> FALSE, known |-> FALSE]
  BY <1>1, <1>2, <1>3 DEF Tcp!Fresh
<1> QED BY <1>1, <1>2, <1>3, <1>4 DEF Records

LEMMA WalkBegins ==
  ASSUME NetworkAssumption, NEW f \in Records, NEW u \in Rows, NEW C, NEW kind \in Kinds,
         Right(f, u, C, kind), kind = "client", f.walk = "none",
         NEW g \in Records, g.walk \in {"resolving", "over"}, g.handle = 0, ~g.onData, ~g.reading,
         g.walk = "resolving" => g.kept
  PROVE  /\ g.walk = "resolving" => Moved(f, u, g, u, C, kind, 1)
         /\ g.walk = "over" => Moved(f, u, g, u, C, kind, 0)
<1>1. \A b \in 1..Addrs : u[b] = "none"
  BY DEF Right, Sound
<1>2. C \cap (1..Addrs) = {}
  BY <1>1 DEF Right, Sound
<1>3. Right(g, u, C, kind)
  BY <1>1, <1>2 DEF Right, Sound, Heeded, UnderWay
<1>4. ~CountedAs(f, u, kind) /\ ~EndedAs(f, u, kind) /\ ~EndedAs(g, u, kind) /\ ~Finished(f, u)
  BY <1>1 DEF CountedAs, EndedAs, Finished
<1>5. ASSUME g.walk = "resolving"
      PROVE  Moved(f, u, g, u, C, kind, 1)
  <2>1. CountedAs(g, u, kind)
    BY <1>5 DEF CountedAs
  <2>2. Weight(f, u, kind) = 0
    BY <1>4 DEF Weight
  <2>3. Weight(g, u, kind) = 1
    BY <2>1 DEF Weight
  <2>4. Weight(g, u, kind) = Weight(f, u, kind) + 1
    BY <2>2, <2>3
  <2> QED BY <1>3, <1>4, <2>4 DEF Moved
<1>6. ASSUME g.walk = "over"
      PROVE  Moved(f, u, g, u, C, kind, 0)
  <2>1. ~CountedAs(g, u, kind)
    BY <1>1, <1>6 DEF CountedAs
  <2> QED BY <1>3, <1>4, <2>1 DEF Moved, Weight
<1> QED BY <1>5, <1>6

LEMMA GuestOpens ==
  ASSUME NetworkAssumption, NEW f \in Records, NEW u \in Rows, NEW C, NEW kind \in Kinds,
         Right(f, u, C, kind), kind = "guest", f.walk = "none",
         NEW g \in Records, g.walk = "open", g.handle = 1, ~g.closed, g.kept, ~g.onData, ~g.reading,
         NEW v, v = [u EXCEPT ![1] = "idle"]
  PROVE  Moved(f, u, g, v, C, kind, 0)
<1>0. 1 \in 1..Addrs
  BY DEF NetworkAssumption, Tcp!TcpAssumption
<1>2. C = {} /\ \A b \in 1..Addrs : u[b] = "none"
  BY DEF Right, Sound
<1>3. v \in Rows /\ v[1] = "idle" /\ \A b \in 1..Addrs : b # 1 => v[b] = "none"
  BY <1>0, <1>2 DEF Rows, HandleStates
<1>4. Right(g, v, C, kind)
  BY <1>0, <1>2, <1>3 DEF Right, Sound, Heeded, UnderWay
<1>5. /\ ~CountedAs(g, v, kind) /\ ~CountedAs(f, u, kind) /\ ~EndedAs(g, v, kind)
      /\ ~EndedAs(f, u, kind) /\ ~Finished(f, u)
  BY <1>0, <1>2, <1>3 DEF CountedAs, EndedAs, Finished
<1>6. Weight(g, v, kind) = Weight(f, u, kind) + 0
  BY <1>5 DEF Weight
<1> QED BY <1>3, <1>4, <1>5, <1>6 DEF Moved

\* A handle that is neither closed nor closing starts and stops reading, or does
\* neither; the record changes along.
LEMMA HandleReads ==
  ASSUME NetworkAssumption, NEW f \in Records, NEW u \in Rows, NEW C \in SUBSET (1..Addrs),
         NEW kind \in Kinds, Right(f, u, C, kind), f.handle # 0, ~f.closed,
         NEW g \in Records, g.walk = f.walk, g.handle = f.handle, g.closed = f.closed, g.kept = f.kept,
         NEW v, \/ v = u
                \/ u[f.handle] \in {"idle", "reading"}
                   /\ (v = [u EXCEPT ![f.handle] = "idle"] \/ v = [u EXCEPT ![f.handle] = "reading"]),
         Careful => Heeded(g, v)
  PROVE  Moved(f, u, g, v, C, kind, 0)
<1> DEFINE k == f.handle
<1>0. Addrs \in Nat /\ k \in 1..Addrs
  BY DEF NetworkAssumption, Tcp!TcpAssumption, Records
<1>2. /\ v \in Rows /\ \A b \in 1..Addrs : b # k => v[b] = u[b]
      /\ \/ v[k] = u[k]
         \/ u[k] \in {"idle", "reading"} /\ v[k] \in {"idle", "reading"}
  BY <1>0 DEF Rows, HandleStates
<1>3. Sound(f, u, C, kind)
  BY DEF Right
<1> HIDE DEF k
<1>4. Sound(g, v, C, kind)
  <2>1. CASE v[k] = u[k]
    <3>1. \A b \in 1..Addrs : v[b] = u[b]
      BY <1>2, <2>1
    <3>2. v[f.handle] = u[f.handle]
      BY <2>1 DEF k
    <3> QED BY <1>3, <3>1, <3>2 DEF Sound
  <2>2. CASE u[k] \in {"idle", "reading"} /\ v[k] \in {"idle", "reading"}
    <3>1. f.walk = "open" /\ \A b \in 1..Addrs : b # k => v[b] \notin UnderWay
      BY <1>0, <1>2, <1>3, <2>2 DEF Sound, UnderWay
    <3>2. (f.kept \/ C # {}) /\ \A b \in C : v[b] = "gone"
      BY <1>0, <1>2, <1>3, <2>2 DEF Sound, UnderWay
    <3>3. kind = "guest" => f.handle \in {0, 1} /\ C = {}
      BY <1>3 DEF Sound
    <3> QED BY <1>0, <1>2, <2>2, <3>1, <3>2, <3>3 DEF Sound, UnderWay, k
  <2> QED BY <1>2, <2>1, <2>2
<1>5. CountedAs(g, v, kind) <=> CountedAs(f, u, kind)
  BY <1>0, <1>2 DEF CountedAs
<1>6. EndedAs(g, v, kind) <=> EndedAs(f, u, kind)
  BY <1>0, <1>2 DEF EndedAs, k
<1>7. Finished(f, u) => Finished(g, v)
  BY <1>0, <1>2 DEF Finished, k
<1> QED BY <1>2, <1>4, <1>5, <1>6, <1>7 DEF Moved, Right, Weight

\* close() of the script: the handle closes, or the attempt is cancelled.
LEMMA ScriptCloses ==
  ASSUME NetworkAssumption, NEW f \in Records, NEW u \in Rows, NEW C \in SUBSET (1..Addrs),
         NEW kind \in Kinds, Right(f, u, C, kind), f.handle # 0, ~f.closed,
         NEW v, v = [u EXCEPT ![f.handle] = IF u[f.handle] = "connecting" THEN "cancelled" ELSE "closing"]
  PROVE  Moved(f, u, [f EXCEPT !.closed = TRUE, !.handle = 0], v, C, kind, 0)
<1> DEFINE g == [f EXCEPT !.closed = TRUE, !.handle = 0]
           k == f.handle
<1>0. Addrs \in Nat /\ k \in 1..Addrs
  BY DEF NetworkAssumption, Tcp!TcpAssumption, Records
<1>1. /\ g \in Records /\ g.walk = f.walk /\ g.handle = 0 /\ g.closed
      /\ g.kept = f.kept /\ g.onData = f.onData /\ g.reading = f.reading
  <2>1. PICK z \in 0..Addrs : z = 0
    BY <1>0
  <2>2. g = [f EXCEPT !.closed = TRUE, !.handle = z]
    BY <2>1
  <2> HIDE DEF g
  <2> QED BY <2>1, <2>2 DEF Records
<1>2. /\ v \in Rows /\ \A b \in 1..Addrs : b # k => v[b] = u[b]
      /\ v[k] = IF u[k] = "connecting" THEN "cancelled" ELSE "closing"
  BY <1>0 DEF Rows, HandleStates
<1>3. Sound(f, u, C, kind)
  BY DEF Right
<1>4. /\ \/ f.walk = "connecting" /\ u[k] = "connecting" /\ v[k] = "cancelled"
         \/ f.walk = "open" /\ u[k] \in {"idle", "reading"} /\ v[k] = "closing"
      /\ \A b \in 1..Addrs : b # k => u[b] \notin UnderWay
      /\ f.kept \/ C # {}
      /\ \A b \in C : b # k
  BY <1>0, <1>2, <1>3 DEF Sound, UnderWay
<1>5. u[k] = "connecting" => \A b \in 1..Addrs : b > k => v[b] = "none"
  BY <1>0, <1>2, <1>3 DEF Sound
<1>6. \A b \in C : v[b] = "gone"
  BY <1>2, <1>3, <1>4 DEF Sound
<1>7. kind = "guest" => f.walk \in {"none", "open"} /\ C = {}
  BY <1>3 DEF Sound
<1> HIDE DEF g, k
<1>8. Sound(g, v, C, kind)
  BY <1>0, <1>1, <1>2, <1>4, <1>5, <1>6, <1>7 DEF Sound, UnderWay
<1>9. Careful => Heeded(g, v)
  BY <1>0, <1>1, <1>2, <1>4 DEF Heeded, UnderWay, Right
<1>10. CountedAs(g, v, kind) <=> CountedAs(f, u, kind)
  BY <1>0, <1>1, <1>2, <1>4 DEF CountedAs
<1>11. ~EndedAs(g, v, kind) /\ ~EndedAs(f, u, kind) /\ ~Finished(f, u)
  BY <1>0, <1>1, <1>2, <1>4 DEF EndedAs, Finished, k
<1>12. Moved(f, u, g, v, C, kind, 0)
  BY <1>1, <1>2, <1>8, <1>9, <1>10, <1>11 DEF Moved, Right, Weight
<1> QED BY <1>12 DEF g, k

\* close() of a socket that is closed already, or has no handle.
LEMMA ClosesTwice ==
  ASSUME NetworkAssumption, NEW f \in Records, NEW u \in Rows, NEW C \in SUBSET (1..Addrs),
         NEW kind \in Kinds, Right(f, u, C, kind), f.closed \/ f.handle = 0,
         NEW g, g = [f EXCEPT !.closed = TRUE]
  PROVE  Moved(f, u, g, u, C, kind, 0)
<1>1. /\ g \in Records /\ g.walk = f.walk /\ g.handle = f.handle /\ g.closed
      /\ g.kept = f.kept /\ g.onData = f.onData /\ g.reading = f.reading
  BY DEF Records
<1>2. Sound(f, u, C, kind)
  BY DEF Right
<1>3. \A b \in 1..Addrs : u[b] = "reading" => FALSE
  BY <1>2 DEF Sound
<1>4. Sound(g, u, C, kind)
  BY <1>1, <1>2, <1>3 DEF Sound
<1>5. Careful => Heeded(g, u)
  BY <1>1, <1>3 DEF Heeded, Right
<1>6. Weight(g, u, kind) = Weight(f, u, kind) + 0 /\ (Finished(f, u) => Finished(g, u))
  BY <1>1 DEF Weight, CountedAs, EndedAs, Finished
<1> QED BY <1>1, <1>4, <1>5, <1>6 DEF Moved, Right

-----------------------------------------------------------------------------
\* One socket moves, the others stay.
\* The instance has names of its own for the operators of FiniteSets.
LEMMA SameCardinality == \A S : Tcp!Cardinality(S) = Cardinality(S)
BY Zenon DEF Tcp!Cardinality, Cardinality

LEMMA SameFinite == \A S : Tcp!IsFiniteSet(S) <=> IsFiniteSet(S)
BY Zenon DEF Tcp!IsFiniteSet, IsFiniteSet

LEMMA OneMore ==
  ASSUME NEW S, IsFiniteSet(S), NEW A \in SUBSET S, NEW B \in SUBSET S, NEW s \in S,
         \A t \in S : t # s => (t \in A <=> t \in B)
  PROVE  /\ Cardinality(A) \in Nat /\ Cardinality(B) \in Nat
         /\ (s \in A <=> s \in B) => Cardinality(B) = Cardinality(A)
         /\ s \notin A /\ s \in B => Cardinality(B) = Cardinality(A) + 1
         /\ s \in A /\ s \notin B => Cardinality(B) = Cardinality(A) - 1
<1>1. IsFiniteSet(A) /\ IsFiniteSet(B)
  BY FS_Subset
<1>2. Cardinality(A) \in Nat /\ Cardinality(B) \in Nat
  BY <1>1, FS_CardinalityType
<1>3. ASSUME s \in A <=> s \in B
      PROVE  Cardinality(B) = Cardinality(A)
  <2>1. A = B BY <1>3
  <2> QED BY <2>1
<1>4. ASSUME s \notin A, s \in B
      PROVE  Cardinality(B) = Cardinality(A) + 1
  <2>1. B = A \cup {s} BY <1>4
  <2> QED BY <1>1, <1>4, <2>1, FS_AddElement
<1>5. ASSUME s \in A, s \notin B
      PROVE  Cardinality(B) = Cardinality(A) - 1
  <2>1. A = B \cup {s} BY <1>5
  <2>2. Cardinality(A) = Cardinality(B) + 1
    BY <1>1, <1>5, <2>1, FS_AddElement
  <2> QED BY <1>2, <2>2
<1> QED BY <1>2, <1>3, <1>4, <1>5

LEMMA KindsAreTwo ==
  ASSUME NetworkAssumption, NEW s \in Tcp!Socks
  PROVE  /\ Kind(s) \in Kinds /\ (Kind(s) = "client" <=> s \in Clients)
         /\ Kind(s) = "guest" <=> s \in Guests
         /\ Tcp!Counted(s) <=> CountedAs(sock[s], uv[s], Kind(s))
         /\ Tcp!EndedByPeer(s) <=> EndedAs(sock[s], uv[s], Kind(s))
<1>1. /\ Kind(s) \in Kinds /\ (Kind(s) = "client" <=> s \in Clients)
      /\ Kind(s) = "guest" <=> s \in Guests
  BY DEF Kind, Kinds, Tcp!Socks, NetworkAssumption, Tcp!TcpAssumption
<1> QED BY <1>1 DEF Tcp!Counted, Tcp!EndedByPeer, CountedAs, EndedAs

LEMMA WorkMoves ==
  ASSUME NetworkAssumption, Tcp!WorkMatches, NEW s \in Tcp!Socks, NEW d \in {-1, 0, 1},
         \A t \in Tcp!Socks : t # s => sock'[t] = sock[t] /\ uv'[t] = uv[t],
         Weight(sock'[s], uv'[s], Kind(s)) = Weight(sock[s], uv[s], Kind(s)) + d,
         h.cancelled \subseteq Clients \X (1..Addrs),
         \/ h'.cancelled = h.cancelled /\ work' = work + d
         \/ \E a \in 1..Addrs : /\ <<s, a>> \notin h.cancelled /\ work' = work + d - 1
                                /\ h'.cancelled = h.cancelled \cup {<<s, a>>}
  PROVE  Tcp!WorkMatches'
<1> DEFINE A == {t \in Tcp!Socks : Tcp!Counted(t)}
           B == {t \in Tcp!Socks : Tcp!EndedByPeer(t)}
           A2 == {t \in Tcp!Socks : Tcp!Counted(t)'}
           B2 == {t \in Tcp!Socks : Tcp!EndedByPeer(t)'}
<1>0. IsFiniteSet(Tcp!Socks) /\ IsFiniteSet(Clients) /\ Addrs \in Nat
  <2>1. IsFiniteSet(Tcp!Socks) /\ Addrs \in Nat /\ Clients \subseteq Tcp!Socks
    <3>1. Tcp!TcpAssumption
      BY DEF NetworkAssumption
    <3>2. IsFiniteSet(Clients \cup Guests) /\ Addrs \in Nat
      BY <3>1, SameFinite DEF Tcp!TcpAssumption
    <3> QED BY <3>2 DEF Tcp!Socks
  <2> QED BY <2>1, FS_Subset
<1>1. \A t \in Tcp!Socks : /\ Tcp!Counted(t) <=> CountedAs(sock[t], uv[t], Kind(t))
                           /\ Tcp!EndedByPeer(t) <=> EndedAs(sock[t], uv[t], Kind(t))
                           /\ Tcp!Counted(t)' <=> CountedAs(sock'[t], uv'[t], Kind(t))
                           /\ Tcp!EndedByPeer(t)' <=> EndedAs(sock'[t], uv'[t], Kind(t))
  <2>1. ASSUME NEW t \in Tcp!Socks
        PROVE  /\ Tcp!Counted(t)' <=> CountedAs(sock'[t], uv'[t], Kind(t))
               /\ Tcp!EndedByPeer(t)' <=> EndedAs(sock'[t], uv'[t], Kind(t))
    BY KindsAreTwo DEF Tcp!Counted, Tcp!EndedByPeer, CountedAs, EndedAs
  <2> QED BY <2>1, KindsAreTwo
<1>2. \A t \in Tcp!Socks : t # s => (t \in A <=> t \in A2) /\ (t \in B <=> t \in B2)
  BY <1>1
<1>3. /\ A \in SUBSET Tcp!Socks /\ A2 \in SUBSET Tcp!Socks
      /\ B \in SUBSET Tcp!Socks /\ B2 \in SUBSET Tcp!Socks
  OBVIOUS
<1>4. /\ s \in A <=> CountedAs(sock[s], uv[s], Kind(s))
      /\ s \in B <=> EndedAs(sock[s], uv[s], Kind(s))
      /\ s \in A2 <=> CountedAs(sock'[s], uv'[s], Kind(s))
      /\ s \in B2 <=> EndedAs(sock'[s], uv'[s], Kind(s))
  BY <1>1
<1>5. work = Cardinality(A) - Cardinality(B) - Cardinality(h.cancelled)
  BY SameCardinality DEF Tcp!WorkMatches
<1>6. (work' = Cardinality(A2) - Cardinality(B2) - Cardinality(h'.cancelled)) => Tcp!WorkMatches'
  BY SameCardinality DEF Tcp!WorkMatches
<1> HIDE DEF A, B, A2, B2
<1>7. Cardinality(A2) - Cardinality(B2) = Cardinality(A) - Cardinality(B) + d
      /\ Cardinality(A) \in Nat /\ Cardinality(B) \in Nat
      /\ Cardinality(A2) \in Nat /\ Cardinality(B2) \in Nat
  <2>1. /\ Cardinality(A) \in Nat /\ Cardinality(A2) \in Nat
        /\ (s \in A <=> s \in A2) => Cardinality(A2) = Cardinality(A)
        /\ s \notin A /\ s \in A2 => Cardinality(A2) = Cardinality(A) + 1
        /\ s \in A /\ s \notin A2 => Cardinality(A2) = Cardinality(A) - 1
    BY <1>0, <1>2, <1>3, OneMore
  <2>2. /\ Cardinality(B) \in Nat /\ Cardinality(B2) \in Nat
        /\ (s \in B <=> s \in B2) => Cardinality(B2) = Cardinality(B)
        /\ s \notin B /\ s \in B2 => Cardinality(B2) = Cardinality(B) + 1
        /\ s \in B /\ s \notin B2 => Cardinality(B2) = Cardinality(B) - 1
    BY <1>0, <1>2, <1>3, OneMore
  <2>3. CASE Kind(s) = "client"
    <3>1. s \notin B /\ s \notin B2
      BY <1>4, <2>3 DEF EndedAs
    <3>2. /\ Weight(sock[s], uv[s], Kind(s)) = IF s \in A THEN 1 ELSE 0
          /\ Weight(sock'[s], uv'[s], Kind(s)) = IF s \in A2 THEN 1 ELSE 0
      BY <1>4, <3>1 DEF Weight
    <3>3. (IF s \in A2 THEN 1 ELSE 0) = (IF s \in A THEN 1 ELSE 0) + d
      BY <3>2
    <3> QED BY <2>1, <2>2, <3>1, <3>3
  <2>4. CASE Kind(s) # "client"
    <3>1. s \notin A /\ s \notin A2
      BY <1>4, <2>4 DEF CountedAs
    <3>2. /\ Weight(sock[s], uv[s], Kind(s)) = IF s \in B THEN -1 ELSE 0
          /\ Weight(sock'[s], uv'[s], Kind(s)) = IF s \in B2 THEN -1 ELSE 0
      BY <1>4, <3>1 DEF Weight
    <3>3. (IF s \in B2 THEN -1 ELSE 0) = (IF s \in B THEN -1 ELSE 0) + d
      BY <3>2
    <3> QED BY <2>1, <2>2, <3>1, <3>3
  <2> QED BY <2>3, <2>4
<1>8. IsFiniteSet(h.cancelled) /\ Cardinality(h.cancelled) \in Nat
  <2>1. IsFiniteSet(Clients \X (1..Addrs))
    <3>1. 1 \in Int /\ Addrs \in Int
      BY <1>0
    <3>2. IsFiniteSet(1..Addrs)
      BY <3>1, FS_Interval
    <3> QED BY <1>0, <3>2, FS_Product
  <2>2. IsFiniteSet(h.cancelled)
    BY <2>1, FS_Subset
  <2> QED BY <2>2, FS_CardinalityType
<1>9. CASE h'.cancelled = h.cancelled /\ work' = work + d
  BY <1>5, <1>6, <1>7, <1>8, <1>9
<1>10. CASE \E a \in 1..Addrs : /\ <<s, a>> \notin h.cancelled /\ work' = work + d - 1
                                /\ h'.cancelled = h.cancelled \cup {<<s, a>>}
  <2>1. Cardinality(h'.cancelled) = Cardinality(h.cancelled) + 1 /\ work' = work + d - 1
    BY <1>8, <1>10, FS_AddElement
  <2> QED BY <1>5, <1>6, <1>7, <1>8, <2>1
<1> QED BY <1>9, <1>10

\* What a step leaves of the sockets.
SocketsKept ==
  /\ sock' \in [Tcp!Socks -> Records] /\ uv' \in [Tcp!Socks -> Rows] /\ work' \in Int
  /\ SocketsInv' /\ Tcp!WorkMatches'
  /\ \A t \in Tcp!Socks : Finished(sock[t], uv[t]) => Finished(sock'[t], uv'[t])

LEMMA SocketIs ==
  ASSUME NetworkAssumption, TcpTyped, SocketsInv, NEW s \in Tcp!Socks
  PROVE  /\ sock[s] \in Records /\ uv[s] \in Rows /\ CancelledOf(s) \in SUBSET (1..Addrs)
         /\ Kind(s) \in Kinds /\ (Kind(s) = "client" <=> s \in Clients)
         /\ (Kind(s) = "guest" <=> s \in Guests)
         /\ Right(sock[s], uv[s], CancelledOf(s), Kind(s)) /\ Tcp!Of(s) = uv[s][sock[s].handle]
         /\ sock[s].handle \in 0..Addrs /\ Addrs \in Nat
         /\ work \in Int /\ h.cancelled \subseteq Clients \X (1..Addrs) /\ h \in TcpHistories
<1>1. sock[s] \in Records /\ uv[s] \in Rows /\ work \in Int /\ h \in TcpHistories
  BY DEF TcpTyped
<1>2. h.cancelled \subseteq Clients \X (1..Addrs)
  BY <1>1 DEF TcpHistories
<1>3. sock[s].handle \in 0..Addrs
  BY <1>1 DEF Records
<1>4. Addrs \in Nat
  BY DEF NetworkAssumption, Tcp!TcpAssumption
<1> QED BY <1>1, <1>2, <1>3, <1>4, KindsAreTwo DEF SocketsInv, CancelledOf, Tcp!Of

LEMMA SocketMoves ==
  ASSUME NetworkAssumption, TcpTyped, SocketsInv, Tcp!WorkMatches, NEW s \in Tcp!Socks,
         NEW g, NEW v, NEW d \in {-1, 0, 1},
         sock' = [sock EXCEPT ![s] = g], uv' = [uv EXCEPT ![s] = v],
         Moved(sock[s], uv[s], g, v, CancelledOf(s)', Kind(s), d),
         \/ h'.cancelled = h.cancelled /\ work' = work + d
         \/ \E a \in 1..Addrs : /\ <<s, a>> \notin h.cancelled /\ work' = work + d - 1
                                /\ h'.cancelled = h.cancelled \cup {<<s, a>>}
  PROVE  SocketsKept
<1>1. g \in Records /\ v \in Rows
  BY DEF Moved
<1>2. sock \in [Tcp!Socks -> Records] /\ uv \in [Tcp!Socks -> Rows]
  BY DEF TcpTyped
<1>3. sock' \in [Tcp!Socks -> Records] /\ uv' \in [Tcp!Socks -> Rows]
  BY <1>1, <1>2
<1>4. sock'[s] = g /\ uv'[s] = v /\ \A t \in Tcp!Socks : t # s => sock'[t] = sock[t] /\ uv'[t] = uv[t]
  BY <1>2
<1>5. Weight(sock'[s], uv'[s], Kind(s)) = Weight(sock[s], uv[s], Kind(s)) + d
  BY <1>4 DEF Moved
<1>6. work \in Int /\ h.cancelled \subseteq Clients \X (1..Addrs)
  BY SocketIs
<1>7. Tcp!WorkMatches'
  BY <1>4, <1>5, <1>6, WorkMoves
<1>8. work' \in Int
  <2>1. work' = work + d \/ work' = work + d - 1
    OBVIOUS
  <2>2. d \in Int
    OBVIOUS
  <2> QED BY <1>6, <2>1, <2>2
<1>9. \A t \in Tcp!Socks : Finished(sock[t], uv[t]) => Finished(sock'[t], uv'[t])
  BY <1>4 DEF Moved
<1>10. \A t \in Tcp!Socks : t # s => CancelledOf(t)' = CancelledOf(t)
  BY DEF CancelledOf
<1>11. SocketsInv'
  <2>1. ASSUME NEW t \in Tcp!Socks
        PROVE  Right(sock'[t], uv'[t], CancelledOf(t)', Kind(t))
    <3>1. CASE t = s
      BY <1>4, <3>1 DEF Moved
    <3>2. CASE t # s
      BY <1>4, <1>10, <3>2 DEF SocketsInv
    <3> QED BY <3>1, <3>2
  <2> QED BY <2>1 DEF SocketsInv
<1> QED BY <1>3, <1>7, <1>8, <1>9, <1>11 DEF SocketsKept

LEMMA SocketSteps ==
  ASSUME NetworkAssumption, TcpTyped, SocketsInv, Tcp!WorkMatches, NEW s \in Tcp!Socks,
         NEW g, NEW v, NEW d \in {-1, 0, 1},
         sock' = [sock EXCEPT ![s] = g], uv' = [uv EXCEPT ![s] = v],
         Moved(sock[s], uv[s], g, v, CancelledOf(s), Kind(s), d),
         h'.cancelled = h.cancelled, work' = work + d
  PROVE  SocketsKept
<1>1. CancelledOf(s)' = CancelledOf(s)
  BY DEF CancelledOf
<1>2. Moved(sock[s], uv[s], g, v, CancelledOf(s)', Kind(s), d)
  BY <1>1
<1> QED BY <1>2, SocketMoves

\* The same, when the record or the handles alone change, or nothing does.
LEMMA SocketsRest ==
  ASSUME NetworkAssumption, TcpTyped, SocketsInv, Tcp!WorkMatches, UNCHANGED <<sock, uv, work>>,
         h'.cancelled = h.cancelled
  PROVE  SocketsKept
<1>1. \A t \in Tcp!Socks : CancelledOf(t)' = CancelledOf(t)
  BY DEF CancelledOf
<1>2. SocketsInv'
  BY <1>1 DEF SocketsInv
<1>3. Tcp!WorkMatches'
  BY DEF Tcp!WorkMatches, Tcp!Counted, Tcp!EndedByPeer
<1>4. sock \in [Tcp!Socks -> Records] /\ uv \in [Tcp!Socks -> Rows] /\ work \in Int
  BY DEF TcpTyped
<1> QED BY <1>2, <1>3, <1>4 DEF SocketsKept

\* The script and the tasks touch what nothing here asks about.
LEMMA SocketTouched ==
  ASSUME NetworkAssumption, TcpTyped, SocketsInv, Tcp!WorkMatches, NEW s \in Tcp!Socks,
         NEW n \in Nat, NEW known \in BOOLEAN,
         sock' = [sock EXCEPT ![s].drains = n, ![s].known = known],
         UNCHANGED <<uv, work>>, h'.cancelled = h.cancelled
  PROVE  SocketsKept
<1> DEFINE g == [sock[s] EXCEPT !.drains = n, !.known = known]
           v == uv[s]
<1>1. Moved(sock[s], uv[s], g, v, CancelledOf(s), Kind(s), 0)
  BY SocketIs, HandleStays
<1>2. sock \in [Tcp!Socks -> Records] /\ uv \in [Tcp!Socks -> Rows]
  BY DEF TcpTyped
<1>3. sock' = [sock EXCEPT ![s] = g]
  BY <1>2
<1>4. uv' = [uv EXCEPT ![s] = v]
  BY <1>2
<1>5. work' = work + 0
  BY SocketIs
<1> HIDE DEF g, v
<1> QED BY <1>1, <1>3, <1>4, <1>5, SocketSteps

\* The address walk.
LEMMA AttemptKeeps ==
  ASSUME NetworkAssumption, TcpTyped, SocketsInv, Tcp!WorkMatches, NEW s \in Tcp!Socks,
         s \in Clients, NEW a \in 1..(Addrs + 1), NEW f, NEW row, NEW uvs,
         uvs = [uv EXCEPT ![s] = row], Between(f, row, a, CancelledOf(s)),
         f.kept \/ CancelledOf(s) # {}, sock[s].walk \in {"resolving", "connecting"},
         Tcp!TryNextAddress(s, a, f, uvs), h'.cancelled = h.cancelled
  PROVE  SocketsKept
<1>0. /\ uv \in [Tcp!Socks -> Rows] /\ f \in Records /\ row \in Rows /\ Kind(s) = "client"
      /\ Kind(s) \in Kinds /\ work \in Int /\ CancelledOf(s) \in SUBSET (1..Addrs) /\ Addrs \in Nat
  BY SocketIs DEF TcpTyped, Between
<1>1. Weight(sock[s], uv[s], Kind(s)) = 1 /\ ~Finished(sock[s], uv[s])
  BY <1>0, Weighs
<1>2. uvs[s] = row
  BY <1>0
<1>3. CASE Tcp!Exhausted(s, f) /\ uv' = uvs
  <2> DEFINE g == [f EXCEPT !.walk = "over", !.kept = FALSE]
  <2>1. /\ sock' = [sock EXCEPT ![s] = g] /\ uv' = [uv EXCEPT ![s] = row] /\ work' = work - 1
    BY <1>3 DEF Tcp!Exhausted, Tcp!Lost
  <2>5. g \in Records /\ g.walk = "over" /\ g.handle = 0
    <3>1. PICK w \in Walks : w = "over"
      BY DEF Walks
    <3>2. g = [f EXCEPT !.walk = w, !.kept = FALSE]
      BY <3>1
    <3> HIDE DEF g
    <3> QED BY <1>0, <3>1, <3>2 DEF Records, Between
  <2> HIDE DEF g
  <2>2. Right(g, row, CancelledOf(s), Kind(s)) /\ Weight(g, row, Kind(s)) = 0
    BY <1>0, <2>5, WalkEnds
  <2>3. Moved(sock[s], uv[s], g, row, CancelledOf(s), Kind(s), -1)
    BY <1>0, <1>1, <2>2, <2>5 DEF Moved
  <2>4. work' = work + (-1) /\ -1 \in {-1, 0, 1}
    BY <1>0, <2>1
  <2> QED BY <2>1, <2>3, <2>4, SocketSteps
<1>4. CASE ~(Tcp!Exhausted(s, f) /\ uv' = uvs)
  <2>1. PICK k \in a..Addrs :
          /\ \E gone \in BOOLEAN : sock' = [sock EXCEPT ![s] =
               [f EXCEPT !.walk = "connecting", !.handle = k, !.closed = gone]]
          /\ uv' = [uvs EXCEPT ![s] = [i \in 1..Addrs |-> IF i = k THEN "connecting"
                                     ELSE IF i \in a..(k - 1) THEN "dropped" ELSE uvs[s][i]]]
          /\ work' = work
    <3>1. f.closed \in BOOLEAN
      BY <1>0 DEF Records
    <3> QED BY <1>4, <3>1 DEF Tcp!TryNextAddress
  <2>2. PICK gone \in BOOLEAN : sock' = [sock EXCEPT ![s] =
               [f EXCEPT !.walk = "connecting", !.handle = k, !.closed = gone]]
    BY <2>1
  <2> DEFINE g == [f EXCEPT !.walk = "connecting", !.handle = k, !.closed = gone]
             v == [i \in 1..Addrs |-> IF i = k THEN "connecting"
                     ELSE IF i \in a..(k - 1) THEN "dropped" ELSE row[i]]
  <2>3. uv' = [uv EXCEPT ![s] = v]
    BY <1>0, <1>2, <2>1
  <2>4. k \in 1..Addrs /\ k \in a..Addrs /\ gone \in BOOLEAN
    BY <1>0, <2>1, <2>2
  <2>5. /\ v \in Rows /\ v[k] = "connecting"
        /\ \A b \in 1..Addrs : b # k => v[b] = row[b] \/ (v[b] = "dropped" /\ a <= b /\ b < k)
    BY <1>0, <2>4 DEF Rows, HandleStates
  <2>6. /\ g \in Records /\ g.walk = "connecting" /\ g.handle = k
        /\ g.onData = f.onData /\ g.reading = f.reading /\ g.kept = f.kept
    <3>1. PICK w \in Walks : w = "connecting"
      BY DEF Walks
    <3>2. PICK j \in 0..Addrs : j = k
      BY <1>0, <2>4
    <3>3. g = [f EXCEPT !.walk = w, !.handle = j, !.closed = gone]
      BY <3>1, <3>2
    <3> HIDE DEF g
    <3> QED BY <1>0, <2>4, <3>1, <3>2, <3>3 DEF Records
  <2>8. sock' = [sock EXCEPT ![s] = g]
    BY <2>2
  <2> HIDE DEF g, v
  <2>7. g.kept \/ CancelledOf(s) # {}
    BY <2>6
  <2>9. Right(g, v, CancelledOf(s), Kind(s)) /\ Weight(g, v, Kind(s)) = 1
    BY <1>0, <2>4, <2>5, <2>6, <2>7, WalkGoesOn
  <2>10. Moved(sock[s], uv[s], g, v, CancelledOf(s), Kind(s), 0)
    BY <1>1, <2>5, <2>6, <2>9 DEF Moved
  <2>11. work' = work + 0
    BY <1>0, <2>1
  <2> QED BY <2>3, <2>8, <2>10, <2>11, SocketSteps
<1> QED BY <1>3, <1>4

LEMMA ResolvedKeeps ==
  ASSUME NetworkAssumption, TcpTyped, SocketsInv, Tcp!WorkMatches, NEW s \in Tcp!Socks,
         Tcp!Resolved(s)
  PROVE  SocketsKept
<1>1. sock[s].walk = "resolving" /\ Tcp!TryNextAddress(s, 1, sock[s], uv) /\ h' = h
  BY DEF Tcp!Resolved
<1>2. Right(sock[s], uv[s], CancelledOf(s), Kind(s)) /\ sock[s] \in Records /\ uv[s] \in Rows
  BY SocketIs
<1>3. /\ \A b \in 1..Addrs : uv[s][b] = "none"
      /\ sock[s].handle = 0 /\ (sock[s].kept \/ CancelledOf(s) # {})
      /\ s \in Clients /\ (Careful => ~sock[s].onData /\ ~sock[s].reading)
  BY <1>1, <1>2, SocketIs DEF Right, Sound, Heeded, Kinds
<1>4. Between(sock[s], uv[s], 1, CancelledOf(s))
  BY <1>2, <1>3 DEF Between, UnderWay, Right, Sound
<1>5. uv = [uv EXCEPT ![s] = uv[s]] /\ 1 \in 1..(Addrs + 1)
  BY SocketIs DEF TcpTyped
<1> QED BY <1>1, <1>3, <1>4, <1>5, AttemptKeeps

LEMMA RefusedKeeps ==
  ASSUME NetworkAssumption, TcpTyped, SocketsInv, Tcp!WorkMatches, NEW s \in Tcp!Socks,
         Tcp!Refused(s)
  PROVE  SocketsKept
<1> DEFINE k == sock[s].handle
           f == [sock[s] EXCEPT !.handle = 0, !.closed = FALSE]
           row == [uv[s] EXCEPT ![k] = "dropped"]
           uvs == [uv EXCEPT ![s] = row]
<1>1. /\ sock[s].walk = "connecting" /\ k # 0 /\ uv[s][k] = "connecting" /\ h' = h
      /\ Tcp!TryNextAddress(s, k + 1, f, [uv EXCEPT ![s][k] = "dropped"])
  BY DEF Tcp!Refused, Tcp!Of
<1>2. /\ Right(sock[s], uv[s], CancelledOf(s), Kind(s)) /\ sock[s] \in Records /\ uv[s] \in Rows
      /\ k \in 1..Addrs /\ Addrs \in Nat /\ k + 1 \in 1..(Addrs + 1)
  BY <1>1, SocketIs
<1>3. /\ \A b \in 1..Addrs : b # k => uv[s][b] \notin UnderWay
      /\ \A b \in 1..Addrs : b > k => uv[s][b] = "none"
      /\ \A b \in CancelledOf(s) : b # k /\ uv[s][b] = "gone"
      /\ sock[s].kept \/ CancelledOf(s) # {}
      /\ s \in Clients /\ (Careful => ~sock[s].onData /\ ~sock[s].reading)
  <2>1. s \in Clients
    BY <1>1, <1>2, SocketIs DEF Right, Sound, Kinds
  <2>2. Sound(sock[s], uv[s], CancelledOf(s), Kind(s)) /\ CancelledOf(s) \subseteq 1..Addrs
    BY <1>2, SocketIs DEF Right
  <2>3. Careful => ~sock[s].onData /\ ~sock[s].reading
    BY <1>1, <1>2 DEF Right, Heeded
  <2> HIDE DEF k
  <2> QED BY <1>1, <1>2, <2>1, <2>2, <2>3 DEF Sound, UnderWay
<1>4. /\ f \in Records /\ f.handle = 0 /\ f.onData = sock[s].onData /\ f.reading = sock[s].reading
      /\ f.kept = sock[s].kept
  <2>1. PICK z \in 0..Addrs : z = 0
    BY <1>2
  <2>2. f = [sock[s] EXCEPT !.handle = z, !.closed = FALSE]
    BY <2>1
  <2> HIDE DEF f
  <2> QED BY <1>2, <2>1, <2>2 DEF Records
<1>5. /\ row \in Rows /\ row[k] = "dropped" /\ \A b \in 1..Addrs : b # k => row[b] = uv[s][b]
  BY <1>2 DEF Rows, HandleStates
<1>6. Tcp!TryNextAddress(s, k + 1, f, uvs)
  BY <1>1
<1>7. uvs = [uv EXCEPT ![s] = row]
  OBVIOUS
<1> HIDE DEF f, row, uvs, k
<1>8. Between(f, row, k + 1, CancelledOf(s))
  <2>1. \A b \in 1..Addrs : row[b] \notin UnderWay
    BY <1>2, <1>3, <1>5 DEF UnderWay
  <2>2. \A b \in 1..Addrs : b \in CancelledOf(s) => row[b] = "gone"
    BY <1>3, <1>5
  <2>3. \A b \in 1..Addrs : b >= k + 1 => row[b] = "none"
    <3>1. \A b \in 1..Addrs : b >= k + 1 => b > k /\ b # k
      BY <1>2
    <3> QED BY <1>3, <1>5, <3>1
  <2> QED BY <1>3, <1>4, <1>5, <2>1, <2>2, <2>3 DEF Between
<1> QED BY <1>1, <1>2, <1>3, <1>4, <1>6, <1>7, <1>8, AttemptKeeps

\* Callbacks of uv_run.
LEMMA ConnectedKeeps ==
  ASSUME NetworkAssumption, TcpTyped, SocketsInv, Tcp!WorkMatches, NEW s \in Tcp!Socks,
         Tcp!Connected(s)
  PROVE  SocketsKept
<1> DEFINE g == [sock[s] EXCEPT !.walk = "open"]
           v == [uv[s] EXCEPT ![sock[s].handle] = "idle"]
<1>1. /\ sock[s].walk = "connecting" /\ sock[s].handle # 0 /\ uv[s][sock[s].handle] = "connecting"
      /\ sock' = [sock EXCEPT ![s] = g] /\ uv' = [uv EXCEPT ![s] = v] /\ work' = work /\ h' = h
  BY DEF Tcp!Connected, Tcp!Of, Tcp!SetUv
<1>2. Moved(sock[s], uv[s], g, v, CancelledOf(s), Kind(s), 0)
  BY <1>1, SocketIs, HandleOpens
<1>3. work' = work + 0
  BY <1>1, SocketIs
<1> HIDE DEF g, v
<1> QED BY <1>1, <1>2, <1>3, SocketSteps

LEMMA AcceptKeeps ==
  ASSUME NetworkAssumption, TcpTyped, SocketsInv, Tcp!WorkMatches, NEW s \in Tcp!Socks,
         Tcp!Accept(s)
  PROVE  SocketsKept
<1> DEFINE g == [Tcp!Fresh EXCEPT !.walk = "open", !.handle = 1, !.kept = TRUE]
           v == [uv[s] EXCEPT ![1] = "idle"]
<1>1. /\ s \in Guests /\ sock[s].walk = "none"
      /\ sock' = [sock EXCEPT ![s] = g] /\ uv' = [uv EXCEPT ![s] = v] /\ work' = work /\ h' = h
  BY DEF Tcp!Accept
<1>2. /\ g \in Records /\ g.walk = "open" /\ g.handle = 1 /\ ~g.closed /\ g.kept
      /\ ~g.onData /\ ~g.reading
  <2>1. PICK w \in Walks : w = "open"
    BY DEF Walks
  <2>2. PICK k \in 0..Addrs : k = 1
    BY DEF NetworkAssumption, Tcp!TcpAssumption
  <2>3. g = [Tcp!Fresh EXCEPT !.walk = w, !.handle = k, !.kept = TRUE]
    BY <2>1, <2>2
  <2> HIDE DEF g
  <2> QED BY <2>1, <2>2, <2>3, FreshIs DEF Records
<1> HIDE DEF g
<1>3. Moved(sock[s], uv[s], g, v, CancelledOf(s), Kind(s), 0)
  BY <1>1, <1>2, SocketIs, GuestOpens
<1>4. work' = work + 0
  BY <1>1, SocketIs
<1> HIDE DEF v
<1> QED BY <1>1, <1>3, <1>4, SocketSteps

LEMMA EndOfReadKeeps ==
  ASSUME NetworkAssumption, TcpTyped, SocketsInv, Tcp!WorkMatches, NEW s \in Tcp!Socks,
         Tcp!EndOfRead(s)
  PROVE  SocketsKept /\ ~Finished(sock[s], uv[s]) /\ Finished(sock'[s], uv'[s])
<1> DEFINE g == [sock[s] EXCEPT !.reading = FALSE, !.drains = 0, !.closed = TRUE]
           v == [uv[s] EXCEPT ![sock[s].handle] = "closing"]
<1>0. sock \in [Tcp!Socks -> Records] /\ uv \in [Tcp!Socks -> Rows]
  BY DEF TcpTyped
<1>1. /\ sock[s].handle # 0 /\ uv[s][sock[s].handle] = "reading"
      /\ sock' = [sock EXCEPT ![s] = g] /\ uv' = [uv EXCEPT ![s] = v] /\ work' = work /\ h' = h
  BY DEF Tcp!EndOfRead, Tcp!Of, Tcp!SetUv
<1>2. /\ Moved(sock[s], uv[s], g, v, CancelledOf(s), Kind(s), 0)
      /\ ~Finished(sock[s], uv[s]) /\ Finished(g, v)
  BY <1>1, SocketIs, ReadEnds
<1>3. work' = work + 0
  BY <1>1, SocketIs
<1> HIDE DEF g, v
<1>4. sock'[s] = g /\ uv'[s] = v
  BY <1>0, <1>1
<1> QED BY <1>1, <1>2, <1>3, <1>4, SocketSteps

LEMMA WroteKeeps ==
  ASSUME NetworkAssumption, TcpTyped, SocketsInv, Tcp!WorkMatches, NEW s \in Tcp!Socks,
         Tcp!Wrote(s) \/ Tcp!WriteFailed(s)
  PROVE  SocketsKept
<1>1. UNCHANGED <<uv, work, h>> /\ (sock' = sock \/ sock' = [sock EXCEPT ![s].drains = 0])
  BY DEF Tcp!Wrote, Tcp!WriteFailed
<1>2. CASE sock' = sock
  BY <1>1, <1>2, SocketsRest
<1>3. CASE sock' = [sock EXCEPT ![s].drains = 0]
  <2>1. PICK n \in Nat : n = 0
    OBVIOUS
  <2>2. PICK known \in BOOLEAN : known = sock[s].known
    BY SocketIs DEF Records
  <2>3. sock \in [Tcp!Socks -> Records]
    BY DEF TcpTyped
  <2>4. [sock[s] EXCEPT !.drains = 0] = [sock[s] EXCEPT !.drains = n, !.known = known]
    BY <2>1, <2>2, SocketIs DEF Records
  <2>5. sock' = [sock EXCEPT ![s].drains = n, ![s].known = known]
    BY <1>3, <2>3, <2>4
  <2> QED BY <1>1, <2>5, SocketTouched
<1> QED BY <1>1, <1>2, <1>3

LEMMA ClosedKeeps ==
  ASSUME NetworkAssumption, TcpTyped, SocketsInv, Tcp!WorkMatches, NEW s \in Tcp!Socks,
         NEW a \in 1..Addrs, Tcp!Closed(s, a) \/ Tcp!Dropped(s, a)
  PROVE  SocketsKept
<1> DEFINE v == [uv[s] EXCEPT ![a] = "gone"]
<1>0. sock \in [Tcp!Socks -> Records]
  BY DEF TcpTyped
<1>1. CASE Tcp!Closed(s, a)
  <2> DEFINE g == [sock[s] EXCEPT !.kept = FALSE]
             d == IF Kind(s) = "client" \/ sock[s].handle # 0 THEN -1 ELSE 0
  <2>1. /\ uv[s][a] = "closing" /\ uv' = [uv EXCEPT ![s] = v] /\ sock' = [sock EXCEPT ![s] = g]
        /\ work' = (IF s \in Clients \/ sock[s].handle # 0 THEN work - 1 ELSE work) /\ h' = h
    BY <1>1 DEF Tcp!Closed
  <2>2. Moved(sock[s], uv[s], g, v, CancelledOf(s), Kind(s), d)
    BY <2>1, SocketIs, HandleCloses
  <2>3. d \in {-1, 0, 1} /\ work' = work + d
    <3>1. CASE s \in Clients \/ sock[s].handle # 0
      <4>1. d = -1 /\ work' = work - 1
        BY <2>1, <3>1, SocketIs
      <4> HIDE DEF d
      <4> QED BY <4>1, SocketIs
    <3>2. CASE ~(s \in Clients \/ sock[s].handle # 0)
      <4>1. d = 0 /\ work' = work
        BY <2>1, <3>2, SocketIs
      <4> HIDE DEF d
      <4> QED BY <4>1, SocketIs
    <3> QED BY <3>1, <3>2
  <2> HIDE DEF g, v, d
  <2> QED BY <2>1, <2>2, <2>3, SocketSteps
<1>2. CASE Tcp!Dropped(s, a)
  <2> DEFINE g == sock[s]
  <2>1. /\ uv[s][a] = "dropped" /\ uv' = [uv EXCEPT ![s] = v] /\ sock' = sock /\ UNCHANGED <<work, h>>
    BY <1>2 DEF Tcp!Dropped
  <2>2. Moved(sock[s], uv[s], g, v, CancelledOf(s), Kind(s), 0)
    BY <2>1, SocketIs, HandleDrops
  <2>3. sock' = [sock EXCEPT ![s] = g] /\ work' = work + 0
    BY <1>0, <2>1, SocketIs
  <2> HIDE DEF g, v
  <2> QED BY <2>1, <2>2, <2>3, SocketSteps
<1> QED BY <1>1, <1>2

\* close() while connecting: the walk ends, or goes on at a later address.
LEMMA CancelledKeeps ==
  ASSUME NetworkAssumption, TcpTyped, SocketsInv, Tcp!WorkMatches, NEW s \in Tcp!Socks,
         NEW a \in 1..Addrs, Tcp!Cancelled(s, a)
  PROVE  SocketsKept
<1> DEFINE f == sock[s]
           C == CancelledOf(s)
           row == [uv[s] EXCEPT ![a] = "gone"]
<1>0. /\ uv[s][a] = "cancelled" /\ h' = [h EXCEPT !.cancelled = @ \cup {<<s, a>>}]
      /\ sock \in [Tcp!Socks -> Records] /\ uv \in [Tcp!Socks -> Rows]
  BY DEF Tcp!Cancelled, TcpTyped
<1>1. h'.cancelled = h.cancelled \cup {<<s, a>>}
  BY <1>0, SocketIs DEF TcpHistories
<1>2. C' = C \cup {a}
  BY <1>1 DEF CancelledOf
<1>3. /\ f \in Records /\ uv[s] \in Rows /\ Kind(s) \in Kinds /\ Addrs \in Nat /\ work \in Int
      /\ C \in SUBSET (1..Addrs) /\ Sound(f, uv[s], C, Kind(s)) /\ (Careful => Heeded(f, uv[s]))
  BY SocketIs DEF Right
<1>4. /\ f.walk = "connecting" /\ f.handle = 0 /\ Kind(s) = "client" /\ a \notin C
      /\ \A b \in 1..Addrs : b # a => uv[s][b] \notin UnderWay
      /\ \A b \in 1..Addrs : b > a => uv[s][b] = "none"
      /\ \A b \in C : uv[s][b] = "gone"
  BY <1>0, <1>3 DEF Sound, UnderWay, Kinds
<1>5. <<s, a>> \notin h.cancelled
  BY <1>4 DEF CancelledOf
<1>6. Weight(f, uv[s], Kind(s)) = 1 /\ ~Finished(f, uv[s])
  BY <1>3, <1>4, Weighs
<1>7. row \in Rows /\ row[a] = "gone" /\ \A b \in 1..Addrs : b # a => row[b] = uv[s][b]
  BY <1>3 DEF Rows, HandleStates
<1> HIDE DEF row
<1>8. Between(f, row, a + 1, C')
  <2>1. \A b \in 1..Addrs : row[b] \notin UnderWay
    BY <1>4, <1>7 DEF UnderWay
  <2>2. \A b \in 1..Addrs : b \in C' => row[b] = "gone"
    BY <1>2, <1>4, <1>7
  <2>3. \A b \in 1..Addrs : b >= a + 1 => row[b] = "none"
    <3>1. \A b \in 1..Addrs : b >= a + 1 => b > a /\ b # a
      OBVIOUS
    <3> QED BY <1>4, <1>7, <3>1
  <2>4. Careful => ~f.onData /\ ~f.reading
    BY <1>3, <1>4 DEF Heeded
  <2> QED BY <1>3, <1>4, <1>7, <2>1, <2>2, <2>3, <2>4 DEF Between
<1>9. a + 1 \in 1..(Addrs + 1) /\ C' \in SUBSET (1..Addrs) /\ C' # {}
  BY <1>2, <1>3
<1>10. CASE /\ sock' = [sock EXCEPT ![s] = Tcp!Lost(@)]
            /\ uv' = [uv EXCEPT ![s][a] = "gone"] /\ work' = work - 2
  <2> DEFINE g == [sock[s] EXCEPT !.walk = "over", !.kept = FALSE]
  <2>1. sock' = [sock EXCEPT ![s] = g] /\ uv' = [uv EXCEPT ![s] = row]
    BY <1>10 DEF Tcp!Lost, row
  <2>5. g \in Records /\ g.walk = "over" /\ g.handle = 0
    <3>1. PICK w \in Walks : w = "over"
      BY DEF Walks
    <3>2. g = [f EXCEPT !.walk = w, !.kept = FALSE]
      BY <3>1
    <3> HIDE DEF g
    <3> QED BY <1>3, <1>4, <3>1, <3>2 DEF Records
  <2> HIDE DEF g
  <2>2. Right(g, row, C', Kind(s)) /\ Weight(g, row, Kind(s)) = 0
    BY <1>3, <1>4, <1>8, <1>9, <2>5, WalkEnds
  <2>3. Moved(f, uv[s], g, row, C', Kind(s), -1)
    BY <1>6, <1>7, <2>2, <2>5 DEF Moved
  <2>4. work' = work + (-1) - 1 /\ -1 \in {-1, 0, 1}
    BY <1>3, <1>10
  <2> QED BY <1>1, <1>5, <2>1, <2>3, <2>4, SocketMoves
<1>11. CASE \E k \in (a + 1)..Addrs :
          /\ sock' = [sock EXCEPT ![s].walk = "connecting", ![s].handle = k, ![s].kept = FALSE,
                                  ![s].closed = (k = a + 1)]
          /\ uv' = [uv EXCEPT ![s][a] = "gone", ![s][k] = "connecting"]
          /\ work' = work - 1
  <2>1. PICK k \in (a + 1)..Addrs : \E closed \in BOOLEAN :
          /\ sock' = [sock EXCEPT ![s].walk = "connecting", ![s].handle = k, ![s].kept = FALSE,
                                  ![s].closed = closed]
          /\ uv' = [uv EXCEPT ![s][a] = "gone", ![s][k] = "connecting"]
          /\ work' = work - 1
    BY <1>11
  <2>2. PICK closed \in BOOLEAN :
          /\ sock' = [sock EXCEPT ![s].walk = "connecting", ![s].handle = k, ![s].kept = FALSE,
                                  ![s].closed = closed]
          /\ uv' = [uv EXCEPT ![s][a] = "gone", ![s][k] = "connecting"]
          /\ work' = work - 1
    BY <2>1
  <2> DEFINE g == [sock[s] EXCEPT !.walk = "connecting", !.handle = k, !.kept = FALSE, !.closed = closed]
             v == [row EXCEPT ![k] = "connecting"]
  <2>3. k \in 1..Addrs /\ k \in (a + 1)..Addrs /\ closed \in BOOLEAN /\ k # a
    BY <1>3, <2>1, <2>2
  <2>4. sock' = [sock EXCEPT ![s] = g]
    BY <1>0, <2>2
  <2>5. uv' = [uv EXCEPT ![s] = v]
    BY <1>0, <2>2 DEF row
  <2>6. /\ v \in Rows /\ v[k] = "connecting"
        /\ \A b \in 1..Addrs : b # k => v[b] = row[b]
    BY <1>7, <2>3 DEF Rows, HandleStates
  <2>7. /\ g \in Records /\ g.walk = "connecting" /\ g.handle = k
        /\ g.onData = f.onData /\ g.reading = f.reading
    <3>1. PICK w \in Walks : w = "connecting"
      BY DEF Walks
    <3>2. PICK j \in 0..Addrs : j = k
      BY <1>3, <2>3
    <3>3. g = [f EXCEPT !.walk = w, !.handle = j, !.kept = FALSE, !.closed = closed]
      BY <3>1, <3>2
    <3> HIDE DEF g
    <3> QED BY <1>3, <2>3, <3>1, <3>2, <3>3 DEF Records
  <2> HIDE DEF g, v
  <2>8. Right(g, v, C', Kind(s)) /\ Weight(g, v, Kind(s)) = 1
    BY <1>3, <1>4, <1>8, <1>9, <2>3, <2>6, <2>7, WalkGoesOn
  <2>9. Moved(f, uv[s], g, v, C', Kind(s), 0)
    BY <1>6, <2>6, <2>7, <2>8 DEF Moved
  <2>10. work' = work + 0 - 1
    BY <1>3, <2>2
  <2> QED BY <1>1, <1>5, <2>4, <2>5, <2>9, <2>10, SocketMoves
<1> QED BY <1>10, <1>11 DEF Tcp!Cancelled

\* The script.
LEMMA ConnectKeeps ==
  ASSUME NetworkAssumption, TcpTyped, SocketsInv, Tcp!WorkMatches, NEW s \in Tcp!Socks,
         Tcp!Connect(s)
  PROVE  SocketsKept
<1> DEFINE g1 == [Tcp!Fresh EXCEPT !.walk = "resolving", !.kept = TRUE, !.known = TRUE]
           g2 == [Tcp!Fresh EXCEPT !.walk = "over", !.known = TRUE]
           v == uv[s]
<1>1. /\ s \in Clients /\ sock[s].walk = "none" /\ uv' = uv /\ h' = [h EXCEPT !.calls = @ + 1]
      /\ \/ sock' = [sock EXCEPT ![s] = g1] /\ work' = work + 1
         \/ sock' = [sock EXCEPT ![s] = g2] /\ work' = work
  BY DEF Tcp!Connect, Tcp!Call
<1>2. /\ g1 \in Records /\ g1.walk = "resolving" /\ g1.handle = 0 /\ g1.kept
      /\ ~g1.onData /\ ~g1.reading
  <2>1. PICK w \in Walks : w = "resolving"
    BY DEF Walks
  <2>2. g1 = [Tcp!Fresh EXCEPT !.walk = w, !.kept = TRUE, !.known = TRUE]
    BY <2>1
  <2> HIDE DEF g1
  <2> QED BY <2>1, <2>2, FreshIs DEF Records
<1>3. /\ g2 \in Records /\ g2.walk = "over" /\ g2.handle = 0 /\ ~g2.onData /\ ~g2.reading
  <2>1. PICK w \in Walks : w = "over"
    BY DEF Walks
  <2>2. g2 = [Tcp!Fresh EXCEPT !.walk = w, !.known = TRUE]
    BY <2>1
  <2> HIDE DEF g2
  <2> QED BY <2>1, <2>2, FreshIs DEF Records
<1>4. h'.cancelled = h.cancelled /\ uv' = [uv EXCEPT ![s] = v]
  BY <1>1, SocketIs DEF TcpHistories, TcpTyped
<1>5. Kind(s) = "client" /\ Kind(s) \in Kinds
  BY <1>1, SocketIs
<1> HIDE DEF g1, g2
<1>6. Moved(sock[s], v, g1, v, CancelledOf(s), Kind(s), 1)
  BY <1>1, <1>2, <1>5, SocketIs, WalkBegins
<1>7. Moved(sock[s], v, g2, v, CancelledOf(s), Kind(s), 0)
  BY <1>1, <1>3, <1>5, SocketIs, WalkBegins
<1>8. work' = work => work' = work + 0
  BY SocketIs
<1>9. CASE sock' = [sock EXCEPT ![s] = g1] /\ work' = work + 1
  BY <1>4, <1>6, <1>9, SocketSteps
<1>10. CASE sock' = [sock EXCEPT ![s] = g2] /\ work' = work
  BY <1>4, <1>7, <1>8, <1>10, SocketSteps
<1> QED BY <1>1, <1>9, <1>10

LEMMA CloseScriptKeeps ==
  ASSUME NetworkAssumption, TcpTyped, SocketsInv, Tcp!WorkMatches, NEW s \in Tcp!Socks,
         Tcp!Close(s)
  PROVE  SocketsKept
<1>0. /\ h' = [h EXCEPT !.calls = @ + 1] /\ work' = work
      /\ sock \in [Tcp!Socks -> Records] /\ uv \in [Tcp!Socks -> Rows]
  BY DEF Tcp!Close, Tcp!Call, TcpTyped
<1>1. h'.cancelled = h.cancelled /\ work' = work + 0
  BY <1>0, SocketIs DEF TcpHistories
<1>2. CASE Tcp!Alive(s)
  <2> DEFINE g == [sock[s] EXCEPT !.closed = TRUE, !.handle = 0]
             v == [uv[s] EXCEPT ![sock[s].handle] =
                     IF uv[s][sock[s].handle] = "connecting" THEN "cancelled" ELSE "closing"]
  <2>1. /\ sock' = [sock EXCEPT ![s] = g] /\ uv' = [uv EXCEPT ![s] = v]
        /\ sock[s].handle # 0 /\ ~sock[s].closed
    BY <1>0, <1>2 DEF Tcp!Close, Tcp!Alive, Tcp!SetUv, Tcp!Of
  <2>2. Moved(sock[s], uv[s], g, v, CancelledOf(s), Kind(s), 0)
    BY <2>1, SocketIs, ScriptCloses
  <2> HIDE DEF g, v
  <2> QED BY <1>1, <2>1, <2>2, SocketSteps
<1>3. CASE ~Tcp!Alive(s)
  <2> DEFINE g == [sock[s] EXCEPT !.closed = TRUE]
             v == uv[s]
  <2>1. /\ sock' = [sock EXCEPT ![s] = g] /\ uv' = [uv EXCEPT ![s] = v]
        /\ sock[s].handle = 0 \/ sock[s].closed
    BY <1>0, <1>3 DEF Tcp!Close, Tcp!Alive
  <2>2. Moved(sock[s], uv[s], g, v, CancelledOf(s), Kind(s), 0)
    BY <2>1, SocketIs, ClosesTwice
  <2> HIDE DEF g, v
  <2> QED BY <1>1, <2>1, <2>2, SocketSteps
<1> QED BY <1>2, <1>3

\* Only the record changes, in what the script asks of it.
LEMMA RecordReads ==
  ASSUME NEW f \in Records, NEW u \in Rows, NEW C, NEW kind \in Kinds, Right(f, u, C, kind),
         NEW g \in Records, g.walk = f.walk, g.handle = f.handle, g.closed = f.closed, g.kept = f.kept,
         Careful => Heeded(g, u)
  PROVE  Moved(f, u, g, u, C, kind, 0)
<1>1. Right(g, u, C, kind)
  BY DEF Right, Sound
<1>2. Weight(g, u, kind) = Weight(f, u, kind) + 0 /\ (Finished(f, u) => Finished(g, u))
  BY DEF Weight, CountedAs, EndedAs, Finished
<1> QED BY <1>1, <1>2 DEF Moved

LEMMA OnDataKeeps ==
  ASSUME NetworkAssumption, TcpTyped, SocketsInv, Tcp!WorkMatches, NEW s \in Tcp!Socks,
         Tcp!OnData(s)
  PROVE  SocketsKept
<1> DEFINE f == sock[s]
           u == uv[s]
           k == sock[s].handle
           C == CancelledOf(s)
<1>0. /\ h' = [h EXCEPT !.calls = @ + 1] /\ work' = work /\ f.walk # "none"
      /\ (Careful => f.walk \notin {"resolving", "connecting"})
      /\ Tcp!StartReading(s, [f EXCEPT !.onData = TRUE])
      /\ sock \in [Tcp!Socks -> Records] /\ uv \in [Tcp!Socks -> Rows]
  BY DEF Tcp!OnData, Tcp!Call, TcpTyped, Tcp!Met, Tcp!Waits, Careful
<1>1. h'.cancelled = h.cancelled /\ work' = work + 0
  BY <1>0, SocketIs DEF TcpHistories
<1>2. /\ f \in Records /\ u \in Rows /\ C \in SUBSET (1..Addrs) /\ Kind(s) \in Kinds
      /\ Right(f, u, C, Kind(s)) /\ Tcp!Of(s) = u[k] /\ k \in 0..Addrs /\ Addrs \in Nat
      /\ Sound(f, u, C, Kind(s)) /\ (Careful => Heeded(f, u))
  BY SocketIs DEF Right
<1>3. CASE Tcp!Ready(s) /\ ~f.paused
  <2> DEFINE g == [f EXCEPT !.onData = TRUE, !.reading = TRUE]
             v == IF u[k] = "idle" THEN [u EXCEPT ![k] = "reading"] ELSE u
  <2>1. /\ sock' = [sock EXCEPT ![s] = g] /\ uv' = [uv EXCEPT ![s] = v]
        /\ k # 0 /\ ~f.closed /\ u[k] \in {"connecting", "idle"}
    <3>1. [f EXCEPT !.onData = TRUE].paused = f.paused
      BY <1>2 DEF Records
    <3>2. /\ sock' = [sock EXCEPT ![s] = g]
          /\ IF u[k] = "idle" THEN uv' = [uv EXCEPT ![s][k] = "reading"] ELSE uv' = uv
      BY <1>0, <1>2, <1>3, <3>1 DEF Tcp!StartReading, Tcp!SetUv
    <3>3. uv' = [uv EXCEPT ![s] = v]
      BY <1>0, <3>2
    <3> QED BY <1>2, <1>3, <3>2, <3>3 DEF Tcp!Ready
  <2>2. /\ g \in Records /\ g.walk = f.walk /\ g.handle = k /\ g.closed = f.closed /\ g.kept = f.kept
        /\ g.onData /\ g.paused = f.paused
    BY <1>2 DEF Records
  <2>3. v = u \/ (u[k] = "idle" /\ v = [u EXCEPT ![k] = "reading"])
    OBVIOUS
  <2>4. k \in 1..Addrs
    BY <1>2, <2>1
  <2>5. u[k] = "idle" => v[k] = "reading" /\ \A b \in 1..Addrs : b # k => v[b] = u[b]
    BY <1>2, <2>4 DEF Rows
  <2> HIDE DEF g, v
  <2>6. Careful => Heeded(g, v)
    <3>1. Careful => u[k] = "idle"
      BY <1>0, <1>2, <2>1, <2>4 DEF Sound
    <3> QED BY <1>0, <2>2, <2>5, <3>1 DEF Heeded
  <2>7. Moved(f, u, g, v, C, Kind(s), 0)
    BY <1>2, <2>1, <2>2, <2>3, <2>6, HandleReads
  <2> QED BY <1>1, <2>1, <2>7, SocketSteps
<1>4. CASE ~(Tcp!Ready(s) /\ ~f.paused)
  <2> DEFINE g == [f EXCEPT !.onData = TRUE]
             v == u
  <2>1. sock' = [sock EXCEPT ![s] = g] /\ uv' = [uv EXCEPT ![s] = v]
    <3>1. [f EXCEPT !.onData = TRUE].paused = f.paused
      BY <1>2 DEF Records
    <3> QED BY <1>0, <1>4, <3>1 DEF Tcp!StartReading
  <2>2. /\ g \in Records /\ g.walk = f.walk /\ g.handle = k /\ g.closed = f.closed /\ g.kept = f.kept
        /\ g.onData /\ g.paused = f.paused /\ g.reading = f.reading
    BY <1>2 DEF Records
  <2> HIDE DEF g
  <2>3. Careful => Heeded(g, u)
    <3>1. ASSUME Careful, g.walk = "open", ~g.paused, ~g.closed, g.handle # 0
          PROVE  u[k] = "reading"
      <4>1. u[k] \in {"idle", "reading"}
        BY <1>2, <2>2, <3>1 DEF Sound
      <4>2. f.reading \/ u[k] \notin {"connecting", "idle"}
        BY <1>2, <1>4, <2>2, <3>1 DEF Tcp!Ready
      <4> QED BY <1>2, <2>2, <3>1, <4>1, <4>2 DEF Heeded
    <3> QED BY <1>0, <2>2, <3>1 DEF Heeded
  <2>4. Moved(f, u, g, u, C, Kind(s), 0)
    BY <1>2, <2>2, <2>3, RecordReads
  <2> QED BY <1>1, <2>1, <2>4, SocketSteps
<1> QED BY <1>3, <1>4

LEMMA PauseKeeps ==
  ASSUME NetworkAssumption, TcpTyped, SocketsInv, Tcp!WorkMatches, NEW s \in Tcp!Socks,
         Tcp!Pause(s) \/ Tcp!Resume(s)
  PROVE  SocketsKept
<1> DEFINE f == sock[s]
           u == uv[s]
           k == sock[s].handle
           C == CancelledOf(s)
<1>0. /\ h' = [h EXCEPT !.calls = @ + 1] /\ work' = work /\ k # 0 /\ ~f.closed
      /\ sock \in [Tcp!Socks -> Records] /\ uv \in [Tcp!Socks -> Rows]
  BY DEF Tcp!Pause, Tcp!Resume, Tcp!Call, TcpTyped, Tcp!Alive
<1>1. h'.cancelled = h.cancelled /\ work' = work + 0
  BY <1>0, SocketIs DEF TcpHistories
<1>2. /\ f \in Records /\ u \in Rows /\ C \in SUBSET (1..Addrs) /\ Kind(s) \in Kinds
      /\ Right(f, u, C, Kind(s)) /\ Tcp!Of(s) = u[k] /\ k \in 0..Addrs /\ Addrs \in Nat
      /\ Sound(f, u, C, Kind(s)) /\ (Careful => Heeded(f, u))
  BY SocketIs DEF Right
<1>3. k \in 1..Addrs
  BY <1>0, <1>2
<1>4. CASE Tcp!Pause(s)
  <2> DEFINE g == [f EXCEPT !.paused = TRUE]
             v == IF u[k] = "reading" THEN [u EXCEPT ![k] = "idle"] ELSE u
  <2>1. sock' = [sock EXCEPT ![s] = g] /\ uv' = [uv EXCEPT ![s] = v]
    BY <1>0, <1>2, <1>4 DEF Tcp!Pause, Tcp!SetUv
  <2>2. /\ g \in Records /\ g.walk = f.walk /\ g.handle = k /\ g.closed = f.closed /\ g.kept = f.kept
        /\ g.onData = f.onData /\ g.paused /\ g.reading = f.reading
    BY <1>2 DEF Records
  <2>3. v = u \/ (u[k] = "reading" /\ v = [u EXCEPT ![k] = "idle"])
    OBVIOUS
  <2>4. \A b \in 1..Addrs : v[b] = "reading" => u[b] = "reading"
    BY <1>2, <1>3 DEF Rows
  <2> HIDE DEF g, v
  <2>5. Careful => Heeded(g, v)
    BY <1>2, <2>2, <2>4 DEF Heeded
  <2>6. Moved(f, u, g, v, C, Kind(s), 0)
    BY <1>0, <1>2, <2>2, <2>3, <2>5, HandleReads
  <2> QED BY <1>1, <2>1, <2>6, SocketSteps
<1>5. CASE Tcp!Resume(s)
  <2> DEFINE g == [f EXCEPT !.paused = FALSE, !.reading = TRUE]
             v == IF u[k] = "idle" THEN [u EXCEPT ![k] = "reading"] ELSE u
  <2>1. /\ sock' = [sock EXCEPT ![s] = g] /\ uv' = [uv EXCEPT ![s] = v]
        /\ (Careful => f.onData)
    BY <1>0, <1>2, <1>5 DEF Tcp!Resume, Tcp!SetUv, Careful
  <2>2. /\ g \in Records /\ g.walk = f.walk /\ g.handle = k /\ g.closed = f.closed /\ g.kept = f.kept
        /\ g.onData = f.onData /\ ~g.paused /\ g.reading
    BY <1>2 DEF Records
  <2>3. v = u \/ (u[k] = "idle" /\ v = [u EXCEPT ![k] = "reading"])
    OBVIOUS
  <2>4. (u[k] \in {"idle", "reading"} => v[k] = "reading")
        /\ \A b \in 1..Addrs : b # k => v[b] = u[b]
    BY <1>2, <1>3 DEF Rows
  <2> HIDE DEF g, v
  <2>5. Careful => Heeded(g, v)
    <3>1. f.walk = "open" => u[k] \in {"idle", "reading"}
      BY <1>0, <1>2 DEF Sound
    <3>2. Careful => f.walk \notin {"none", "resolving", "connecting"}
      BY <1>2, <2>1 DEF Heeded
    <3> QED BY <2>1, <2>2, <2>4, <3>1, <3>2 DEF Heeded
  <2>6. Moved(f, u, g, v, C, Kind(s), 0)
    BY <1>0, <1>2, <2>2, <2>3, <2>5, HandleReads
  <2> QED BY <1>1, <2>1, <2>6, SocketSteps
<1> QED BY <1>4, <1>5


\* What touches the record of a socket, or none of it.
LEMMA DrainKeeps ==
  ASSUME NetworkAssumption, TcpTyped, SocketsInv, Tcp!WorkMatches, NEW s \in Tcp!Socks,
         Tcp!OnDrain(s)
  PROVE  SocketsKept
<1>1. /\ sock' = [sock EXCEPT ![s].drains = @ + 1] /\ UNCHANGED <<uv, work>>
      /\ h' = [h EXCEPT !.calls = @ + 1]
  BY DEF Tcp!OnDrain, Tcp!Call
<1>2. PICK n \in Nat : n = sock[s].drains + 1
  BY SocketIs DEF Records
<1>3. PICK known \in BOOLEAN : known = sock[s].known
  BY SocketIs DEF Records
<1>4. [sock[s] EXCEPT !.drains = n] = [sock[s] EXCEPT !.drains = n, !.known = known]
  BY <1>3, SocketIs DEF Records
<1>5. sock' = [sock EXCEPT ![s].drains = n, ![s].known = known]
  BY <1>1, <1>2, <1>4 DEF TcpTyped
<1>6. h'.cancelled = h.cancelled
  BY <1>1, SocketIs DEF TcpHistories
<1> QED BY <1>1, <1>2, <1>3, <1>5, <1>6, SocketTouched

LEMMA HandlerKeeps ==
  ASSUME NetworkAssumption, TcpTyped, SocketsInv, Tcp!WorkMatches, NEW what \in TcpDone,
         Tcp!RunHandler(what)
  PROVE  SocketsKept
<1> DEFINE s == Head(queue).of
<1>0. s \in Tcp!Socks
  <2>1. queue # <<>> /\ Head(queue).do = what /\ queue \in Seq(TcpJobs)
    BY DEF Tcp!RunHandler, Tcp!Begin, TcpTyped
  <2>2. 1 \in DOMAIN queue /\ Head(queue) = queue[1]
    BY <2>1, TailIsShorter
  <2> QED BY <2>1, <2>2 DEF TcpTyped
<1>1. /\ sock' \in {sock, [sock EXCEPT ![s].known = TRUE]} /\ UNCHANGED <<uv, work>>
      /\ \/ h' = [h EXCEPT !.heard[s] = Append(@, Head(queue).c)]
         \/ h' = [h EXCEPT !.closes[s] = Append(@, Len(h.heard[s]))]
         \/ h' = h
  BY DEF Tcp!RunHandler
<1>2. h'.cancelled = h.cancelled
  BY <1>0, <1>1, SocketIs DEF TcpHistories
<1> HIDE DEF s
<1>3. CASE sock' = sock
  BY <1>1, <1>2, <1>3, SocketsRest
<1>4. CASE sock' = [sock EXCEPT ![s].known = TRUE]
  <2>1. PICK n \in Nat : n = sock[s].drains
    BY <1>0, SocketIs DEF Records
  <2>2. PICK known \in BOOLEAN : known = TRUE
    OBVIOUS
  <2>3. [sock[s] EXCEPT !.known = TRUE] = [sock[s] EXCEPT !.drains = n, !.known = known]
    BY <1>0, <2>1, <2>2, SocketIs DEF Records
  <2>4. sock' = [sock EXCEPT ![s].drains = n, ![s].known = known]
    BY <1>0, <1>4, <2>3 DEF TcpTyped
  <2> QED BY <1>0, <1>1, <1>2, <2>1, <2>2, <2>4, SocketTouched
<1> QED BY <1>1, <1>3, <1>4

LEMMA OthersKeep ==
  ASSUME NetworkAssumption, TcpTyped, SocketsInv, Tcp!WorkMatches,
         \/ \E s \in Tcp!Socks : Tcp!Read(s) \/ Tcp!Write(s)
         \/ Tcp!Listen \/ Tcp!CloseServer \/ Tcp!RunListen \/ Tcp!RunUnlisten \/ Tcp!ScriptReturns
         \/ Tcp!Poll \/ Tcp!EndOfPoll \/ Tcp!EndOfClosing
  PROVE  SocketsKept
<1>1. UNCHANGED <<sock, uv, work>>
      /\ \/ h' = h
         \/ h' = [h EXCEPT !.calls = @ + 1]
         \/ \E s \in Tcp!Socks : h' = [h EXCEPT !.read[s] = @ + 1, !.sent = @ + 1]
  BY DEF Tcp!Read, Tcp!Write, Tcp!Call, Tcp!Listen, Tcp!CloseServer, Tcp!RunListen, Tcp!RunUnlisten,
         Tcp!ScriptReturns, Tcp!Poll, Tcp!EndOfPoll, Tcp!EndOfClosing
<1>2. h \in TcpHistories
  BY DEF TcpTyped
<1>3. h'.cancelled = h.cancelled
  BY <1>1, <1>2 DEF TcpHistories
<1> QED BY <1>1, <1>3, SocketsRest

LEMMA SocketsStep ==
  ASSUME NetworkAssumption, TcpTyped, SocketsInv, Tcp!WorkMatches, Tcp!Next
  PROVE  SocketsKept
<1>1. CASE Tcp!Loop
  BY <1>1, OthersKeep, HandlerKeeps, ClosedKeeps, CancelledKeeps DEF Tcp!Loop, TcpDone
<1>2. CASE Tcp!Listen \/ Tcp!CloseServer
  BY <1>2, OthersKeep
<1>3. CASE Tcp!Events
  BY <1>3, ResolvedKeeps, ConnectedKeeps, RefusedKeeps, WroteKeeps DEF Tcp!Events
<1>4. CASE Tcp!PeerActs
  BY <1>4, AcceptKeeps, EndOfReadKeeps, OthersKeep DEF Tcp!PeerActs
<1>5. CASE \E s \in Tcp!Socks : Tcp!Api(s)
  BY <1>5, ConnectKeeps, OnDataKeeps, DrainKeeps, OthersKeep, CloseScriptKeeps, PauseKeeps DEF Tcp!Api
<1> QED BY <1>1, <1>2, <1>3, <1>4, <1>5 DEF Tcp!Next

\* What a step does to the queue and to what has been heard: a job that is
\* neither a chunk nor a close is added or taken; or one of those arrives or runs.
Aside == {j \in TcpJobs : j.do \notin {"data", "close"} /\ (j.do \in TcpDone => j.of \in Tcp!Socks)}
Unheard ==
  /\ h' \in TcpHistories
  /\ h'.heard = h.heard /\ h'.closes = h.closes /\ h'.read = h.read /\ h'.sent = h.sent
Added == Unheard /\ \E m \in Seq(Aside) : queue' = queue \o m
Taken == Unheard /\ queue # <<>> /\ Head(queue) \in Aside /\ queue' = Tail(queue)

LEMMA AsideIs ==
  ASSUME NetworkAssumption
  PROVE  /\ \A s \in Tcp!Socks, what \in {"connect", "connection", "error"} :
              Tcp!Job(what, s, 0) \in Aside
         /\ \A what \in {"listen", "unlisten"} : Tcp!Job(what, "server", 0) \in Aside
         /\ Aside \subseteq TcpJobs
<1>1. ASSUME NEW s \in Tcp!Socks, NEW what \in {"connect", "connection", "error"}
      PROVE  Tcp!Job(what, s, 0) \in Aside
  BY <1>1 DEF Tcp!Job, Aside, TcpJobs, TcpDone
<1>2. ASSUME NEW what \in {"listen", "unlisten"}
      PROVE  Tcp!Job(what, "server", 0) \in Aside
  BY <1>2 DEF Tcp!Job, Aside, TcpJobs, TcpDone
<1>3. Aside \subseteq TcpJobs
  BY DEF Aside
<1> QED BY <1>1, <1>2, <1>3

LEMMA NothingAdded ==
  ASSUME TcpTyped, Unheard, queue' = queue
  PROVE  Added
<1>1. queue = queue \o <<>> /\ <<>> \in Seq(Aside)
  BY DEF TcpTyped
<1> QED BY <1>1 DEF Added

LEMMA OneAdded ==
  ASSUME TcpTyped, Unheard, NEW j \in Aside, queue' = queue \o <<j>>
  PROVE  Added
<1>1. <<j>> \in Seq(Aside)
  OBVIOUS
<1> QED BY <1>1 DEF Added

LEMMA HistoryRests ==
  ASSUME TcpTyped, h' = h
  PROVE  Unheard
BY DEF TcpTyped, Unheard

LEMMA CallsCounted ==
  ASSUME NetworkAssumption, TcpTyped, Tcp!Call
  PROVE  Unheard
<1>1. h \in TcpHistories /\ h.calls < Calls /\ h' = [h EXCEPT !.calls = h.calls + 1]
  BY DEF TcpTyped, Tcp!Call
<1>2. h.calls \in 0..Calls /\ Calls \in Nat
  BY <1>1 DEF TcpHistories, NetworkAssumption, Tcp!TcpAssumption
<1>3. PICK n \in 0..Calls : n = h.calls + 1
  BY <1>1, <1>2
<1>4. h' = [h EXCEPT !.calls = n]
  BY <1>1, <1>3
<1> QED BY <1>1, <1>4 DEF TcpHistories, Unheard

LEMMA CancelRecorded ==
  ASSUME NetworkAssumption, TcpTyped, SocketsInv, NEW s \in Tcp!Socks, NEW a \in 1..Addrs,
         Tcp!Cancelled(s, a)
  PROVE  Unheard
<1>1. uv[s][a] = "cancelled" /\ h' = [h EXCEPT !.cancelled = h.cancelled \cup {<<s, a>>}]
  BY DEF Tcp!Cancelled
<1>2. Sound(sock[s], uv[s], CancelledOf(s), Kind(s)) /\ h \in TcpHistories
  BY SocketIs DEF Right
<1>3. sock[s].walk = "connecting"
  BY <1>1, <1>2 DEF Sound
<1>4. s \in Clients
  BY <1>2, <1>3, SocketIs DEF Sound, Kinds
<1>5. PICK C \in SUBSET (Clients \X (1..Addrs)) : C = h.cancelled \cup {<<s, a>>}
  <2>1. <<s, a>> \in Clients \X (1..Addrs) /\ h.cancelled \subseteq Clients \X (1..Addrs)
    BY <1>4, SocketIs
  <2> QED BY <2>1
<1>6. h' = [h EXCEPT !.cancelled = C]
  BY <1>1, <1>5
<1> QED BY <1>2, <1>6 DEF TcpHistories, Unheard

LEMMA NextAddressAdds ==
  ASSUME NetworkAssumption, TcpTyped, NEW s \in Tcp!Socks, NEW a, NEW f, NEW u,
         Tcp!TryNextAddress(s, a, f, u), Unheard
  PROVE  Added
<1>1. queue' = queue \o <<Tcp!Job("error", s, 0)>> \/ queue' = queue
  BY DEF Tcp!TryNextAddress, Tcp!Exhausted, Tcp!Enqueue
<1> QED BY <1>1, AsideIs, OneAdded, NothingAdded

LEMMA CallbacksAdd ==
  ASSUME NetworkAssumption, TcpTyped, SocketsInv, NEW s \in Tcp!Socks,
         \/ Tcp!Resolved(s) \/ Tcp!Connected(s) \/ Tcp!Refused(s) \/ Tcp!Wrote(s)
         \/ Tcp!WriteFailed(s) \/ Tcp!Accept(s)
  PROVE  Added
<1>1. h' = h
  BY DEF Tcp!Resolved, Tcp!Connected, Tcp!Refused, Tcp!Wrote, Tcp!WriteFailed, Tcp!Accept
<1>2. Unheard
  BY <1>1, HistoryRests
<1>3. CASE Tcp!Resolved(s) \/ Tcp!Refused(s)
  BY <1>2, <1>3, NextAddressAdds DEF Tcp!Resolved, Tcp!Refused
<1>4. CASE Tcp!Connected(s) \/ Tcp!Accept(s)
  BY <1>2, <1>4, AsideIs, OneAdded DEF Tcp!Connected, Tcp!Accept, Tcp!Enqueue
<1>5. CASE Tcp!Wrote(s) \/ Tcp!WriteFailed(s)
  BY <1>2, <1>5, NothingAdded DEF Tcp!Wrote, Tcp!WriteFailed
<1> QED BY <1>3, <1>4, <1>5

LEMMA ScriptAddsTcp ==
  ASSUME NetworkAssumption, TcpTyped,
         Tcp!Listen \/ Tcp!CloseServer \/ \E s \in Tcp!Socks : Tcp!Api(s)
  PROVE  Added
<1>1. Tcp!Call
  BY DEF Tcp!Listen, Tcp!CloseServer, Tcp!Api, Tcp!Connect, Tcp!OnData, Tcp!OnDrain, Tcp!Write,
         Tcp!Close, Tcp!Pause, Tcp!Resume
<1>2. Unheard
  BY <1>1, CallsCounted
<1>3. CASE Tcp!Listen \/ Tcp!CloseServer
  BY <1>2, <1>3, AsideIs, OneAdded DEF Tcp!Listen, Tcp!CloseServer, Tcp!Enqueue
<1>4. CASE \E s \in Tcp!Socks : Tcp!Api(s)
  <2>1. queue' = queue
    BY <1>4 DEF Tcp!Api, Tcp!Connect, Tcp!OnData, Tcp!OnDrain, Tcp!Write, Tcp!Close, Tcp!Pause,
                Tcp!Resume
  <2> QED BY <1>2, <2>1, NothingAdded
<1> QED BY <1>3, <1>4

LEMMA LoopTalks ==
  ASSUME NetworkAssumption, TcpTyped, SocketsInv, Tcp!Loop
  PROVE  Added \/ Taken \/ Tcp!RunHandler("data") \/ Tcp!RunHandler("close")
<1>1. CASE Tcp!Poll \/ Tcp!EndOfPoll \/ Tcp!EndOfClosing \/ Tcp!ScriptReturns
           \/ \E s \in Tcp!Socks, a \in 1..Addrs : Tcp!Closed(s, a) \/ Tcp!Dropped(s, a)
  <2>1. h' = h /\ queue' = queue
    BY <1>1 DEF Tcp!Poll, Tcp!EndOfPoll, Tcp!EndOfClosing, Tcp!ScriptReturns, Tcp!Closed, Tcp!Dropped
  <2> QED BY <2>1, HistoryRests, NothingAdded
<1>2. CASE \E s \in Tcp!Socks, a \in 1..Addrs : Tcp!Cancelled(s, a)
  <2> PICK s \in Tcp!Socks, a \in 1..Addrs : Tcp!Cancelled(s, a)
    BY <1>2
  <2>1. Unheard
    BY CancelRecorded
  <2>2. queue' = queue \o <<Tcp!Job("error", s, 0)>> \/ queue' = queue
    BY DEF Tcp!Cancelled, Tcp!Enqueue
  <2> QED BY <2>1, <2>2, AsideIs, OneAdded, NothingAdded
<1>3. ASSUME NEW what \in {"listen", "unlisten", "connect", "connection", "error"},
             Tcp!Begin(what), h' = h
      PROVE  Taken
  <2>1. queue # <<>> /\ Head(queue).do = what /\ queue' = Tail(queue)
    BY <1>3 DEF Tcp!Begin
  <2>2. Head(queue) \in TcpJobs /\ Head(queue) = queue[1] /\ 1 \in DOMAIN queue
    BY <2>1, TailIsShorter DEF TcpTyped
  <2>3. Head(queue) \in Aside
    BY <2>1, <2>2 DEF Aside, TcpTyped
  <2> QED BY <1>3, <2>1, <2>3, HistoryRests DEF Taken
<1>4. CASE Tcp!RunListen \/ Tcp!RunUnlisten
  BY <1>3, <1>4 DEF Tcp!RunListen, Tcp!RunUnlisten
<1>5. ASSUME NEW what \in {"connect", "connection", "error"}, Tcp!RunHandler(what)
      PROVE  Taken
  <2>1. Tcp!Begin(what) /\ h' = h
    BY <1>5 DEF Tcp!RunHandler
  <2> QED BY <1>3, <2>1
<1> QED BY <1>1, <1>2, <1>4, <1>5 DEF Tcp!Loop

LEMMA TalkSteps ==
  ASSUME NetworkAssumption, TcpTyped, SocketsInv, Tcp!Next
  PROVE  \/ Added \/ Taken \/ Tcp!RunHandler("data") \/ Tcp!RunHandler("close")
         \/ \E s \in Tcp!Socks : Tcp!Read(s) \/ Tcp!EndOfRead(s)
BY LoopTalks, CallbacksAdd, ScriptAddsTcp DEF Tcp!Next, Tcp!Events, Tcp!PeerActs

\* The types after a step.
LEMMA QueueTyped ==
  ASSUME NetworkAssumption, TcpTyped, SocketsInv,
         \/ Added \/ Taken \/ Tcp!RunHandler("data") \/ Tcp!RunHandler("close")
         \/ \E s \in Tcp!Socks : Tcp!Read(s) \/ Tcp!EndOfRead(s)
  PROVE  /\ queue' \in Seq(TcpJobs)
         /\ \A i \in DOMAIN queue' : queue'[i].do \in TcpDone => queue'[i].of \in Tcp!Socks
<1> DEFINE Kept == {j \in TcpJobs : j.do \in TcpDone => j.of \in Tcp!Socks}
<1>1. queue \in Seq(Kept)
  <2>1. queue \in Seq(TcpJobs) /\ \A i \in DOMAIN queue : queue[i] \in Kept
    BY DEF TcpTyped
  <2> QED BY <2>1
<1>2. Aside \subseteq Kept
  BY DEF Aside
<1> SUFFICES queue' \in Seq(Kept)
  <2>1. queue' \in Seq(Kept) => \A i \in DOMAIN queue' : queue'[i] \in Kept
    OBVIOUS
  <2>2. queue' \in Seq(Kept) => queue' \in Seq(TcpJobs)
    OBVIOUS
  <2> QED BY <2>1, <2>2
<1>3. ASSUME NEW m \in Seq(Kept), queue' = queue \o m
      PROVE  queue' \in Seq(Kept)
  <2> HIDE DEF Kept
  <2> QED BY <1>1, <1>3
<1>4. ASSUME queue # <<>>, queue' = Tail(queue)
      PROVE  queue' \in Seq(Kept)
  <2> HIDE DEF Kept
  <2> QED BY <1>1, <1>4
<1>5. CASE Added
  <2>1. PICK m \in Seq(Aside) : queue' = queue \o m
    BY <1>5 DEF Added
  <2>2. m \in Seq(Kept)
    BY <1>2
  <2> QED BY <1>3, <2>1, <2>2
<1>6. CASE Taken \/ Tcp!RunHandler("data") \/ Tcp!RunHandler("close")
  <2>1. queue # <<>> /\ queue' = Tail(queue)
    BY <1>6 DEF Taken, Tcp!RunHandler, Tcp!Begin
  <2> QED BY <1>4, <2>1
<1>7. ASSUME NEW s \in Tcp!Socks, Tcp!Read(s) \/ Tcp!EndOfRead(s)
      PROVE  queue' \in Seq(Kept)
  <2> DEFINE n == h.read[s] + 1
  <2>1. n \in Nat
    BY SocketIs DEF TcpHistories
  <2>2. Tcp!Job("data", s, n) \in Kept /\ Tcp!Job("close", s, 0) \in Kept
    BY <2>1 DEF Tcp!Job, TcpJobs, TcpDone
  <2>3. queue' \in {queue \o <<>>, queue \o <<Tcp!Job("data", s, n)>>, queue \o <<Tcp!Job("close", s, 0)>>}
    BY <1>7 DEF Tcp!Read, Tcp!EndOfRead, Tcp!Enqueue
  <2>4. <<>> \in Seq(Kept)
    OBVIOUS
  <2> HIDE DEF Kept, n
  <2>5. <<Tcp!Job("data", s, n)>> \in Seq(Kept) /\ <<Tcp!Job("close", s, 0)>> \in Seq(Kept)
    BY <2>2
  <2> QED BY <1>3, <2>3, <2>4, <2>5
<1> QED BY <1>5, <1>6, <1>7

LEMMA HistoriesTyped ==
  ASSUME NetworkAssumption, TcpTyped, SocketsInv,
         \/ Added \/ Taken \/ Tcp!RunHandler("data") \/ Tcp!RunHandler("close")
         \/ \E s \in Tcp!Socks : Tcp!Read(s) \/ Tcp!EndOfRead(s)
  PROVE  h' \in TcpHistories /\ \A s \in Tcp!Socks : h'.read[s] <= h'.sent
<1>0. h \in TcpHistories /\ \A s \in Tcp!Socks : h.read[s] <= h.sent
  BY DEF TcpTyped
<1>1. CASE Added \/ Taken
  BY <1>0, <1>1 DEF Added, Taken, Unheard
<1>2. CASE Tcp!RunHandler("data") \/ Tcp!RunHandler("close")
  <2> DEFINE s == Head(queue).of
             c == Head(queue).c
  <2>1. /\ queue # <<>> /\ Head(queue).do \in TcpDone
        /\ \/ h' = [h EXCEPT !.heard[s] = Append(@, c)]
           \/ h' = [h EXCEPT !.closes[s] = Append(@, Len(h.heard[s]))]
    BY <1>2 DEF Tcp!RunHandler, Tcp!Begin, TcpDone
  <2>2. 1 \in DOMAIN queue /\ Head(queue) = queue[1] /\ Head(queue) \in TcpJobs
    BY <2>1, TailIsShorter DEF TcpTyped
  <2>3. s \in Tcp!Socks /\ c \in Nat
    BY <2>1, <2>2 DEF TcpTyped, TcpJobs
  <2> HIDE DEF s, c
  <2>4. h.heard[s] \in Seq(Nat) /\ h.closes[s] \in Seq(Nat)
    BY <1>0, <2>3 DEF TcpHistories
  <2> DEFINE l == Append(h.heard[s], c)
             k == Append(h.closes[s], Len(h.heard[s]))
  <2>5. l \in Seq(Nat)
    BY <2>3, <2>4
  <2>6. k \in Seq(Nat)
    <3>1. Len(h.heard[s]) \in Nat
      BY <2>4
    <3> QED BY <2>4, <3>1
  <2>7. h' = [h EXCEPT !.heard[s] = l] \/ h' = [h EXCEPT !.closes[s] = k]
    BY <1>0, <2>1, <2>3 DEF TcpHistories
  <2> HIDE DEF l, k
  <2>8. /\ [h EXCEPT !.heard[s] = l] \in TcpHistories /\ [h EXCEPT !.heard[s] = l].read = h.read
        /\ [h EXCEPT !.heard[s] = l].sent = h.sent
    BY <1>0, <2>3, <2>5 DEF TcpHistories
  <2>9. /\ [h EXCEPT !.closes[s] = k] \in TcpHistories /\ [h EXCEPT !.closes[s] = k].read = h.read
        /\ [h EXCEPT !.closes[s] = k].sent = h.sent
    BY <1>0, <2>3, <2>6 DEF TcpHistories
  <2> QED BY <1>0, <2>7, <2>8, <2>9
<1>3. ASSUME NEW s \in Tcp!Socks, Tcp!Read(s)
      PROVE  h' \in TcpHistories /\ \A t \in Tcp!Socks : h'.read[t] <= h'.sent
  <2>1. h.sent < Chunks /\ h' = [h EXCEPT !.read[s] = @ + 1, !.sent = @ + 1]
    BY <1>3 DEF Tcp!Read
  <2>2. h.read[s] <= h.sent /\ h.sent \in 0..Chunks /\ h.read[s] \in 0..Chunks /\ Chunks \in Nat
    BY <1>0 DEF TcpHistories, NetworkAssumption, Tcp!TcpAssumption
  <2>3. PICK n \in 0..Chunks : n = h.sent + 1
    BY <2>1, <2>2
  <2>4. PICK r \in 0..Chunks : r = h.read[s] + 1
    BY <2>1, <2>2
  <2>5. h' = [h EXCEPT !.read[s] = r, !.sent = n]
    BY <1>0, <2>1, <2>3, <2>4 DEF TcpHistories
  <2>6. /\ h' \in TcpHistories /\ h'.sent = n /\ h'.read[s] = r
        /\ \A t \in Tcp!Socks : t # s => h'.read[t] = h.read[t]
    BY <1>0, <2>3, <2>4, <2>5 DEF TcpHistories
  <2>7. ASSUME NEW t \in Tcp!Socks
        PROVE  h'.read[t] <= n
    <3>1. h.read[t] <= h.sent /\ h.read[t] \in Int
      BY <1>0 DEF TcpHistories
    <3> QED BY <2>2, <2>3, <2>4, <2>6, <3>1
  <2> QED BY <2>6, <2>7
<1>4. CASE \E s \in Tcp!Socks : Tcp!EndOfRead(s)
  BY <1>0, <1>4 DEF Tcp!EndOfRead
<1> QED BY <1>1, <1>2, <1>3, <1>4

LEMMA PeersTyped ==
  ASSUME NetworkAssumption, TcpTyped, Tcp!Next
  PROVE  peer' \in [Tcp!Socks -> [owed : Nat, failed : BOOLEAN]]
<1> DEFINE Side == [owed : Nat, failed : BOOLEAN]
<1>0. peer \in [Tcp!Socks -> Side]
  BY DEF TcpTyped
<1>1. ASSUME NEW s \in Tcp!Socks, NEW x \in Side, peer' = [peer EXCEPT ![s] = x]
      PROVE  peer' \in [Tcp!Socks -> Side]
  <2> HIDE DEF Side
  <2> QED BY <1>0, <1>1
<1>2. ASSUME NEW s \in Tcp!Socks, Tcp!Wrote(s) \/ Tcp!WriteFailed(s)
      PROVE  peer' \in [Tcp!Socks -> Side]
  <2>1. peer[s].owed > 0 /\ peer[s] \in Side
    BY <1>0, <1>2 DEF Tcp!Wrote, Tcp!WriteFailed
  <2>2. PICK n \in Nat : n = peer[s].owed - 1
    BY <2>1
  <2>3. PICK x \in Side : x \in {[peer[s] EXCEPT !.owed = n], [peer[s] EXCEPT !.owed = n, !.failed = TRUE]}
                          /\ peer' = [peer EXCEPT ![s] = x]
    <3>1. [peer[s] EXCEPT !.owed = n] \in Side /\ [peer[s] EXCEPT !.owed = n, !.failed = TRUE] \in Side
      BY <2>1, <2>2
    <3>2. peer' = [peer EXCEPT ![s] = [peer[s] EXCEPT !.owed = n]]
          \/ peer' = [peer EXCEPT ![s] = [peer[s] EXCEPT !.owed = n, !.failed = TRUE]]
      BY <1>0, <1>2, <2>2 DEF Tcp!Wrote, Tcp!WriteFailed
    <3> QED BY <3>1, <3>2
  <2> HIDE DEF Side
  <2> QED BY <1>1, <2>3
<1>3. ASSUME NEW s \in Tcp!Socks, NEW a \in 1..Addrs, Tcp!Closed(s, a)
      PROVE  peer' \in [Tcp!Socks -> Side]
  <2>1. peer' = [peer EXCEPT ![s].owed = 0] /\ peer[s] \in Side
    BY <1>0, <1>3 DEF Tcp!Closed
  <2>2. [peer[s] EXCEPT !.owed = 0] \in Side /\ peer' = [peer EXCEPT ![s] = [peer[s] EXCEPT !.owed = 0]]
    BY <1>0, <2>1
  <2> HIDE DEF Side
  <2> QED BY <1>1, <2>2
<1>4. ASSUME NEW s \in Tcp!Socks, Tcp!Write(s)
      PROVE  peer' \in [Tcp!Socks -> Side]
  <2>1. peer' = [peer EXCEPT ![s].owed = @ + 1] /\ peer[s] \in Side
    BY <1>0, <1>4 DEF Tcp!Write
  <2>2. PICK n \in Nat : n = peer[s].owed + 1
    BY <2>1
  <2>3. [peer[s] EXCEPT !.owed = n] \in Side /\ peer' = [peer EXCEPT ![s] = [peer[s] EXCEPT !.owed = n]]
    BY <1>0, <2>1, <2>2
  <2> HIDE DEF Side
  <2> QED BY <1>1, <2>3
<1>5. \/ peer' = peer
      \/ \E s \in Tcp!Socks : Tcp!Wrote(s) \/ Tcp!WriteFailed(s) \/ Tcp!Write(s)
      \/ \E s \in Tcp!Socks, a \in 1..Addrs : Tcp!Closed(s, a)
  <2>1. CASE Tcp!Loop
    BY <2>1 DEF Tcp!Loop, Tcp!RunListen, Tcp!RunUnlisten, Tcp!Poll, Tcp!EndOfPoll, Tcp!EndOfClosing,
                Tcp!ScriptReturns, Tcp!RunHandler, Tcp!Dropped, Tcp!Cancelled
  <2>2. CASE Tcp!Listen \/ Tcp!CloseServer
    BY <2>2 DEF Tcp!Listen, Tcp!CloseServer
  <2>3. CASE Tcp!Events \/ Tcp!PeerActs
    BY <2>3 DEF Tcp!Events, Tcp!PeerActs, Tcp!Resolved, Tcp!Connected, Tcp!Refused, Tcp!Accept,
                Tcp!Read, Tcp!EndOfRead
  <2>4. CASE \E s \in Tcp!Socks : Tcp!Api(s)
    BY <2>4 DEF Tcp!Api, Tcp!Connect, Tcp!OnData, Tcp!OnDrain, Tcp!Close, Tcp!Pause, Tcp!Resume
  <2> QED BY <2>1, <2>2, <2>3, <2>4 DEF Tcp!Next
<1> QED BY <1>0, <1>2, <1>3, <1>4, <1>5

LEMMA PlacesTyped ==
  ASSUME NetworkAssumption, TcpTyped, Tcp!Next
  PROVE  at' \in {"tasks", "script", "poll", "drain", "closing", "returned"}
<1>0. at \in {"tasks", "script", "poll", "drain", "closing", "returned"}
  BY DEF TcpTyped
<1>1. at' = at \/ at' \in {"tasks", "script", "poll", "drain", "closing", "returned"}
  <2>1. CASE Tcp!Loop
    BY <2>1 DEF Tcp!Loop, Tcp!RunListen, Tcp!RunUnlisten, Tcp!Poll, Tcp!EndOfPoll, Tcp!EndOfClosing,
                Tcp!ScriptReturns, Tcp!RunHandler, Tcp!Closed, Tcp!Dropped, Tcp!Cancelled
  <2>2. CASE Tcp!Listen \/ Tcp!CloseServer
    BY <2>2 DEF Tcp!Listen, Tcp!CloseServer
  <2>3. CASE Tcp!Events \/ Tcp!PeerActs
    BY <2>3 DEF Tcp!Events, Tcp!PeerActs, Tcp!Resolved, Tcp!Connected, Tcp!Refused, Tcp!Accept,
                Tcp!Read, Tcp!EndOfRead, Tcp!Wrote, Tcp!WriteFailed
  <2>4. CASE \E s \in Tcp!Socks : Tcp!Api(s)
    BY <2>4 DEF Tcp!Api, Tcp!Connect, Tcp!OnData, Tcp!OnDrain, Tcp!Close, Tcp!Pause, Tcp!Resume,
                Tcp!Write
  <2> QED BY <2>1, <2>2, <2>3, <2>4 DEF Tcp!Next
<1> QED BY <1>0, <1>1

LEMMA ServerTyped ==
  ASSUME NetworkAssumption, TcpTyped, Tcp!Next
  PROVE  srv' \in [handle : {"none", "idle", "listening"}, closed : BOOLEAN, lost : Nat]
<1> DEFINE Servers == [handle : {"none", "idle", "listening"}, closed : BOOLEAN, lost : Nat]
<1>0. srv \in Servers
  BY DEF TcpTyped
<1>1. CASE Tcp!RunListen
  <2>1. PICK w \in {"none", "idle", "listening"} :
          srv' = [srv EXCEPT !.handle = w, !.lost = @ + (IF srv.handle = "listening" THEN 1 ELSE 0)]
    BY <1>1 DEF Tcp!RunListen
  <2>2. PICK n \in Nat : n = srv.lost + (IF srv.handle = "listening" THEN 1 ELSE 0)
    BY <1>0
  <2>3. srv' = [srv EXCEPT !.handle = w, !.lost = n]
    BY <2>1, <2>2
  <2> QED BY <1>0, <2>1, <2>2, <2>3
<1>2. srv' = [srv EXCEPT !.handle = "none"] => srv' \in Servers
  BY <1>0
<1>3. srv' = [srv EXCEPT !.closed = TRUE] => srv' \in Servers
  BY <1>0
<1>4. \/ Tcp!RunListen \/ srv' = srv \/ srv' = [srv EXCEPT !.handle = "none"]
      \/ srv' = [srv EXCEPT !.closed = TRUE]
  <2>1. CASE Tcp!Loop
    BY <2>1 DEF Tcp!Loop, Tcp!RunUnlisten, Tcp!Poll, Tcp!EndOfPoll, Tcp!EndOfClosing,
                Tcp!ScriptReturns, Tcp!RunHandler, Tcp!Closed, Tcp!Dropped, Tcp!Cancelled
  <2>2. CASE Tcp!Listen \/ Tcp!CloseServer
    BY <2>2 DEF Tcp!Listen, Tcp!CloseServer
  <2>3. CASE Tcp!Events \/ Tcp!PeerActs
    BY <2>3 DEF Tcp!Events, Tcp!PeerActs, Tcp!Resolved, Tcp!Connected, Tcp!Refused, Tcp!Accept,
                Tcp!Read, Tcp!EndOfRead, Tcp!Wrote, Tcp!WriteFailed
  <2>4. CASE \E s \in Tcp!Socks : Tcp!Api(s)
    BY <2>4 DEF Tcp!Api, Tcp!Connect, Tcp!OnData, Tcp!OnDrain, Tcp!Close, Tcp!Pause, Tcp!Resume,
                Tcp!Write
  <2> QED BY <2>1, <2>2, <2>3, <2>4 DEF Tcp!Next
<1> QED BY <1>0, <1>1, <1>2, <1>3, <1>4

LEMMA TypesStep ==
  ASSUME NetworkAssumption, TcpTyped, SocketsInv, Tcp!WorkMatches, Tcp!Next
  PROVE  TcpTyped'
<1>1. SocketsKept
  BY SocketsStep
<1>2. queue' \in Seq(TcpJobs)
      /\ \A i \in DOMAIN queue' : queue'[i].do \in TcpDone => queue'[i].of \in Tcp!Socks
  BY TalkSteps, QueueTyped
<1>3. h' \in TcpHistories /\ \A s \in Tcp!Socks : h'.read[s] <= h'.sent
  BY TalkSteps, HistoriesTyped
<1> QED BY <1>1, <1>2, <1>3, PeersTyped, PlacesTyped, ServerTyped DEF TcpTyped, SocketsKept

-----------------------------------------------------------------------------
\* The chunks, and the close behind them.
LEMMA TcpNumbers ==
  ASSUME NetworkAssumption, TcpTyped, NEW s \in Tcp!Socks
  PROVE  /\ queue \in Seq(TcpJobs) /\ h \in TcpHistories
         /\ h.heard[s] \in Seq(Nat) /\ Len(h.heard[s]) \in Nat /\ h.read[s] \in Nat
         /\ h.closes[s] \in Seq(Nat)
         /\ \A i \in DOMAIN queue : queue[i].c \in Nat /\ queue[i] \in TcpJobs
         /\ DataOf(s) \cap Aside = {} /\ CloseOf(s) \cap Aside = {} /\ CloseOf(s) \cap DataOf(s) = {}
         /\ \A t \in Tcp!Socks : t # s => (CloseOf(t) \cup DataOf(t)) \cap (CloseOf(s) \cup DataOf(s)) = {}
<1>1. queue \in Seq(TcpJobs) /\ h \in TcpHistories
  BY DEF TcpTyped
<1>2. h.heard[s] \in Seq(Nat) /\ h.read[s] \in Nat /\ h.closes[s] \in Seq(Nat)
  BY <1>1 DEF TcpHistories
<1>3. Len(h.heard[s]) \in Nat
  BY <1>2
<1>4. \A i \in DOMAIN queue : queue[i] \in TcpJobs
  BY <1>1
<1>5. \A x \in TcpJobs : x.c \in Nat
  BY DEF TcpJobs
<1>6. DataOf(s) \cap Aside = {} /\ CloseOf(s) \cap Aside = {} /\ CloseOf(s) \cap DataOf(s) = {}
  BY DEF DataOf, CloseOf, Aside
<1>7. \A t \in Tcp!Socks : t # s =>
        (CloseOf(t) \cup DataOf(t)) \cap (CloseOf(s) \cup DataOf(s)) = {}
  BY DEF DataOf, CloseOf
<1> QED BY <1>1, <1>2, <1>3, <1>4, <1>5, <1>6, <1>7

\* The lemmas on queues, for the chunks of a socket.
LEMMA DataLonger ==
  ASSUME NEW q \in Seq(TcpJobs), NEW m \in Seq(TcpJobs), NEW r \in Seq(TcpJobs), Longer(q, m, r),
         NEW s, NEW a \in Nat, NEW b \in Nat, Carried(q, DataOf(s), a, b),
         \A k \in DOMAIN m : m[k] \notin DataOf(s)
  PROVE  Carried(r, DataOf(s), a, b)
BY CarriedLonger

LEMMA DataHead ==
  ASSUME NEW q \in Seq(TcpJobs), NEW r \in Seq(TcpJobs), Shorter(q, r), 1 \in DOMAIN q,
         \A i \in DOMAIN q : q[i].c \in Nat,
         NEW s, NEW a \in Nat, NEW b \in Nat, Carried(q, DataOf(s), a, b), q[1] \in DataOf(s)
  PROVE  q[1].c = a + 1 /\ a + 1 <= b /\ Carried(r, DataOf(s), a + 1, b)
BY CarriedHead

LEMMA ClosesLonger ==
  ASSUME NEW q \in Seq(TcpJobs), NEW m \in Seq(TcpJobs), NEW r, Longer(q, m, r),
         NEW s, NEW said, NEW n, ClosesOf(q, s, said, n),
         \A k \in DOMAIN m : m[k] \notin CloseOf(s) \cup DataOf(s)
  PROVE  /\ ClosesOf(r, s, said, n)
         /\ (\E i \in DOMAIN r : r[i] \in CloseOf(s)) => \E i \in DOMAIN q : q[i] \in CloseOf(s)
<1>1. \A i \in DOMAIN r : r[i] \in CloseOf(s) \cup DataOf(s) => i \in DOMAIN q /\ r[i] = q[i]
  BY DEF Longer
<1> QED BY <1>1 DEF ClosesOf

LEMMA ClosesShorter ==
  ASSUME NEW q \in Seq(TcpJobs), NEW r \in Seq(TcpJobs), Shorter(q, r),
         NEW s, NEW said, NEW n, ClosesOf(q, s, said, n), q[1] \notin CloseOf(s)
  PROVE  /\ ClosesOf(r, s, said, n)
         /\ (\E i \in DOMAIN r : r[i] \in CloseOf(s)) => \E i \in DOMAIN q : q[i] \in CloseOf(s)
<1>1. \A i \in DOMAIN r : i \in Nat /\ i + 1 \in DOMAIN q /\ r[i] = q[i + 1]
  BY DEF Shorter
<1>2. \A i \in DOMAIN r : r[i] \in CloseOf(s) =>
        /\ said = <<>>
        /\ \A j \in DOMAIN r : r[j] \in CloseOf(s) => j = i
        /\ \A j \in DOMAIN r : r[j] \in DataOf(s) => j < i
  <2> SUFFICES ASSUME NEW i \in DOMAIN r, r[i] \in CloseOf(s)
               PROVE  /\ said = <<>>
                      /\ \A j \in DOMAIN r : r[j] \in CloseOf(s) => j = i
                      /\ \A j \in DOMAIN r : r[j] \in DataOf(s) => j < i
    OBVIOUS
  <2>1. /\ said = <<>>
        /\ \A j \in DOMAIN q : q[j] \in CloseOf(s) => j = i + 1
        /\ \A j \in DOMAIN q : q[j] \in DataOf(s) => j < i + 1
    BY <1>1 DEF ClosesOf
  <2>2. ASSUME NEW j \in DOMAIN r, r[j] \in CloseOf(s) PROVE j = i
    <3>1. j + 1 = i + 1
      BY <1>1, <2>1, <2>2
    <3> QED BY <1>1, <3>1
  <2>3. ASSUME NEW j \in DOMAIN r, r[j] \in DataOf(s) PROVE j < i
    <3>1. j + 1 < i + 1
      BY <1>1, <2>1, <2>3
    <3> QED BY <1>1, <3>1
  <2> QED BY <2>1, <2>2, <2>3
<1>3. said # <<>> => said = <<n>> /\ \A j \in DOMAIN r : r[j] \notin DataOf(s)
  BY <1>1 DEF ClosesOf
<1> QED BY <1>1, <1>2, <1>3 DEF ClosesOf

\* A step that brings nothing of a socket t leaves what is known of it.
LEMMA OthersAdded ==
  ASSUME NetworkAssumption, TcpTyped, SocketsKept, NEW t \in Tcp!Socks, OfSocket(t),
         NEW m \in Seq(TcpJobs), queue' \in Seq(TcpJobs), Longer(queue, m, queue'),
         \A k \in DOMAIN m : m[k] \notin CloseOf(t) \cup DataOf(t),
         h'.heard[t] = h.heard[t], h'.closes[t] = h.closes[t], h'.read[t] = h.read[t]
  PROVE  OfSocket(t)'
<1>0. /\ Carried(queue, DataOf(t), Len(h.heard[t]), h.read[t])
      /\ \A k \in DOMAIN m : m[k] \notin DataOf(t)
  BY DEF OfSocket, ChunksOf
<1>2. Carried(queue', DataOf(t), Len(h.heard[t]), h.read[t])
  <2>1. queue \in Seq(TcpJobs) /\ Len(h.heard[t]) \in Nat /\ h.read[t] \in Nat
    BY TcpNumbers
  <2> QED BY <1>0, <2>1, DataLonger
<1>3. /\ ClosesOf(queue', t, h.closes[t], h.read[t])
      /\ (\E i \in DOMAIN queue' : queue'[i] \in CloseOf(t)) =>
           \E i \in DOMAIN queue : queue[i] \in CloseOf(t)
  <2>1. queue \in Seq(TcpJobs)
    BY TcpNumbers
  <2>2. ClosesOf(queue, t, h.closes[t], h.read[t])
    BY DEF OfSocket
  <2> QED BY <2>1, <2>2, ClosesLonger
<1>4. Finished(sock[t], uv[t]) => Finished(sock'[t], uv'[t])
  BY DEF SocketsKept
<1>5. ChunksOf(queue', t, h'.heard[t], h'.read[t])
  BY <1>2 DEF OfSocket, ChunksOf
<1> QED BY <1>3, <1>4, <1>5 DEF OfSocket

LEMMA OthersTaken ==
  ASSUME NetworkAssumption, TcpTyped, SocketsKept, NEW t \in Tcp!Socks, OfSocket(t),
         queue # <<>>, queue' = Tail(queue), Head(queue) \notin CloseOf(t) \cup DataOf(t),
         h'.heard[t] = h.heard[t], h'.closes[t] = h.closes[t], h'.read[t] = h.read[t]
  PROVE  OfSocket(t)'
<1>1. queue' \in Seq(TcpJobs) /\ Shorter(queue, queue') /\ Head(queue) = queue[1]
  BY TcpNumbers, TailIsShorter
<1>0. /\ Carried(queue, DataOf(t), Len(h.heard[t]), h.read[t])
      /\ ClosesOf(queue, t, h.closes[t], h.read[t])
      /\ queue[1] \notin DataOf(t) /\ queue[1] \notin CloseOf(t)
  BY <1>1 DEF OfSocket, ChunksOf
<1>2. Carried(queue', DataOf(t), Len(h.heard[t]), h.read[t])
  BY <1>0, <1>1, TcpNumbers, CarriedShorter
<1>3. /\ ClosesOf(queue', t, h.closes[t], h.read[t])
      /\ (\E i \in DOMAIN queue' : queue'[i] \in CloseOf(t)) =>
           \E i \in DOMAIN queue : queue[i] \in CloseOf(t)
  BY <1>0, <1>1, TcpNumbers, ClosesShorter
<1>4. Finished(sock[t], uv[t]) => Finished(sock'[t], uv'[t])
  BY DEF SocketsKept
<1>5. ChunksOf(queue', t, h'.heard[t], h'.read[t])
  BY <1>2 DEF OfSocket, ChunksOf
<1> QED BY <1>3, <1>4, <1>5 DEF OfSocket

LEMMA ReadIsCarried ==
  ASSUME NetworkAssumption, TcpTyped, SocketsInv, Careful, SocketsKept, InputInv,
         NEW s \in Tcp!Socks, Tcp!Read(s)
  PROVE  InputInv'
<1> DEFINE n == h.read[s] + 1
           x == Tcp!Job("data", s, n)
<1>1. /\ sock[s].handle # 0 /\ uv[s][sock[s].handle] = "reading"
      /\ queue' = queue \o (IF sock[s].onData THEN <<x>> ELSE <<>>)
      /\ h' = [h EXCEPT !.read[s] = @ + 1, !.sent = @ + 1]
  BY DEF Tcp!Read, Tcp!Of, Tcp!Enqueue
<1>2. Heeded(sock[s], uv[s]) /\ Sound(sock[s], uv[s], CancelledOf(s), Kind(s))
      /\ sock[s].handle \in 1..Addrs
  BY <1>1, SocketIs DEF Right
<1>3. sock[s].onData /\ ~Finished(sock[s], uv[s])
  BY <1>1, <1>2 DEF Heeded, Finished
<1>4. n \in Nat /\ x \in TcpJobs /\ x \in DataOf(s) /\ x.c = n
  <2>1. n \in Nat
    BY TcpNumbers
  <2> QED BY <2>1 DEF DataOf, TcpJobs, TcpDone, Tcp!Job
<1>5. /\ h'.heard = h.heard /\ h'.closes = h.closes /\ h'.read[s] = n
      /\ \A t \in Tcp!Socks : t # s => h'.read[t] = h.read[t]
  BY <1>1, TcpNumbers DEF TcpHistories
<1>6. queue' = queue \o <<x>>
  BY <1>1, <1>3
<1>7. n = h.read[s] + 1
  OBVIOUS
<1> HIDE DEF x, n
<1>8. <<x>> \in Seq(TcpJobs) /\ DOMAIN <<x>> = {1} /\ <<x>>[1] = x
  BY <1>4
<1>9. ASSUME NEW t \in Tcp!Socks, t # s
      PROVE  OfSocket(t)'
  <2>1. x \notin CloseOf(t) \cup DataOf(t)
    BY <1>4, <1>9, TcpNumbers
  <2>2. \A k \in DOMAIN <<x>> : <<x>>[k] \notin CloseOf(t) \cup DataOf(t)
    BY <1>8, <2>1
  <2>3. OfSocket(t)
    BY DEF InputInv
  <2>4. queue' \in Seq(TcpJobs) /\ Longer(queue, <<x>>, queue')
    BY <1>6, <1>8, TcpNumbers, JoinIsLonger
  <2> QED BY <1>5, <1>8, <1>9, <2>2, <2>3, <2>4, OthersAdded
<1>10. OfSocket(s)'
  <2>1. /\ Len(h.heard[s]) <= h.read[s] /\ \A k \in DOMAIN h.heard[s] : h.heard[s][k] = k
        /\ Carried(queue, DataOf(s), Len(h.heard[s]), h.read[s])
        /\ h.closes[s] = <<>> /\ \A i \in DOMAIN queue : queue[i] \notin CloseOf(s)
    BY <1>3 DEF InputInv, OfSocket, ChunksOf
  <2>2. queue' \in Seq(TcpJobs) /\ Longer(queue, <<x>>, queue')
    BY <1>6, <1>8, TcpNumbers, JoinIsLonger
  <2>3. Carried(queue', DataOf(s), Len(h.heard[s]), h.read[s] + 1)
    BY <1>4, <1>7, <2>1, <2>2, TcpNumbers, CarriedOne
  <2>4. ChunksOf(queue', s, h'.heard[s], h'.read[s])
    BY <1>5, <1>7, <2>1, <2>3, TcpNumbers DEF ChunksOf
  <2>5. \A i \in DOMAIN queue' : queue'[i] \notin CloseOf(s)
    BY <1>4, <1>8, <2>1, <2>2, TcpNumbers DEF Longer
  <2>6. ClosesOf(queue', s, h'.closes[s], h'.read[s])
    BY <1>5, <2>1, <2>5 DEF ClosesOf
  <2> QED BY <1>5, <2>1, <2>4, <2>5, <2>6 DEF OfSocket
<1> QED BY <1>9, <1>10 DEF InputInv

LEMMA EndIsCarried ==
  ASSUME NetworkAssumption, TcpTyped, SocketsInv, Tcp!WorkMatches, SocketsKept, InputInv,
         NEW s \in Tcp!Socks, Tcp!EndOfRead(s)
  PROVE  InputInv'
<1> DEFINE x == Tcp!Job("close", s, 0)
<1>1. queue' = queue \o <<x>> /\ h' = h
  BY DEF Tcp!EndOfRead, Tcp!Enqueue
<1>2. ~Finished(sock[s], uv[s]) /\ Finished(sock'[s], uv'[s])
  BY EndOfReadKeeps
<1>3. x \in TcpJobs /\ x \in CloseOf(s)
  BY DEF CloseOf, TcpJobs, TcpDone, Tcp!Job
<1> HIDE DEF x
<1> DEFINE m == <<x>>
<1>4. m \in Seq(TcpJobs) /\ DOMAIN m = {1} /\ m[1] = x /\ Len(m) = 1 /\ queue' = queue \o m
  BY <1>1, <1>3
<1> HIDE DEF m
<1>5. ASSUME NEW t \in Tcp!Socks, t # s
      PROVE  OfSocket(t)'
  <2>1. x \notin CloseOf(t) \cup DataOf(t)
    BY <1>3, <1>5, TcpNumbers
  <2>2. \A k \in DOMAIN m : m[k] \notin CloseOf(t) \cup DataOf(t)
    BY <1>4, <2>1
  <2>3. OfSocket(t)
    BY DEF InputInv
  <2>4. queue' \in Seq(TcpJobs) /\ Longer(queue, m, queue')
    BY <1>1, <1>4, TcpNumbers, JoinIsLonger
  <2> QED BY <1>1, <1>4, <1>5, <2>2, <2>3, <2>4, OthersAdded
<1>6. OfSocket(s)'
  <2>1. /\ Len(h.heard[s]) <= h.read[s] /\ \A k \in DOMAIN h.heard[s] : h.heard[s][k] = k
        /\ Carried(queue, DataOf(s), Len(h.heard[s]), h.read[s])
        /\ h.closes[s] = <<>> /\ \A i \in DOMAIN queue : queue[i] \notin CloseOf(s)
    BY <1>2 DEF InputInv, OfSocket, ChunksOf
  <2>2. queue' \in Seq(TcpJobs) /\ Longer(queue, m, queue')
    BY <1>1, <1>4, TcpNumbers, JoinIsLonger
  <2>3. x \notin DataOf(s)
    BY <1>3, TcpNumbers
  <2>4. \A k \in DOMAIN m : m[k] \notin DataOf(s)
    BY <1>4, <2>3
  <2>5. Carried(queue', DataOf(s), Len(h.heard[s]), h.read[s])
    <3>1. queue \in Seq(TcpJobs) /\ Len(h.heard[s]) \in Nat /\ h.read[s] \in Nat
      BY TcpNumbers
    <3>2. Carried(queue, DataOf(s), Len(h.heard[s]), h.read[s])
      BY <2>1
    <3>3. m \in Seq(TcpJobs)
      BY <1>4
    <3> QED BY <2>2, <2>4, <3>1, <3>2, <3>3, DataLonger
  <2>6. ChunksOf(queue', s, h'.heard[s], h'.read[s])
    BY <1>1, <2>1, <2>5 DEF ChunksOf
  <2>7. \A i \in DOMAIN queue' :
          \/ i \in DOMAIN queue /\ queue'[i] = queue[i]
          \/ i \notin DOMAIN queue /\ i = Len(queue) + 1 /\ queue'[i] = x
    BY <1>4, <2>2, TcpNumbers DEF Longer
  <2>8. \A i \in DOMAIN queue' : queue'[i] \in CloseOf(s) => i = Len(queue) + 1
    BY <2>1, <2>7
  <2>9. \A i \in DOMAIN queue' : queue'[i] \in DataOf(s) => i < Len(queue) + 1
    <3>1. \A i \in DOMAIN queue : i < Len(queue) + 1
      BY TcpNumbers
    <3> QED BY <2>3, <2>7, <3>1
  <2>10. ClosesOf(queue', s, h'.closes[s], h'.read[s])
    BY <1>1, <2>1, <2>8, <2>9 DEF ClosesOf
  <2> QED BY <1>2, <2>6, <2>10 DEF OfSocket
<1> QED BY <1>5, <1>6 DEF InputInv

LEMMA ChunkIsHeard ==
  ASSUME NetworkAssumption, TcpTyped, SocketsInv, SocketsKept, InputInv, Tcp!RunHandler("data")
  PROVE  InputInv'
<1>0. queue # <<>> /\ Head(queue).do = "data" /\ queue' = Tail(queue)
  BY DEF Tcp!RunHandler, Tcp!Begin
<1>2. /\ queue' \in Seq(TcpJobs) /\ Shorter(queue, queue') /\ Head(queue) = queue[1]
      /\ 1 \in DOMAIN queue /\ queue[1] \in TcpJobs /\ queue \in Seq(TcpJobs)
  BY <1>0, TailIsShorter DEF TcpTyped
<1>3. PICK s \in Tcp!Socks : s = Head(queue).of /\ queue[1] \in DataOf(s)
  BY <1>0, <1>2 DEF TcpTyped, DataOf, TcpDone
<1>1. /\ queue # <<>> /\ queue' = Tail(queue)
      /\ h' = [h EXCEPT !.heard[s] = Append(@, Head(queue).c)]
  BY <1>0, <1>3 DEF Tcp!RunHandler
<1>4. queue[1].c \in Nat /\ h.heard[s] \in Seq(Nat) /\ h \in TcpHistories
  BY <1>2, <1>3, TcpNumbers
<1> DEFINE new == Append(h.heard[s], queue[1].c)
<1>5. new \in Seq(Nat) /\ Len(new) = Len(h.heard[s]) + 1
      /\ \A k \in DOMAIN new : (k \in DOMAIN h.heard[s] /\ new[k] = h.heard[s][k])
                               \/ (k = Len(h.heard[s]) + 1 /\ new[k] = queue[1].c)
  BY <1>4
<1>6. /\ h'.heard[s] = new /\ h'.closes = h.closes /\ h'.read = h.read
      /\ \A t \in Tcp!Socks : t # s => h'.heard[t] = h.heard[t]
  BY <1>1, <1>2, <1>3, <1>4 DEF TcpHistories
<1> HIDE DEF new
<1>7. ASSUME NEW t \in Tcp!Socks, t # s
      PROVE  OfSocket(t)'
  <2>1. Head(queue) \notin CloseOf(t) \cup DataOf(t)
    BY <1>2, <1>3, <1>7, TcpNumbers
  <2>2. OfSocket(t)
    BY DEF InputInv
  <2> QED BY <1>1, <1>6, <1>7, <2>1, <2>2, OthersTaken
<1>8. OfSocket(s)'
  <2>1. /\ Len(h.heard[s]) <= h.read[s] /\ \A k \in DOMAIN h.heard[s] : h.heard[s][k] = k
        /\ Carried(queue, DataOf(s), Len(h.heard[s]), h.read[s])
        /\ ClosesOf(queue, s, h.closes[s], h.read[s])
        /\ h.closes[s] # <<>> \/ (\E i \in DOMAIN queue : queue[i] \in CloseOf(s)) =>
             Finished(sock[s], uv[s])
    BY <1>3 DEF InputInv, OfSocket, ChunksOf
  <2>2. /\ Len(h.heard[s]) \in Nat /\ h.read[s] \in Nat
        /\ \A i \in DOMAIN queue : queue[i].c \in Nat
    BY <1>3, TcpNumbers
  <2>3. /\ queue[1].c = Len(h.heard[s]) + 1 /\ Len(h.heard[s]) + 1 <= h.read[s]
        /\ Carried(queue', DataOf(s), Len(h.heard[s]) + 1, h.read[s])
    BY <1>2, <1>3, <2>1, <2>2, DataHead
  <2>4. ChunksOf(queue', s, h'.heard[s], h'.read[s])
    BY <1>5, <1>6, <2>1, <2>3 DEF ChunksOf
  <2>5. queue[1] \notin CloseOf(s)
    BY <1>3, TcpNumbers
  <2>6. /\ ClosesOf(queue', s, h.closes[s], h.read[s])
        /\ (\E i \in DOMAIN queue' : queue'[i] \in CloseOf(s)) =>
             \E i \in DOMAIN queue : queue[i] \in CloseOf(s)
    BY <1>2, <2>1, <2>5, ClosesShorter
  <2>7. Finished(sock[s], uv[s]) => Finished(sock'[s], uv'[s])
    BY <1>3 DEF SocketsKept
  <2> QED BY <1>6, <2>1, <2>4, <2>6, <2>7 DEF OfSocket
<1> QED BY <1>7, <1>8 DEF InputInv

LEMMA CloseIsHeard ==
  ASSUME NetworkAssumption, TcpTyped, SocketsInv, SocketsKept, InputInv, Tcp!RunHandler("close")
  PROVE  InputInv'
<1>0. queue # <<>> /\ Head(queue).do = "close" /\ queue' = Tail(queue)
  BY DEF Tcp!RunHandler, Tcp!Begin
<1>2. /\ queue' \in Seq(TcpJobs) /\ Shorter(queue, queue') /\ Head(queue) = queue[1]
      /\ 1 \in DOMAIN queue /\ queue[1] \in TcpJobs /\ queue \in Seq(TcpJobs)
  BY <1>0, TailIsShorter DEF TcpTyped
<1>3. PICK s \in Tcp!Socks : s = Head(queue).of /\ queue[1] \in CloseOf(s)
  BY <1>0, <1>2 DEF TcpTyped, CloseOf, TcpDone
<1>1. /\ queue # <<>> /\ queue' = Tail(queue)
      /\ h' = [h EXCEPT !.closes[s] = Append(@, Len(h.heard[s]))]
  BY <1>0, <1>3 DEF Tcp!RunHandler
<1>4. h.heard[s] \in Seq(Nat) /\ h.closes[s] \in Seq(Nat) /\ h \in TcpHistories
      /\ Len(h.heard[s]) \in Nat /\ h.read[s] \in Nat
  BY <1>3, TcpNumbers
<1>5. /\ h'.closes[s] = Append(h.closes[s], Len(h.heard[s])) /\ h'.heard = h.heard
      /\ h'.read = h.read /\ \A t \in Tcp!Socks : t # s => h'.closes[t] = h.closes[t]
  BY <1>1, <1>3, <1>4 DEF TcpHistories
<1>6. ASSUME NEW t \in Tcp!Socks, t # s
      PROVE  OfSocket(t)'
  <2>1. Head(queue) \notin CloseOf(t) \cup DataOf(t)
    BY <1>2, <1>3, <1>6, TcpNumbers
  <2>2. OfSocket(t)
    BY DEF InputInv
  <2> QED BY <1>1, <1>5, <1>6, <2>1, <2>2, OthersTaken
<1>7. OfSocket(s)'
  <2>1. /\ Len(h.heard[s]) <= h.read[s] /\ \A k \in DOMAIN h.heard[s] : h.heard[s][k] = k
        /\ Carried(queue, DataOf(s), Len(h.heard[s]), h.read[s])
        /\ h.closes[s] = <<>> /\ Finished(sock[s], uv[s])
        /\ \A j \in DOMAIN queue : queue[j] \in CloseOf(s) => j = 1
        /\ \A j \in DOMAIN queue : queue[j] \in DataOf(s) => j < 1
    BY <1>2, <1>3 DEF InputInv, OfSocket, ChunksOf, ClosesOf
  <2>2. \A j \in DOMAIN queue : queue[j] \notin DataOf(s)
    <3>1. \A j \in DOMAIN queue : j \in Nat /\ j >= 1
      BY <1>2
    <3> QED BY <2>1, <3>1
  <2>3. Len(h.heard[s]) = h.read[s]
    <3>1. SUFFICES ASSUME Len(h.heard[s]) < h.read[s] PROVE FALSE
      BY <1>4, <2>1
    <3>2. h.read[s] \in (Len(h.heard[s]) + 1)..h.read[s]
      BY <1>4, <3>1
    <3> QED BY <2>1, <2>2, <3>2 DEF Carried
  <2>4. h'.closes[s] = <<h'.read[s]>>
    BY <1>4, <1>5, <2>1, <2>3
  <2>5. Carried(queue', DataOf(s), Len(h.heard[s]), h.read[s])
    <3>1. queue[1] \notin DataOf(s)
      BY <1>2, <2>2
    <3> QED BY <1>2, <1>4, <2>1, <3>1, CarriedShorter
  <2>6. ChunksOf(queue', s, h'.heard[s], h'.read[s])
    BY <1>5, <2>1, <2>5 DEF ChunksOf
  <2>7. \A i \in DOMAIN queue' : queue'[i] \notin CloseOf(s) /\ queue'[i] \notin DataOf(s)
    <3>1. \A i \in DOMAIN queue' : i \in Nat /\ i > 0 /\ i + 1 \in DOMAIN queue /\ queue'[i] = queue[i + 1]
      BY <1>2 DEF Shorter
    <3>2. ASSUME NEW i \in DOMAIN queue', queue'[i] \in CloseOf(s) PROVE FALSE
      <4>1. i + 1 = 1
        BY <2>1, <3>1, <3>2
      <4> QED BY <3>1, <4>1
    <3> QED BY <2>2, <3>1, <3>2
  <2>8. ClosesOf(queue', s, h'.closes[s], h'.read[s])
    BY <2>4, <2>7 DEF ClosesOf
  <2>9. Finished(sock'[s], uv'[s])
    BY <1>3, <2>1 DEF SocketsKept
  <2> QED BY <2>6, <2>8, <2>9 DEF OfSocket
<1> QED BY <1>6, <1>7 DEF InputInv

LEMMA InputStep ==
  ASSUME NetworkAssumption, TcpTyped, SocketsInv, Tcp!WorkMatches, Careful, InputInv, Tcp!Next
  PROVE  InputInv'
<1>1. SocketsKept
  BY SocketsStep
<1>2. CASE Added
  <2> SUFFICES ASSUME NEW t \in Tcp!Socks PROVE OfSocket(t)'
    BY DEF InputInv
  <2>1. PICK m \in Seq(Aside) : queue' = queue \o m
    BY <1>2 DEF Added
  <2>2. m \in Seq(TcpJobs) /\ \A k \in DOMAIN m : m[k] \in Aside
    BY AsideIs
  <2>3. \A k \in DOMAIN m : m[k] \notin CloseOf(t) \cup DataOf(t)
    BY <2>2, TcpNumbers
  <2>4. OfSocket(t)
    BY DEF InputInv
  <2>5. h'.heard[t] = h.heard[t] /\ h'.closes[t] = h.closes[t] /\ h'.read[t] = h.read[t]
    BY <1>2 DEF Added, Unheard
  <2>6. queue' \in Seq(TcpJobs) /\ Longer(queue, m, queue')
    BY <2>1, <2>2, TcpNumbers, JoinIsLonger
  <2> QED BY <1>1, <2>2, <2>3, <2>4, <2>5, <2>6, OthersAdded
<1>3. CASE Taken
  <2> SUFFICES ASSUME NEW t \in Tcp!Socks PROVE OfSocket(t)'
    BY DEF InputInv
  <2>1. queue # <<>> /\ queue' = Tail(queue) /\ Head(queue) \in Aside
    BY <1>3 DEF Taken
  <2>2. Head(queue) \notin CloseOf(t) \cup DataOf(t)
    BY <2>1, TcpNumbers
  <2>3. OfSocket(t)
    BY DEF InputInv
  <2>4. h'.heard[t] = h.heard[t] /\ h'.closes[t] = h.closes[t] /\ h'.read[t] = h.read[t]
    BY <1>3 DEF Taken, Unheard
  <2> QED BY <1>1, <2>1, <2>2, <2>3, <2>4, OthersTaken
<1> QED BY <1>1, <1>2, <1>3, TalkSteps, ReadIsCarried, EndIsCarried, ChunkIsHeard, CloseIsHeard

-----------------------------------------------------------------------------
\* The whole of it.
TcpInv == TcpTyped /\ SocketsInv /\ Tcp!WorkMatches /\ (Careful => InputInv)

LEMMA TcpBegins ==
  ASSUME NetworkAssumption, Tcp!Init
  PROVE  TcpInv
<1>1. /\ sock = [s \in Tcp!Socks |-> Tcp!Fresh]
      /\ uv = [s \in Tcp!Socks |-> [a \in 1..Addrs |-> "none"]]
      /\ peer = [s \in Tcp!Socks |-> [owed |-> 0, failed |-> FALSE]]
      /\ srv = [handle |-> "none", closed |-> FALSE, lost |-> 0]
      /\ work = 0 /\ queue = <<>> /\ at = "script"
      /\ h = [sent |-> 0, read |-> [s \in Tcp!Socks |-> 0], heard |-> [s \in Tcp!Socks |-> <<>>],
              closes |-> [s \in Tcp!Socks |-> <<>>], calls |-> 0, cancelled |-> {}]
  BY DEF Tcp!Init
<1>2. Addrs \in Nat \ {0} /\ Chunks \in Nat /\ Calls \in Nat
  BY DEF NetworkAssumption, Tcp!TcpAssumption
<1>3. Tcp!Fresh \in Records /\ [a \in 1..Addrs |-> "none"] \in Rows
  BY FreshIs DEF Rows, HandleStates
<1>4. h \in TcpHistories
  <2>1. [s \in Tcp!Socks |-> 0] \in [Tcp!Socks -> 0..Chunks] /\ 0 \in 0..Chunks /\ 0 \in 0..Calls
    BY <1>2
  <2>2. [s \in Tcp!Socks |-> <<>>] \in [Tcp!Socks -> Seq(Nat)]
    OBVIOUS
  <2> QED BY <1>1, <2>1, <2>2 DEF TcpHistories
<1>5. \A s \in Tcp!Socks : h.read[s] = 0 /\ h.sent = 0 /\ h.heard[s] = <<>> /\ h.closes[s] = <<>>
  BY <1>1
<1>6. TcpTyped
  <2>1. sock \in [Tcp!Socks -> Records] /\ uv \in [Tcp!Socks -> Rows]
    BY <1>1, <1>3
  <2>2. peer \in [Tcp!Socks -> [owed : Nat, failed : BOOLEAN]]
        /\ srv \in [handle : {"none", "idle", "listening"}, closed : BOOLEAN, lost : Nat]
    BY <1>1
  <2>3. queue \in Seq(TcpJobs) /\ DOMAIN queue = {} /\ work \in Int /\ at = "script"
    BY <1>1
  <2> QED BY <1>4, <1>5, <2>1, <2>2, <2>3 DEF TcpTyped
<1>7. \A s \in Tcp!Socks : sock[s] = Tcp!Fresh /\ \A a \in 1..Addrs : uv[s][a] = "none"
  BY <1>1
<1>8. h.cancelled = {}
  BY <1>1
<1>9. SocketsInv
  <2> SUFFICES ASSUME NEW s \in Tcp!Socks
               PROVE  Right(sock[s], uv[s], CancelledOf(s), Kind(s))
    BY DEF SocketsInv
  <2>1. CancelledOf(s) = {}
    BY <1>8 DEF CancelledOf
  <2>2. /\ sock[s].walk = "none" /\ sock[s].handle = 0 /\ ~sock[s].onData /\ ~sock[s].reading
    BY <1>7 DEF Tcp!Fresh
  <2> QED BY <1>2, <1>7, <2>1, <2>2 DEF Right, Sound, Heeded, UnderWay
<1>10. Tcp!WorkMatches
  <2>1. \A s \in Tcp!Socks : ~Tcp!Counted(s) /\ ~Tcp!EndedByPeer(s)
    BY <1>7 DEF Tcp!Fresh, Tcp!Counted, Tcp!EndedByPeer
  <2>2. {s \in Tcp!Socks : Tcp!Counted(s)} = {} /\ {s \in Tcp!Socks : Tcp!EndedByPeer(s)} = {}
    BY <2>1
  <2>3. Tcp!Cardinality({}) = 0
    BY SameCardinality, FS_EmptySet
  <2>4. /\ Tcp!Cardinality({s \in Tcp!Socks : Tcp!Counted(s)}) = 0
        /\ Tcp!Cardinality({s \in Tcp!Socks : Tcp!EndedByPeer(s)}) = 0
        /\ Tcp!Cardinality(h.cancelled) = 0
    BY <1>8, <2>2, <2>3
  <2>5. work = 0 /\ 0 = 0 - 0 - 0
    BY <1>1
  <2> QED BY <2>4, <2>5 DEF Tcp!WorkMatches
<1>11. InputInv
  <2> SUFFICES ASSUME NEW s \in Tcp!Socks
               PROVE  OfSocket(s)
    BY DEF InputInv
  <2>1. DOMAIN queue = {} /\ Len(h.heard[s]) = 0 /\ DOMAIN h.heard[s] = {}
        /\ h.read[s] = 0 /\ h.closes[s] = <<>>
    BY <1>1, <1>5
  <2> QED BY <2>1 DEF OfSocket, ChunksOf, ClosesOf, Carried
<1> QED BY <1>6, <1>9, <1>10, <1>11 DEF TcpInv

LEMMA TcpSteps ==
  ASSUME NetworkAssumption, TcpInv, [Tcp!Next]_(Tcp!vars)
  PROVE  TcpInv'
<1>1. CASE UNCHANGED Tcp!vars
  <2>1. UNCHANGED <<sock, uv, peer, srv, work, queue, at, h>>
    BY <1>1 DEF Tcp!vars
  <2>2. TcpTyped' /\ SocketsInv' /\ Tcp!WorkMatches'
    BY <2>1 DEF TcpInv, TcpTyped, SocketsInv, CancelledOf, Tcp!WorkMatches, Tcp!Counted,
                Tcp!EndedByPeer
  <2>3. Careful => InputInv'
    BY <2>1 DEF TcpInv, InputInv, OfSocket
  <2> QED BY <2>2, <2>3 DEF TcpInv
<1>2. CASE Tcp!Next
  <2>1. TcpTyped' /\ SocketsKept
    BY <1>2, TypesStep, SocketsStep DEF TcpInv
  <2>2. Careful => InputInv'
    BY <1>2, InputStep DEF TcpInv
  <2> QED BY <2>1, <2>2 DEF TcpInv, SocketsKept
<1> QED BY <1>1, <1>2

\* What the invariant says.
LEMMA TcpIsTyped ==
  ASSUME NetworkAssumption, TcpTyped
  PROVE  Tcp!TypeOK
<1>1. sock \in [Tcp!Socks -> Records]
  BY DEF TcpTyped
<1>2. uv \in [Tcp!Socks -> [1..Addrs -> {"none", "connecting", "idle", "reading", "gone"} \cup Tcp!Closing]]
  <2>1. HandleStates = {"none", "connecting", "idle", "reading", "gone"} \cup Tcp!Closing
    BY DEF HandleStates, Tcp!Closing
  <2>2. uv \in [Tcp!Socks -> Rows]
    BY DEF TcpTyped
  <2> QED BY <2>1, <2>2 DEF Rows
<1>3. \A i \in DOMAIN queue : queue[i].of \in Tcp!Socks \cup {"server"}
  <2>1. \A x \in TcpJobs : x.of \in Tcp!Socks \cup {"server"}
    BY DEF TcpJobs
  <2> QED BY <2>1 DEF TcpTyped
<1>4. h.read \in [Tcp!Socks -> 0..Chunks] /\ h.calls \in 0..Calls
      /\ h.cancelled \subseteq Clients \X (1..Addrs)
  <2>1. h \in TcpHistories
    BY DEF TcpTyped
  <2> QED BY <2>1 DEF TcpHistories
<1> QED BY <1>1, <1>2, <1>3, <1>4 DEF TcpTyped, Tcp!TypeOK, Records, Walks

LEMMA HandlesAreOwned ==
  ASSUME NetworkAssumption, TcpTyped, SocketsInv
  PROVE  Tcp!NoDoubleClose /\ Tcp!OwnerIsKept
<1>1. ASSUME NEW s \in Tcp!Socks, Tcp!Alive(s)
      PROVE  Tcp!Of(s) \in {"connecting", "idle", "reading"}
  <2>1. Sound(sock[s], uv[s], CancelledOf(s), Kind(s)) /\ Tcp!Of(s) = uv[s][sock[s].handle]
    BY SocketIs DEF Right
  <2> QED BY <1>1, <2>1 DEF Sound, Tcp!Alive
<1>2. ASSUME NEW s \in Tcp!Socks, NEW a \in 1..Addrs, uv[s][a] \in UnderWay
      PROVE  sock[s].kept \/ Tcp!WasCancelled(s)
  <2>1. Sound(sock[s], uv[s], CancelledOf(s), Kind(s))
    BY SocketIs DEF Right
  <2>2. sock[s].kept \/ CancelledOf(s) # {}
    BY <1>2, <2>1 DEF Sound
  <2> QED BY <2>2 DEF CancelledOf, Tcp!WasCancelled
<1> QED BY <1>1, <1>2 DEF Tcp!NoDoubleClose, Tcp!OwnerIsKept, UnderWay

LEMMA ReadersRead ==
  ASSUME NetworkAssumption, TcpTyped, SocketsInv, Careful
  PROVE  Tcp!HeededIsRead
<1> SUFFICES ASSUME NEW s \in Tcp!Socks, sock[s].walk = "open", sock[s].onData, ~sock[s].paused,
                    Tcp!Alive(s)
             PROVE  Tcp!Of(s) = "reading"
  BY DEF Tcp!HeededIsRead
<1>1. Heeded(sock[s], uv[s]) /\ Tcp!Of(s) = uv[s][sock[s].handle]
  BY SocketIs DEF Right
<1> QED BY <1>1 DEF Heeded, Tcp!Alive

LEMMA AllIsHeard ==
  ASSUME NetworkAssumption, TcpTyped, InputInv
  PROVE  Tcp!ReadIsHeard /\ Tcp!CloseComesLast
<1>1. ASSUME NEW s \in Tcp!Socks
      PROVE  /\ Len(h.heard[s]) <= h.read[s] /\ \A n \in DOMAIN h.heard[s] : h.heard[s][n] = n
             /\ {queue[i].c : i \in Tcp!DataWaiting(s)} = (Len(h.heard[s]) + 1)..h.read[s]
             /\ \A i, j \in Tcp!DataWaiting(s) : i < j => queue[i].c < queue[j].c
             /\ h.closes[s] # <<>> => h.closes[s] = <<h.read[s]>>
  <2>1. /\ Len(h.heard[s]) <= h.read[s] /\ \A n \in DOMAIN h.heard[s] : h.heard[s][n] = n
        /\ Carried(queue, DataOf(s), Len(h.heard[s]), h.read[s])
        /\ h.closes[s] # <<>> => h.closes[s] = <<h.read[s]>>
    BY DEF InputInv, OfSocket, ChunksOf, ClosesOf
  <2>2. /\ Len(h.heard[s]) \in Nat /\ h.read[s] \in Nat
        /\ \A i \in DOMAIN queue : queue[i].c \in Nat /\ queue[i] \in TcpJobs
    BY TcpNumbers
  <2>3. /\ \A i \in DOMAIN queue : queue[i] \in DataOf(s) <=> i \in Tcp!DataWaiting(s)
        /\ Tcp!DataWaiting(s) \subseteq DOMAIN queue
    BY <2>2 DEF DataOf, Tcp!DataWaiting
  <2>4. ASSUME NEW i \in Tcp!DataWaiting(s)
        PROVE  queue[i].c \in (Len(h.heard[s]) + 1)..h.read[s]
    BY <2>1, <2>2, <2>3 DEF Carried
  <2>5. ASSUME NEW n \in (Len(h.heard[s]) + 1)..h.read[s]
        PROVE  \E i \in Tcp!DataWaiting(s) : queue[i].c = n
    BY <2>1, <2>3 DEF Carried
  <2>6. {queue[i].c : i \in Tcp!DataWaiting(s)} = (Len(h.heard[s]) + 1)..h.read[s]
    BY <2>4, <2>5
  <2>7. \A i, j \in Tcp!DataWaiting(s) : i < j => queue[i].c < queue[j].c
    BY <2>1, <2>3 DEF Carried
  <2> QED BY <2>1, <2>6, <2>7
<1> QED BY <1>1 DEF Tcp!ReadIsHeard, Tcp!CloseComesLast

-----------------------------------------------------------------------------
\* The theorems. The sockets over TCP and ping need nothing of the script for
\* their part; a script that drops a UDP socket while it closes, or closes one
\* while it binds, does what the module is not ready for.
Strands == TcpInv /\ PingInv
NetworkInv == Strands /\ UdpTyped /\ UdpInv /\ HeardInv

LEMMA StrandsBegin == MCInit => Strands
BY NetworkAssumption, TcpBegins, PingBegins DEF MCInit, Strands

LEMMA StrandsStep == Strands /\ [MCNext]_allvars => Strands'
<1> SUFFICES ASSUME Strands, [MCNext]_allvars PROVE Strands'
  OBVIOUS
<1>1. [Tcp!Next]_(Tcp!vars)
  BY DEF MCNext, allvars, OfTcp, OfLoop, OfNet, OfUdp, OfPromises, tcpVars, Tcp!vars
<1>2. Net!Next \/ UNCHANGED netVars
  BY DEF MCNext, allvars, OfTcp, OfLoop, OfNet, OfUdp, OfPromises
<1>3. TcpInv'
  BY <1>1, NetworkAssumption, TcpSteps DEF Strands
<1>4. CASE Net!Next
  BY <1>3, <1>4, NetworkAssumption, PingSteps DEF Strands
<1>5. CASE UNCHANGED netVars
  <2>1. UNCHANGED <<ping, try, lookup, pending, turn>>
    BY <1>5 DEF netVars
  <2>2. PingInv'
    BY <2>1 DEF Strands, PingInv, AttemptInv, CountInv, Net!TypeOK, Net!PingIsDriven,
                Net!WorkIsGivenBack, Net!Stranded
  <2> QED BY <1>3, <2>2 DEF Strands
<1> QED BY <1>2, <1>4, <1>5

LEMMA NetworkBegins == MCInit => NetworkInv
BY NetworkAssumption, StrandsBegin, UdpBegins, HeardBegins DEF MCInit, NetworkInv

LEMMA NetworkSteps == UdpCareless = {} /\ NetworkInv /\ [MCNext]_allvars => NetworkInv'
<1> SUFFICES ASSUME UdpCareless = {}, NetworkInv, [MCNext]_allvars PROVE NetworkInv'
  OBVIOUS
<1>1. [Udp!Next]_(Udp!uvars)
  BY DEF MCNext, allvars, OfTcp, OfLoop, OfNet, OfUdp, OfPromises, udpVars, Udp!uvars
<1> QED BY <1>1, NetworkAssumption, StrandsStep, UdpSteps, UdpHeardSteps DEF NetworkInv

\* What keeps the loop alive is counted once and given back once: the counter of
\* the sockets is the number of clients under way, less what is known to be
\* given back twice, and every ping under way has a callback to go on with.
THEOREM LoopIsKeptAlive == MCSpec => []WorkIsCounted
<1>1. Strands => WorkIsCounted
  BY NetworkAssumption, PingHolds DEF Strands, TcpInv, WorkIsCounted
<1> QED BY <1>1, StrandsBegin, StrandsStep, PTL DEF MCSpec

\* The variables of the sockets and of ping keep their types.
THEOREM NetworkIsTyped ==
  ASSUME UdpCareless = {}
  PROVE  MCSpec => []NetworkTypeOK
<1>1. NetworkInv => NetworkTypeOK
  BY NetworkAssumption, PingHolds, UdpIsTyped, TcpIsTyped
  DEF NetworkInv, Strands, TcpInv, NetworkTypeOK
<1> QED BY <1>1, NetworkBegins, NetworkSteps, PTL DEF MCSpec

\* A handle of libuv is closed once, keeps its socket as long as it may call
\* back, and is used only while it is open, whatever addresses fail and whoever
\* closes.
THEOREM HandlesHaveOwners ==
  ASSUME UdpCareless = {}
  PROVE  MCSpec => []SocketsOwnHandles
<1>1. NetworkInv => SocketsOwnHandles
  BY NetworkAssumption, HandlesAreOwned, UdpHandles
  DEF NetworkInv, Strands, TcpInv, SocketsOwnHandles
<1> QED BY <1>1, NetworkBegins, NetworkSteps, PTL DEF MCSpec

\* What a socket reads is heard, whole and in its order, and its close after
\* that; the script waits for its connections and listens before it resumes.
THEOREM EverythingReadIsHeard ==
  ASSUME UdpCareless = {}, Careful
  PROVE  MCSpec => []InputIsHeard
<1>1. NetworkInv => InputIsHeard
  BY NetworkAssumption, AllIsHeard, ReadersRead, HeardHolds
  DEF NetworkInv, Strands, TcpInv, InputIsHeard
<1> QED BY <1>1, NetworkBegins, NetworkSteps, PTL DEF MCSpec
=============================================================================
