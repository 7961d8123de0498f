---------------------------- MODULE WorkerProofs ----------------------------
(***************************************************************************)
(* What main and its workers may rely on, for any workers, cap and number  *)
(* of messages: messages are heard one by one in their order, the exit     *)
(* event comes once and last, main does not sleep through it, and a worker *)
(* that listens stays.                                                     *)
(***************************************************************************)
EXTENDS Worker, TLAPS

\* A message that is being sent has its number.
OpInv == op.call = "send" => sent[op.w] > 0

\* Main's queue holds what it has not heard of what was said, each once and in
\* its order.
QueueInv ==
  /\ \A w \in Workers : heard[w] <= said[w]
  /\ \A i \in DOMAIN mq : mq[i].what = "message" =>
       heard[mq[i].w] < mq[i].n /\ mq[i].n <= said[mq[i].w]
  /\ \A w \in Workers, n \in 1..MaxSaid : heard[w] < n /\ n <= said[w] =>
       \E i \in DOMAIN mq : mq[i] = [what |-> "message", w |-> w, n |-> n]
  /\ \A i, j \in DOMAIN mq :
       i < j /\ mq[i].what = "message" /\ mq[j].what = "message" /\ mq[i].w = mq[j].w
         => mq[i].n < mq[j].n

\* The exit event of a worker is queued by the last step of its thread, behind
\* its messages, and nothing of it is left in the queue once it was handled.
ExitInv ==
  /\ \A i \in DOMAIN mq : mq[i].what = "exit" =>
       /\ wpc[mq[i].w] = "dead" /\ exits[mq[i].w] = 0
       /\ \A j \in DOMAIN mq : j # i /\ mq[j].w = mq[i].w => mq[j].what = "message" /\ j < i
  /\ \A w \in Workers : exits[w] = 1 =>
       wpc[w] = "dead" /\ \A i \in DOMAIN mq : mq[i].w # w

\* A worker that runs has a thread that has not yet sent its exit event.
RunInv == \A w \in Workers : running[w] => wpc[w] \notin {"none", "halted", "dead"}

\* What holds a listening worker in its loop goes only when it is told to stop.
ListenInv ==
  \A w \in Workers : listening[w] /\ wpc[w] \notin Ending => keep[w] \/ wstop[w]

IInv ==
  /\ TypeOK /\ OpInv /\ QueueInv /\ ExitInv /\ RunInv /\ ListenInv
  /\ ListenersStay /\ NoHang

USE WorkerAssumption

-----------------------------------------------------------------------------
\* Main's queue: what its head and its tail are, and what an append adds.
LEMMA Taken ==
  ASSUME NEW S, NEW q \in Seq(S), q # <<>>
  PROVE  /\ Head(q) = q[1] /\ 1 \in DOMAIN q /\ q[1] \in S /\ Tail(q) \in Seq(S)
         /\ \A i \in DOMAIN Tail(q) : i \in Nat \ {0} /\ i + 1 \in DOMAIN q /\ Tail(q)[i] = q[i + 1]
         /\ \A i \in DOMAIN q : i # 1 => i - 1 \in DOMAIN Tail(q) /\ Tail(q)[i - 1] = q[i]
  OBVIOUS

LEMMA Appended ==
  ASSUME NEW S, NEW q \in Seq(S), NEW x \in S
  PROVE  /\ Append(q, x) \in Seq(S)
         /\ \A i \in DOMAIN q :
              i \in Nat /\ i <= Len(q) /\ i \in DOMAIN Append(q, x) /\ Append(q, x)[i] = q[i]
         /\ Len(q) + 1 \in DOMAIN Append(q, x) /\ Append(q, x)[Len(q) + 1] = x
         /\ \A i \in DOMAIN Append(q, x) : i \in DOMAIN q \/ i = Len(q) + 1
         /\ Len(q) \in Nat
  OBVIOUS

LEMMA Excepts ==
  ASSUME NEW S, NEW T, NEW f \in [S -> T], NEW x \in S, NEW v \in T
  PROVE  [f EXCEPT ![x] = v] \in [S -> T]
  OBVIOUS

-----------------------------------------------------------------------------
\* Types, one conjunct per variable.
Types ==
  /\ main \in {"code", "loop", "poll", "join", "gone"}
  /\ mq \in Seq(Task) /\ mwake \in BOOLEAN /\ registry \subseteq Workers
  /\ op = NoOp \/ op \in [call: {"send", "terminate"}, w: Workers, saw: BOOLEAN]
  /\ running \in [Workers -> BOOLEAN] /\ terminated \in [Workers -> BOOLEAN]
  /\ published \in [Workers -> BOOLEAN] /\ listening \in [Workers -> BOOLEAN]
  /\ keep \in [Workers -> BOOLEAN] /\ failed \in [Workers -> BOOLEAN]
  /\ alive \in [Workers -> BOOLEAN] /\ wwake \in [Workers -> BOOLEAN]
  /\ wstop \in [Workers -> BOOLEAN] /\ other \in [Workers -> BOOLEAN]
  /\ pending \in [Workers -> Seq(1..MaxSent)] /\ wq \in [Workers -> Seq(1..MaxSent)]
  /\ redeliver \in [Workers -> Seq(1..MaxSent)]
  /\ sent \in [Workers -> 0..MaxSent] /\ exits \in [Workers -> 0..1]
  /\ said \in [Workers -> 0..MaxSaid] /\ heard \in [Workers -> 0..MaxSaid]
  /\ wpc \in [Workers -> WorkerPcs]

LEMMA SameTypes == TypeOK <=> Types
  BY DEF TypeOK, Types

\* Only the exit handler needs more than the types of before.
LEMMA TypeStep ==
  ASSUME Types, OpInv, ExitInv, [Next]_vars
  PROVE  Types'
<1> USE DEF Types, Set, At, mainVars, ctxVars, loopVars, threadVars, counts
<1>1. CASE Buffer
  <2>1. op.w \in Workers /\ sent[op.w] \in 1..MaxSent
    BY <1>1 DEF Buffer, OpInv, NoOp
  <2>2. pending' \in [Workers -> Seq(1..MaxSent)]
    <3>1. Append(pending[op.w], sent[op.w]) \in Seq(1..MaxSent)
      BY <2>1
    <3>2. pending' = [pending EXCEPT ![op.w] = Append(pending[op.w], sent[op.w])]
      BY <1>1 DEF Buffer
    <3> QED BY ONLY <2>1, <3>1, <3>2, Excepts, Types
  <2>3. op' = NoOp
    BY <1>1 DEF Buffer
  <2> QED BY <1>1, <2>2, <2>3 DEF Buffer
<1>2. CASE Deliver
  <2>1. op.w \in Workers /\ sent[op.w] \in 1..MaxSent
    BY <1>2 DEF Deliver, OpInv, NoOp
  <2>2. /\ wq' \in [Workers -> Seq(1..MaxSent)] /\ wwake' \in [Workers -> BOOLEAN]
    <3>1. Append(wq[op.w], sent[op.w]) \in Seq(1..MaxSent)
      BY <2>1
    <3>2. CASE alive[op.w]
      <4>1. wq' = [wq EXCEPT ![op.w] = Append(wq[op.w], sent[op.w])]
            /\ wwake' = [wwake EXCEPT ![op.w] = TRUE]
        BY <1>2, <3>2 DEF Deliver
      <4>2. wq \in [Workers -> Seq(1..MaxSent)] /\ wwake \in [Workers -> BOOLEAN]
        OBVIOUS
      <4> QED BY ONLY <2>1, <3>1, <4>1, <4>2, Excepts
    <3>3. CASE ~alive[op.w]
      BY <1>2, <3>3 DEF Deliver
    <3> QED BY <3>2, <3>3
  <2> QED BY <1>2, <2>2 DEF Deliver
<1>3. CASE StopWorker
  BY <1>3 DEF StopWorker, NoOp
<1>4. CASE EndCode \/ IdleTest \/ WakeMain \/ JoinAll
  BY <1>4 DEF EndCode, IdleTest, WakeMain, JoinAll
<1>5. CASE HandleMessage
  <2>1. mq[1] \in Task /\ Tail(mq) \in Seq(Task) /\ Head(mq) = mq[1]
    BY <1>5, Taken DEF HandleMessage
  <2> QED BY <1>5, <2>1 DEF HandleMessage, Task
<1>6. CASE HandleExit
  <2>1. mq[1] \in Task /\ Tail(mq) \in Seq(Task) /\ Head(mq) = mq[1] /\ 1 \in DOMAIN mq
    BY <1>6, Taken DEF HandleExit
  <2>2. exits[mq[1].w] = 0
    BY <1>6, <2>1 DEF HandleExit, ExitInv
  <2>3. mq[1].w \in Workers
    BY <2>1 DEF Task
  <2>4. exits' = [exits EXCEPT ![mq[1].w] = 1] /\ mq' = Tail(mq) /\ main' = "code"
    <3>1. /\ exits' = [exits EXCEPT ![Head(mq).w] = exits[Head(mq).w] + 1]
          /\ mq' = Tail(mq) /\ main' = "code"
      BY <1>6 DEF HandleExit
    <3>2. Head(mq).w = mq[1].w /\ exits[mq[1].w] + 1 = 1
      BY <2>1, <2>2
    <3> QED BY ONLY <3>1, <3>2
  <2>5. exits' \in [Workers -> 0..1]
    <3>1. exits \in [Workers -> 0..1] /\ 1 \in 0..1
      OBVIOUS
    <3>2. [exits EXCEPT ![mq[1].w] = 1] \in [Workers -> 0..1]
      BY ONLY <2>3, <3>1, Excepts
    <3> QED BY <2>4, <3>2
  <2> QED BY <1>6, <2>1, <2>4, <2>5 DEF HandleExit
<1>7. ASSUME NEW w \in Workers, Spawn(w)
      PROVE  Types'
  BY <1>7 DEF Spawn, Evicted, WorkerPcs
<1>8. ASSUME NEW w \in Workers, Send(w) \/ Terminate(w)
      PROVE  Types'
  <2>1. CASE Send(w)
    <3>1. sent[w] + 1 \in 0..MaxSent
      BY <2>1 DEF Send
    <3>2. sent' \in [Workers -> 0..MaxSent]
      BY <2>1, <3>1 DEF Send
    <3>3. op' \in [call: {"send", "terminate"}, w: Workers, saw: BOOLEAN]
      BY <2>1 DEF Send
    <3> QED BY <2>1, <3>2, <3>3 DEF Send
  <2>2. CASE Terminate(w)
    <3>1. op' \in [call: {"send", "terminate"}, w: Workers, saw: BOOLEAN]
      BY <2>2 DEF Terminate
    <3> QED BY <2>2, <3>1 DEF Terminate
  <2> QED BY <1>8, <2>1, <2>2
<1>9. ASSUME NEW w \in Workers, Publish(w) \/ TakePending(w) \/ StartScript(w)
      PROVE  Types'
  <2>1. CASE Publish(w)
    BY <2>1 DEF Publish, WorkerPcs
  <2>2. CASE TakePending(w)
    <3>1. pending[w] \in Seq(1..MaxSent) /\ <<>> \in Seq(1..MaxSent)
      OBVIOUS
    <3> QED BY <2>2, <3>1 DEF TakePending, WorkerPcs
  <2>3. CASE StartScript(w)
    BY <2>3 DEF StartScript, WorkerPcs
  <2> QED BY <1>9, <2>1, <2>2, <2>3
<1>10. ASSUME NEW w \in Workers, Redeliver(w)
       PROVE  Types'
  <2>1. Head(redeliver[w]) \in 1..MaxSent /\ Tail(redeliver[w]) \in Seq(1..MaxSent)
    BY <1>10 DEF Redeliver
  <2>2. wq' \in [Workers -> Seq(1..MaxSent)]
    <3>1. Append(wq[w], Head(redeliver[w])) \in Seq(1..MaxSent)
      BY <2>1
    <3>2. wq' = [wq EXCEPT ![w] = Append(wq[w], Head(redeliver[w]))]
      BY <1>10 DEF Redeliver
    <3> QED BY ONLY <3>1, <3>2, Excepts, Types
  <2>3. redeliver' \in [Workers -> Seq(1..MaxSent)] /\ wwake' \in [Workers -> BOOLEAN]
    <3>1. /\ redeliver' = [redeliver EXCEPT ![w] = Tail(redeliver[w])]
          /\ wwake' = [wwake EXCEPT ![w] = TRUE]
      BY <1>10 DEF Redeliver
    <3> QED BY ONLY <2>1, <3>1, Excepts, Types
  <2> QED BY <1>10, <2>2, <2>3 DEF Redeliver
<1>11. ASSUME NEW w \in Workers,
              Listen(w) \/ OpenHandle(w) \/ CloseHandle(w) \/ SelfTerminate(w)
       PROVE  Types'
  <2>1. CASE Listen(w)
    BY <2>1 DEF Listen
  <2>2. CASE OpenHandle(w) \/ CloseHandle(w)
    BY <2>2 DEF OpenHandle, CloseHandle
  <2>3. CASE SelfTerminate(w)
    BY <2>3 DEF SelfTerminate
  <2> QED BY <1>11, <2>1, <2>2, <2>3
<1>12. ASSUME NEW w \in Workers, Throw(w) \/ Return(w)
       PROVE  Types'
  BY <1>12 DEF Throw, Return, WorkerPcs
<1>13. ASSUME NEW w \in Workers, Say(w)
       PROVE  Types'
  <2>1. said[w] + 1 \in 0..MaxSaid
    BY <1>13 DEF Say
  <2>2. [what |-> "message", w |-> w, n |-> said[w] + 1] \in Task
    BY <2>1 DEF Task
  <2>3. mq' \in Seq(Task)
    BY <1>13, <2>2 DEF Say
  <2> QED BY <1>13, <2>1, <2>3 DEF Say
<1>14. ASSUME NEW w \in Workers, TakeMessage(w)
       PROVE  Types'
  <2>1. Tail(wq[w]) \in Seq(1..MaxSent)
    BY <1>14 DEF TakeMessage
  <2> QED BY <1>14, <2>1 DEF TakeMessage, WorkerPcs
<1>15. ASSUME NEW w \in Workers, Block(w) \/ Wake(w) \/ HandleEvent(w) \/ LeaveLoop(w)
       PROVE  Types'
  <2>1. CASE Block(w)
    BY <2>1 DEF Block, WorkerPcs
  <2>2. CASE Wake(w)
    BY <2>2 DEF Wake, WorkerPcs
  <2>3. CASE HandleEvent(w) \/ LeaveLoop(w)
    BY <2>3 DEF HandleEvent, LeaveLoop, WorkerPcs
  <2> QED BY <1>15, <2>1, <2>2, <2>3
<1>16. ASSUME NEW w \in Workers, Unwind(w) \/ Destroy(w) \/ Unpublish(w) \/ Halt(w)
       PROVE  Types'
  <2>1. <<>> \in Seq(1..MaxSent)
    OBVIOUS
  <2>2. CASE Destroy(w)
    BY <2>1, <2>2 DEF Destroy, WorkerPcs
  <2>3. CASE Unwind(w) \/ Unpublish(w)
    BY <2>3 DEF Unwind, Unpublish, WorkerPcs
  <2>4. CASE Halt(w)
    BY <2>4 DEF Halt, WorkerPcs
  <2> QED BY <1>16, <2>2, <2>3, <2>4
<1>17. ASSUME NEW w \in Workers, FireExit(w)
       PROVE  Types'
  <2>1. Exit(w) \in Task
    BY DEF Exit, Task
  <2> QED BY <1>17, <2>1 DEF FireExit, WorkerPcs
<1>18. CASE UNCHANGED vars
  BY <1>18 DEF vars
<1> QED
  BY <1>1, <1>2, <1>3, <1>4, <1>5, <1>6, <1>7, <1>8, <1>9, <1>10, <1>11, <1>12, <1>13,
     <1>14, <1>15, <1>16, <1>17, <1>18 DEF Next, MainStep, WorkerStep, Choice

-----------------------------------------------------------------------------
\* A thread that has come to its end stays there, and one that was spawned is
\* never "none" again.
LEMMA DeadStay ==
  ASSUME Types, [Next]_vars, NEW v \in Workers, wpc[v] # "none"
  PROVE  wpc'[v] # "none" /\ (wpc[v] = "dead" => wpc'[v] = "dead")
<1> USE DEF Types, Set, At, threadVars
<1>1. CASE MainStep
  BY <1>1 DEF MainStep, Buffer, Deliver, StopWorker, EndCode, HandleMessage, HandleExit,
              IdleTest, WakeMain, JoinAll
<1>2. ASSUME NEW w \in Workers, WorkerStep(w)
      PROVE  wpc'[v] # "none" /\ (wpc[v] = "dead" => wpc'[v] = "dead")
  <2>1. CASE Publish(w) \/ TakePending(w) \/ Redeliver(w) \/ StartScript(w) \/ Return(w)
    BY <2>1 DEF Publish, TakePending, Redeliver, StartScript, Return, InWorker
  <2>2. CASE TakeMessage(w) \/ Block(w) \/ Wake(w) \/ LeaveLoop(w)
    BY <2>2 DEF TakeMessage, Block, Wake, LeaveLoop
  <2>3. CASE Unwind(w) \/ Destroy(w) \/ Unpublish(w) \/ Halt(w) \/ FireExit(w)
    BY <2>3 DEF Unwind, Destroy, Unpublish, Halt, FireExit
  <2> QED BY <1>2, <2>1, <2>2, <2>3 DEF WorkerStep
<1>3. ASSUME NEW w \in Workers, Choice(w)
      PROVE  wpc'[v] # "none" /\ (wpc[v] = "dead" => wpc'[v] = "dead")
  BY <1>3 DEF Choice, Spawn, Send, Terminate, Listen, Say, OpenHandle, CloseHandle,
              SelfTerminate, Throw, HandleEvent
<1>4. CASE UNCHANGED vars
  BY <1>4 DEF vars
<1> QED BY <1>1, <1>2, <1>3, <1>4 DEF Next

\* The steps that touch main's queue, and the rest.
LEMMA QueueSteps ==
  ASSUME [Next]_vars
  PROVE  \/ UNCHANGED <<mq, said, heard, exits>>
         \/ HandleMessage \/ HandleExit \/ \E w \in Workers : Say(w) \/ FireExit(w)
<1> USE DEF mainVars, counts
<1>1. CASE MainStep
  BY <1>1 DEF MainStep, Buffer, Deliver, StopWorker, EndCode, IdleTest, WakeMain, JoinAll
<1>2. ASSUME NEW w \in Workers, WorkerStep(w), ~FireExit(w)
      PROVE  UNCHANGED <<mq, said, heard, exits>>
  BY <1>2 DEF WorkerStep, Publish, TakePending, Redeliver, StartScript, Return,
              TakeMessage, Block, Wake, LeaveLoop, Unwind, Destroy, Unpublish, Halt
<1>3. ASSUME NEW w \in Workers, Choice(w), ~Say(w)
      PROVE  UNCHANGED <<mq, said, heard, exits>>
  BY <1>3 DEF Choice, Spawn, Send, Terminate, Listen, OpenHandle, CloseHandle,
              SelfTerminate, Throw, HandleEvent
<1>4. CASE UNCHANGED vars
  BY <1>4 DEF vars
<1> QED BY <1>1, <1>2, <1>3, <1>4 DEF Next

-----------------------------------------------------------------------------
LEMMA InQueue ==
  ASSUME Types, NEW i \in DOMAIN mq
  PROVE  i \in Nat \ {0} /\ mq[i].w \in Workers /\ mq[i].n \in 0..MaxSaid
<1>1. mq[i] \in Task /\ i \in Nat \ {0}
  BY DEF Types
<1> QED BY <1>1 DEF Task

\* The message main takes next is the one after the last it heard.
LEMMA NextIsFirst ==
  ASSUME Types, QueueInv, mq # <<>>, mq[1].what = "message"
  PROVE  mq[1].w \in Workers /\ mq[1].n = heard[mq[1].w] + 1 /\ mq[1].n <= said[mq[1].w]
<1>1. 1 \in DOMAIN mq /\ mq[1] \in Task
  BY Taken DEF Types
<1>2. mq[1].w \in Workers /\ mq[1].n \in Nat
  BY <1>1 DEF Task
<1>3. heard[mq[1].w] \in Nat /\ said[mq[1].w] \in 0..MaxSaid
  BY <1>2 DEF Types
<1>4. heard[mq[1].w] < mq[1].n /\ mq[1].n <= said[mq[1].w]
  BY <1>1 DEF QueueInv
<1>5. heard[mq[1].w] + 1 \in 1..MaxSaid /\ heard[mq[1].w] + 1 <= said[mq[1].w]
  BY <1>2, <1>3, <1>4
<1>6. PICK i \in DOMAIN mq :
        mq[i] = [what |-> "message", w |-> mq[1].w, n |-> heard[mq[1].w] + 1]
  BY <1>2, <1>3, <1>5 DEF QueueInv
<1>7. i = 1 \/ 1 < i
  BY DEF Types
<1>8. 1 < i => mq[1].n < mq[i].n
  BY <1>1, <1>6 DEF QueueInv
<1>9. mq[i].n = heard[mq[1].w] + 1
  BY <1>6
<1>10. mq[1].n = heard[mq[1].w] + 1
  <2>1. CASE i = 1
    BY <1>9, <2>1
  <2>2. CASE 1 < i
    BY <1>2, <1>3, <1>4, <1>8, <1>9, <2>2
  <2> QED BY <1>7, <2>1, <2>2
<1> QED BY <1>2, <1>4, <1>10

LEMMA HeardStep ==
  ASSUME Types, QueueInv, ExitInv, HandleMessage, wpc' = wpc
  PROVE  QueueInv' /\ ExitInv'
<1> DEFINE w == mq[1].w
<1>1. /\ mq # <<>> /\ mq' = Tail(mq) /\ mq[1].what = "message"
      /\ heard' = [heard EXCEPT ![w] = mq[1].n] /\ said' = said /\ exits' = exits
  <2>1. mq # <<>> /\ mq' = Tail(mq) /\ mq \in Seq(Task)
    BY DEF HandleMessage, Types
  <2>2. Head(mq) = mq[1]
    BY <2>1, Taken
  <2> QED BY <2>1, <2>2 DEF HandleMessage, Set, counts
<1>2. w \in Workers /\ mq[1].n = heard[w] + 1 /\ mq[1].n <= said[w]
  BY <1>1, NextIsFirst
<1>3. /\ 1 \in DOMAIN mq
      /\ \A i \in DOMAIN mq' : i \in Nat \ {0} /\ i + 1 \in DOMAIN mq /\ mq'[i] = mq[i + 1]
      /\ \A i \in DOMAIN mq : i # 1 => i - 1 \in DOMAIN mq' /\ mq'[i - 1] = mq[i]
  BY <1>1, Taken DEF Types
<1>4. heard \in [Workers -> Nat] /\ said \in [Workers -> Nat]
  BY DEF Types
<1>5. heard'[w] = mq[1].n /\ \A v \in Workers : v # w => heard'[v] = heard[v]
  BY <1>1, <1>2, <1>4
<1>6. \A i \in DOMAIN mq : i \in Nat /\ mq[i].w \in Workers /\ mq[i].n \in Nat
  BY InQueue
<1> HIDE DEF w
<1>7. \A v \in Workers : heard'[v] <= said'[v]
  BY <1>1, <1>2, <1>4, <1>5 DEF QueueInv
<1>8. ASSUME NEW i \in DOMAIN mq', mq'[i].what = "message"
      PROVE  heard'[mq'[i].w] < mq'[i].n /\ mq'[i].n <= said'[mq'[i].w]
  <2>1. /\ i + 1 \in DOMAIN mq /\ mq'[i] = mq[i + 1] /\ 1 < i + 1
        /\ mq[i + 1].w \in Workers
    BY <1>3, <1>6
  <2>2. heard[mq[i + 1].w] < mq[i + 1].n /\ mq[i + 1].n <= said[mq[i + 1].w]
    BY <1>8, <2>1 DEF QueueInv
  <2>3. mq[i + 1].w = w => mq[1].n < mq[i + 1].n
    BY <1>1, <1>3, <1>8, <2>1 DEF QueueInv, w
  <2> QED BY <1>1, <1>5, <2>1, <2>2, <2>3
<1>9. ASSUME NEW v \in Workers, NEW n \in 1..MaxSaid, heard'[v] < n, n <= said'[v]
      PROVE  \E i \in DOMAIN mq' : mq'[i] = [what |-> "message", w |-> v, n |-> n]
  <2>1. heard[v] < n
    BY <1>2, <1>4, <1>5, <1>9
  <2>2. PICK i \in DOMAIN mq : mq[i] = [what |-> "message", w |-> v, n |-> n]
    BY <1>1, <1>9, <2>1 DEF QueueInv
  <2>3. i # 1
    <3>1. CASE v = w
      BY <1>4, <1>5, <1>9, <2>2, <3>1
    <3>2. CASE v # w
      BY <2>2, <3>2 DEF w
    <3> QED BY <3>1, <3>2
  <2> QED BY <1>3, <2>2, <2>3
<1>10. ASSUME NEW i \in DOMAIN mq', NEW j \in DOMAIN mq', i < j,
              mq'[i].what = "message", mq'[j].what = "message", mq'[i].w = mq'[j].w
       PROVE  mq'[i].n < mq'[j].n
  <2>1. i + 1 < j + 1 /\ i + 1 \in DOMAIN mq /\ j + 1 \in DOMAIN mq
    BY <1>3, <1>10
  <2> QED BY <1>3, <1>10, <2>1 DEF QueueInv
<1>11. QueueInv'
  BY <1>7, <1>8, <1>9, <1>10 DEF QueueInv
<1>12. ASSUME NEW i \in DOMAIN mq', mq'[i].what = "exit"
       PROVE  /\ wpc'[mq'[i].w] = "dead" /\ exits'[mq'[i].w] = 0
              /\ \A j \in DOMAIN mq' : j # i /\ mq'[j].w = mq'[i].w =>
                                         mq'[j].what = "message" /\ j < i
  <2>1. wpc[mq'[i].w] = "dead" /\ exits[mq'[i].w] = 0
    BY <1>3, <1>12 DEF ExitInv
  <2>2. ASSUME NEW j \in DOMAIN mq', j # i, mq'[j].w = mq'[i].w
        PROVE  mq'[j].what = "message" /\ j < i
    <3>1. /\ i \in Nat /\ j \in Nat /\ i + 1 \in DOMAIN mq /\ j + 1 \in DOMAIN mq
          /\ mq'[i] = mq[i + 1] /\ mq'[j] = mq[j + 1]
      BY <1>3
    <3>2. j + 1 # i + 1
      BY <2>2, <3>1
    <3>3. mq[j + 1].what = "message" /\ j + 1 < i + 1
      BY <1>12, <2>2, <3>1, <3>2 DEF ExitInv
    <3> QED BY <3>1, <3>3
  <2> QED BY <1>1, <2>1, <2>2
<1>13. \A v \in Workers : exits'[v] = 1 => wpc'[v] = "dead" /\ \A i \in DOMAIN mq' : mq'[i].w # v
  BY <1>1, <1>3 DEF ExitInv
<1> QED BY <1>11, <1>12, <1>13 DEF ExitInv

LEMMA ExitHandledStep ==
  ASSUME Types, QueueInv, ExitInv, HandleExit, wpc' = wpc
  PROVE  QueueInv' /\ ExitInv'
<1> DEFINE w == mq[1].w
<1>1. /\ mq # <<>> /\ mq' = Tail(mq) /\ mq[1].what = "exit"
      /\ exits' = [exits EXCEPT ![w] = exits[w] + 1] /\ said' = said /\ heard' = heard
  <2>1. mq # <<>> /\ mq' = Tail(mq) /\ mq \in Seq(Task)
    BY DEF HandleExit, Types
  <2>2. Head(mq) = mq[1]
    BY <2>1, Taken
  <2> QED BY <2>1, <2>2 DEF HandleExit, Set, counts
<1>2. /\ 1 \in DOMAIN mq
      /\ \A i \in DOMAIN mq' : i \in Nat \ {0} /\ i + 1 \in DOMAIN mq /\ mq'[i] = mq[i + 1]
      /\ \A i \in DOMAIN mq : i # 1 => i - 1 \in DOMAIN mq' /\ mq'[i - 1] = mq[i]
  BY <1>1, Taken DEF Types
<1>3. w \in Workers /\ \A i \in DOMAIN mq : i \in Nat \ {0}
  BY <1>2, InQueue
<1>4. wpc[w] = "dead" /\ exits[w] = 0
  BY <1>1, <1>2 DEF ExitInv
<1>5. \A i \in DOMAIN mq : i # 1 => mq[i].w # w
  <2>1. \A i \in DOMAIN mq : i # 1 /\ mq[i].w = w => i < 1
    BY <1>1, <1>2 DEF ExitInv
  <2> QED BY <1>3, <2>1
<1>6. exits'[w] = 1 /\ \A v \in Workers : v # w => exits'[v] = exits[v]
  BY <1>1, <1>3, <1>4 DEF Types
<1>7. \A i \in DOMAIN mq' : mq'[i].w # w /\ mq'[i].w \in Workers
  <2> TAKE i \in DOMAIN mq'
  <2>1. i + 1 # 1 /\ i + 1 \in DOMAIN mq /\ mq'[i] = mq[i + 1]
    BY <1>2
  <2> QED BY <1>5, <2>1, InQueue
<1> HIDE DEF w
<1>8. QueueInv'
  <2>1. \A i \in DOMAIN mq' : mq'[i].what = "message" =>
          heard'[mq'[i].w] < mq'[i].n /\ mq'[i].n <= said'[mq'[i].w]
    BY <1>1, <1>2 DEF QueueInv
  <2>2. ASSUME NEW v \in Workers, NEW n \in 1..MaxSaid, heard'[v] < n, n <= said'[v]
        PROVE  \E i \in DOMAIN mq' : mq'[i] = [what |-> "message", w |-> v, n |-> n]
    <3>1. PICK i \in DOMAIN mq : mq[i] = [what |-> "message", w |-> v, n |-> n]
      BY <1>1, <2>2 DEF QueueInv
    <3>2. i # 1
      BY <1>1, <3>1
    <3> QED BY <1>2, <3>1, <3>2
  <2>3. ASSUME NEW i \in DOMAIN mq', NEW j \in DOMAIN mq', i < j,
               mq'[i].what = "message", mq'[j].what = "message", mq'[i].w = mq'[j].w
        PROVE  mq'[i].n < mq'[j].n
    <3>1. i + 1 < j + 1 /\ i + 1 \in DOMAIN mq /\ j + 1 \in DOMAIN mq
      BY <1>2, <2>3
    <3> QED BY <1>2, <2>3, <3>1 DEF QueueInv
  <2> QED BY <1>1, <2>1, <2>2, <2>3 DEF QueueInv
<1>9. ASSUME NEW i \in DOMAIN mq', mq'[i].what = "exit"
      PROVE  /\ wpc'[mq'[i].w] = "dead" /\ exits'[mq'[i].w] = 0
             /\ \A j \in DOMAIN mq' : j # i /\ mq'[j].w = mq'[i].w =>
                                        mq'[j].what = "message" /\ j < i
  <2>1. wpc[mq'[i].w] = "dead" /\ exits[mq'[i].w] = 0
    BY <1>2, <1>9 DEF ExitInv
  <2>2. exits'[mq'[i].w] = 0
    BY <1>6, <1>7, <2>1
  <2>3. ASSUME NEW j \in DOMAIN mq', j # i, mq'[j].w = mq'[i].w
        PROVE  mq'[j].what = "message" /\ j < i
    <3>1. /\ i \in Nat /\ j \in Nat /\ i + 1 \in DOMAIN mq /\ j + 1 \in DOMAIN mq
          /\ mq'[i] = mq[i + 1] /\ mq'[j] = mq[j + 1]
      BY <1>2
    <3>2. j + 1 # i + 1
      BY <2>3, <3>1
    <3>3. mq[j + 1].what = "message" /\ j + 1 < i + 1
      BY <1>9, <2>3, <3>1, <3>2 DEF ExitInv
    <3> QED BY <3>1, <3>3
  <2> QED BY <2>1, <2>2, <2>3
<1>10. ASSUME NEW v \in Workers, exits'[v] = 1
       PROVE  wpc'[v] = "dead" /\ \A i \in DOMAIN mq' : mq'[i].w # v
  <2>1. CASE v = w
    BY <1>4, <1>7, <2>1
  <2>2. CASE v # w
    BY <1>2, <1>6, <1>10, <2>2 DEF ExitInv
  <2> QED BY <2>1, <2>2
<1> QED BY <1>8, <1>9, <1>10 DEF ExitInv

\* A worker that can still say something has no exit event yet.
LEMMA SayStep ==
  ASSUME Types, QueueInv, ExitInv, NEW w \in Workers, Say(w)
  PROVE  QueueInv' /\ ExitInv'
<1> DEFINE m == [what |-> "message", w |-> w, n |-> said[w] + 1]
           k == Len(mq) + 1
<1>1. /\ mq' = Append(mq, m) /\ said' = [said EXCEPT ![w] = said[w] + 1]
      /\ said[w] < MaxSaid /\ heard' = heard /\ exits' = exits /\ wpc' = wpc
      /\ wpc[w] # "dead"
  BY DEF Say, Set, InWorker, threadVars
<1>2. said \in [Workers -> Nat] /\ heard \in [Workers -> Nat]
  BY DEF Types
<1>3. m \in Task /\ mq \in Seq(Task)
  BY <1>1, <1>2 DEF Task, Types
<1>4. m.what = "message" /\ m.w = w /\ m.n = said[w] + 1
  OBVIOUS
<1> HIDE DEF m
<1>5. /\ \A i \in DOMAIN mq : i \in Nat /\ i < k /\ i \in DOMAIN mq' /\ mq'[i] = mq[i]
      /\ k \in DOMAIN mq' /\ mq'[k] = m /\ k \in Nat
      /\ \A i \in DOMAIN mq' : i \in DOMAIN mq \/ i = k
  <2>1. \A i \in Nat : i <= Len(mq) /\ Len(mq) \in Nat => i < Len(mq) + 1
    OBVIOUS
  <2> QED BY <1>1, <1>3, <2>1, Appended
<1> HIDE DEF k
<1>6. said'[w] = said[w] + 1 /\ \A v \in Workers : v # w => said'[v] = said[v]
  BY <1>1, <1>2
<1>7. \A v \in Workers : heard'[v] <= said'[v] /\ said[v] <= said'[v]
  BY <1>1, <1>2, <1>6 DEF QueueInv
<1>8. ASSUME NEW i \in DOMAIN mq', mq'[i].what = "message"
      PROVE  heard'[mq'[i].w] < mq'[i].n /\ mq'[i].n <= said'[mq'[i].w]
  <2>1. CASE i = k
    <3>1. heard[w] <= said[w]
      BY DEF QueueInv
    <3> QED BY <1>1, <1>2, <1>4, <1>5, <1>6, <2>1, <3>1
  <2>2. CASE i \in DOMAIN mq
    <3>1. mq'[i] = mq[i] /\ mq[i].w \in Workers /\ mq[i].n \in Nat
      BY <1>5, <2>2, InQueue
    <3>2. heard[mq[i].w] < mq[i].n /\ mq[i].n <= said[mq[i].w]
      BY <1>8, <2>2, <3>1 DEF QueueInv
    <3>3. said[mq[i].w] \in Nat /\ said'[mq[i].w] \in Nat /\ said[mq[i].w] <= said'[mq[i].w]
      BY <1>1, <1>2, <1>6, <1>7, <3>1
    <3> QED BY <1>1, <3>1, <3>2, <3>3
  <2> QED BY <1>5, <2>1, <2>2
<1>9. ASSUME NEW v \in Workers, NEW n \in 1..MaxSaid, heard'[v] < n, n <= said'[v]
      PROVE  \E i \in DOMAIN mq' : mq'[i] = [what |-> "message", w |-> v, n |-> n]
  <2>1. CASE v = w /\ n = said[w] + 1
    BY <1>5, <2>1 DEF m
  <2>2. CASE ~(v = w /\ n = said[w] + 1)
    <3>1. heard[v] < n /\ n <= said[v]
      BY <1>1, <1>2, <1>6, <1>9, <2>2
    <3>2. PICK i \in DOMAIN mq : mq[i] = [what |-> "message", w |-> v, n |-> n]
      BY <3>1 DEF QueueInv
    <3> QED BY <1>5, <3>2
  <2> QED BY <2>1, <2>2
<1>10. ASSUME NEW i \in DOMAIN mq', NEW j \in DOMAIN mq', i < j,
              mq'[i].what = "message", mq'[j].what = "message", mq'[i].w = mq'[j].w
       PROVE  mq'[i].n < mq'[j].n
  <2>1. i \in DOMAIN mq /\ mq'[i] = mq[i] /\ mq[i].n \in Nat
    <3>1. i # k
      BY <1>5, <1>10
    <3> QED BY <1>5, <3>1, InQueue
  <2>2. CASE j = k
    <3>1. mq[i].w = w /\ mq[i].n <= said[w]
      BY <1>4, <1>5, <1>10, <2>1, <2>2 DEF QueueInv
    <3> QED BY <1>2, <1>4, <1>5, <2>1, <2>2, <3>1
  <2>3. CASE j \in DOMAIN mq
    BY <1>5, <1>10, <2>1, <2>3 DEF QueueInv
  <2> QED BY <1>5, <2>2, <2>3
<1>11. QueueInv'
  BY <1>7, <1>8, <1>9, <1>10 DEF QueueInv
<1>12. ASSUME NEW i \in DOMAIN mq', mq'[i].what = "exit"
       PROVE  /\ wpc'[mq'[i].w] = "dead" /\ exits'[mq'[i].w] = 0
              /\ \A j \in DOMAIN mq' : j # i /\ mq'[j].w = mq'[i].w =>
                                         mq'[j].what = "message" /\ j < i
  <2>1. i \in DOMAIN mq /\ mq'[i] = mq[i] /\ mq[i].what = "exit"
    BY <1>4, <1>5, <1>12
  <2>2. wpc[mq[i].w] = "dead" /\ exits[mq[i].w] = 0
    BY <2>1 DEF ExitInv
  <2>3. ASSUME NEW j \in DOMAIN mq', j # i, mq'[j].w = mq'[i].w
        PROVE  mq'[j].what = "message" /\ j < i
    <3>1. j # k
      BY <1>1, <1>4, <1>5, <2>1, <2>2, <2>3
    <3> QED BY <1>5, <2>1, <2>3, <3>1 DEF ExitInv
  <2> QED BY <1>1, <2>1, <2>2, <2>3
<1>13. \A v \in Workers : exits'[v] = 1 => wpc'[v] = "dead" /\ \A i \in DOMAIN mq' : mq'[i].w # v
  BY <1>1, <1>4, <1>5 DEF ExitInv
<1> QED BY <1>11, <1>12, <1>13 DEF ExitInv

\* Before its exit event a worker has none, and what it said is ahead of it.
LEMMA FireExitStep ==
  ASSUME Types, QueueInv, ExitInv, NEW w \in Workers, FireExit(w)
  PROVE  QueueInv' /\ ExitInv'
<1> DEFINE k == Len(mq) + 1
<1>1. /\ mq' = Append(mq, Exit(w)) /\ said' = said /\ heard' = heard /\ exits' = exits
      /\ wpc[w] = "halted" /\ wpc' = [wpc EXCEPT ![w] = "dead"]
  BY DEF FireExit, At, Set, counts
<1>2. Exit(w) \in Task /\ mq \in Seq(Task) /\ Exit(w).what = "exit" /\ Exit(w).w = w
  BY DEF Task, Types, Exit
<1>3. /\ \A i \in DOMAIN mq : i \in Nat /\ i < k /\ i \in DOMAIN mq' /\ mq'[i] = mq[i]
      /\ k \in DOMAIN mq' /\ mq'[k] = Exit(w) /\ k \in Nat
      /\ \A i \in DOMAIN mq' : i \in DOMAIN mq \/ i = k
  <2>1. \A i \in Nat : i <= Len(mq) /\ Len(mq) \in Nat => i < Len(mq) + 1
    OBVIOUS
  <2> QED BY <1>1, <1>2, <2>1, Appended
<1> HIDE DEF k
<1>4. wpc'[w] = "dead" /\ \A v \in Workers : v # w => wpc'[v] = wpc[v]
  BY <1>1 DEF Types
<1>5. exits[w] = 0 /\ \A i \in DOMAIN mq : mq[i].w = w => mq[i].what = "message"
  <2>1. exits[w] # 1
    BY <1>1 DEF ExitInv
  <2>2. exits[w] \in 0..1
    BY DEF Types
  <2>3. \A i \in DOMAIN mq : mq[i].what \in {"message", "exit"}
    <3>1. \A i \in DOMAIN mq : mq[i] \in Task
      BY DEF Types
    <3> QED BY <3>1 DEF Task
  <2> QED BY <1>1, <2>1, <2>2, <2>3 DEF ExitInv
<1>6. QueueInv'
  <2>1. \A i \in DOMAIN mq' : mq'[i].what = "message" => i \in DOMAIN mq /\ mq'[i] = mq[i]
    BY <1>2, <1>3
  <2>2. ASSUME NEW v \in Workers, NEW n \in 1..MaxSaid, heard'[v] < n, n <= said'[v]
        PROVE  \E i \in DOMAIN mq' : mq'[i] = [what |-> "message", w |-> v, n |-> n]
    <3>1. PICK i \in DOMAIN mq : mq[i] = [what |-> "message", w |-> v, n |-> n]
      BY <1>1, <2>2 DEF QueueInv
    <3> QED BY <1>3, <3>1
  <2> QED BY <1>1, <2>1, <2>2 DEF QueueInv
<1>7. ASSUME NEW i \in DOMAIN mq', mq'[i].what = "exit"
      PROVE  /\ wpc'[mq'[i].w] = "dead" /\ exits'[mq'[i].w] = 0
             /\ \A j \in DOMAIN mq' : j # i /\ mq'[j].w = mq'[i].w =>
                                        mq'[j].what = "message" /\ j < i
  <2>1. CASE i = k
    <3>1. mq'[i].w = w /\ exits'[w] = 0
      BY <1>1, <1>2, <1>3, <1>5, <2>1
    <3>2. ASSUME NEW j \in DOMAIN mq', j # i, mq'[j].w = mq'[i].w
          PROVE  mq'[j].what = "message" /\ j < i
      BY <1>3, <1>5, <2>1, <3>1, <3>2
    <3> QED BY <1>4, <3>1, <3>2
  <2>2. CASE i \in DOMAIN mq
    <3>1. mq'[i] = mq[i] /\ mq[i].what = "exit" /\ mq[i].w \in Workers
      BY <1>3, <1>7, <2>2, InQueue
    <3>2. wpc[mq[i].w] = "dead" /\ exits[mq[i].w] = 0 /\ mq[i].w # w
      BY <1>1, <2>2, <3>1 DEF ExitInv
    <3>3. ASSUME NEW j \in DOMAIN mq', j # i, mq'[j].w = mq'[i].w
          PROVE  mq'[j].what = "message" /\ j < i
      <4>1. j # k
        BY <1>2, <1>3, <3>1, <3>2, <3>3
      <4> QED BY <1>3, <2>2, <3>1, <3>3, <4>1 DEF ExitInv
    <3> QED BY <1>1, <1>4, <3>1, <3>2, <3>3
  <2> QED BY <1>3, <2>1, <2>2
<1>8. ASSUME NEW v \in Workers, exits'[v] = 1
      PROVE  wpc'[v] = "dead" /\ \A i \in DOMAIN mq' : mq'[i].w # v
  <2>1. v # w /\ exits[v] = 1
    BY <1>1, <1>5, <1>8
  <2> QED BY <1>2, <1>3, <1>4, <2>1 DEF ExitInv
<1> QED BY <1>6, <1>7, <1>8 DEF ExitInv

LEMMA QueueStep ==
  ASSUME Types, QueueInv, ExitInv, [Next]_vars
  PROVE  QueueInv' /\ ExitInv'
<1>1. CASE UNCHANGED <<mq, said, heard, exits>>
  <2>1. \A v \in Workers : wpc[v] = "dead" => wpc'[v] = "dead"
    BY DeadStay
  <2>2. \A i \in DOMAIN mq : mq[i].w \in Workers
    BY InQueue
  <2>3. QueueInv'
    BY <1>1 DEF QueueInv
  <2> QED BY <1>1, <2>1, <2>2, <2>3 DEF ExitInv
<1>2. CASE HandleMessage
  BY <1>2, HeardStep DEF HandleMessage, threadVars
<1>3. CASE HandleExit
  BY <1>3, ExitHandledStep DEF HandleExit, threadVars
<1>4. ASSUME NEW w \in Workers, Say(w) \/ FireExit(w)
      PROVE  QueueInv' /\ ExitInv'
  BY <1>4, SayStep, FireExitStep
<1> QED BY <1>1, <1>2, <1>3, <1>4, QueueSteps

-----------------------------------------------------------------------------
\* A send that is under way has been counted.
LEMMA OpStep ==
  ASSUME Types, OpInv, [Next]_vars
  PROVE  OpInv'
<1> USE DEF OpInv, Set, mainVars, counts
<1>1. CASE MainStep
  BY <1>1 DEF MainStep, Buffer, Deliver, StopWorker, EndCode, HandleMessage, HandleExit,
              IdleTest, WakeMain, JoinAll, NoOp
<1>2. ASSUME NEW w \in Workers, WorkerStep(w)
      PROVE  OpInv'
  BY <1>2 DEF WorkerStep, Publish, TakePending, Redeliver, StartScript, Return,
              TakeMessage, Block, Wake, LeaveLoop, Unwind, Destroy, Unpublish, Halt, FireExit
<1>3. ASSUME NEW w \in Workers, Send(w)
      PROVE  OpInv'
  <2>1. sent'[w] = sent[w] + 1 /\ sent[w] \in Nat /\ op'.w = w
    BY <1>3 DEF Send, Types
  <2> QED BY <2>1
<1>4. ASSUME NEW w \in Workers, Choice(w), ~Send(w)
      PROVE  OpInv'
  BY <1>4 DEF Choice, Spawn, Terminate, Listen, Say, OpenHandle, CloseHandle,
              SelfTerminate, Throw, HandleEvent
<1>5. CASE UNCHANGED vars
  BY <1>5 DEF vars
<1> QED BY <1>1, <1>2, <1>3, <1>4, <1>5 DEF Next

\* running is set where the thread is created and cleared before its exit event.
LEMMA RunStep ==
  ASSUME Types, RunInv, [Next]_vars
  PROVE  RunInv'
<1> SUFFICES ASSUME NEW v \in Workers
             PROVE  (running[v] => wpc[v] \notin {"none", "halted", "dead"})'
  BY DEF RunInv
<1>1. running \in [Workers -> BOOLEAN] /\ wpc \in [Workers -> WorkerPcs]
  BY DEF Types
<1>2. running[v] => wpc[v] \notin {"none", "halted", "dead"}
  BY DEF RunInv
<1> USE <1>1, <1>2 DEF Set, At, ctxVars, threadVars
<1>3. CASE MainStep
  BY <1>3 DEF MainStep, Buffer, Deliver, StopWorker, EndCode, HandleMessage, HandleExit,
              IdleTest, WakeMain, JoinAll
<1>4. ASSUME NEW w \in Workers, WorkerStep(w)
      PROVE  (running[v] => wpc[v] \notin {"none", "halted", "dead"})'
  <2>1. CASE \/ Publish(w) \/ TakePending(w) \/ Redeliver(w) \/ StartScript(w)
             \/ Return(w) \/ TakeMessage(w) \/ Block(w) \/ Wake(w) \/ LeaveLoop(w)
    BY <2>1 DEF Publish, TakePending, Redeliver, StartScript, Return, InWorker,
                TakeMessage, Block, Wake, LeaveLoop
  <2>2. CASE Unwind(w) \/ Destroy(w) \/ Unpublish(w) \/ Halt(w) \/ FireExit(w)
    BY <2>2 DEF Unwind, Destroy, Unpublish, Halt, FireExit
  <2> QED BY <1>4, <2>1, <2>2 DEF WorkerStep
<1>5. ASSUME NEW w \in Workers, Spawn(w)
      PROVE  (running[v] => wpc[v] \notin {"none", "halted", "dead"})'
  BY <1>5 DEF Spawn
<1>6. ASSUME NEW w \in Workers, Choice(w), ~Spawn(w)
      PROVE  (running[v] => wpc[v] \notin {"none", "halted", "dead"})'
  BY <1>6 DEF Choice, Send, Terminate, Listen, Say, OpenHandle, CloseHandle,
              SelfTerminate, Throw, HandleEvent
<1>7. CASE UNCHANGED vars
  BY <1>7 DEF vars
<1> QED BY <1>3, <1>4, <1>5, <1>6, <1>7 DEF Next

\* The keep-alive handle of a worker that listens is closed by what stops the
\* worker, or when it has left its loop.
LEMMA ListenStep ==
  ASSUME Types, ListenInv, ListenersStay, [Next]_vars
  PROVE  ListenInv' /\ ListenersStay'
<1> DEFINE Held(v) == /\ listening[v] /\ wpc[v] \notin Ending => keep[v] \/ wstop[v]
                      /\ wpc[v] \in Ending /\ listening[v] => wstop[v] \/ failed[v]
<1> SUFFICES ASSUME NEW v \in Workers PROVE Held(v)'
  BY DEF ListenInv, ListenersStay
<1>1. /\ listening \in [Workers -> BOOLEAN] /\ keep \in [Workers -> BOOLEAN]
      /\ wstop \in [Workers -> BOOLEAN] /\ failed \in [Workers -> BOOLEAN]
      /\ wpc \in [Workers -> WorkerPcs]
  BY DEF Types
<1>2. Held(v)
  BY DEF ListenInv, ListenersStay
<1> USE <1>1, <1>2 DEF Ending, Set, At
<1>3. CASE MainStep
  <2>1. UNCHANGED <<ctxVars, wpc>> \/ Buffer
    BY <1>3 DEF MainStep, Deliver, StopWorker, EndCode, HandleMessage, HandleExit,
                IdleTest, WakeMain, JoinAll, threadVars
  <2>2. UNCHANGED <<listening, keep, failed, wpc>>
    BY <2>1 DEF Buffer, ctxVars, threadVars
  <2>3. CASE StopWorker
    <3>1. wstop[v] => wstop'[v]
      BY <2>3 DEF StopWorker
    <3> QED BY <2>2, <3>1
  <2>4. CASE ~StopWorker
    <3>1. wstop' = wstop
      BY <1>3, <2>4 DEF MainStep, Buffer, Deliver, EndCode, HandleMessage, HandleExit,
                        IdleTest, WakeMain, JoinAll, loopVars
    <3> QED BY <2>2, <3>1
  <2> QED BY <2>3, <2>4
<1>4. ASSUME NEW w \in Workers,
             \/ Publish(w) \/ TakePending(w) \/ Redeliver(w) \/ StartScript(w)
             \/ Return(w) \/ TakeMessage(w) \/ Block(w) \/ Wake(w)
      PROVE  Held(v)'
  <2>1. UNCHANGED <<listening, keep, failed, wstop>>
    BY <1>4 DEF Publish, TakePending, Redeliver, StartScript, Return,
                TakeMessage, Block, Wake, ctxVars, loopVars
  <2>2. wpc[v] \notin Ending => wpc'[v] \notin Ending
    BY <1>4 DEF Publish, TakePending, Redeliver, StartScript, Return,
                TakeMessage, Block, Wake, threadVars
  <2>3. wpc[v] \in Ending => wpc'[v] \in Ending
    BY <1>4 DEF Publish, TakePending, Redeliver, StartScript, Return, InWorker,
                TakeMessage, Block, Wake, threadVars
  <2> QED BY <2>1, <2>2, <2>3
<1>5. ASSUME NEW w \in Workers, LeaveLoop(w)
      PROVE  Held(v)'
  BY <1>5 DEF LeaveLoop, WorkerIdle, ctxVars, loopVars
<1>6. ASSUME NEW w \in Workers,
             Unwind(w) \/ Destroy(w) \/ Unpublish(w) \/ Halt(w) \/ FireExit(w)
      PROVE  Held(v)'
  <2>1. UNCHANGED <<listening, failed, wstop>>
    BY <1>6 DEF Unwind, Destroy, Unpublish, Halt, FireExit, ctxVars, loopVars
  <2>2. (wpc'[v] \in Ending <=> wpc[v] \in Ending) /\ (wpc[v] \notin Ending => keep'[v] = keep[v])
    BY <1>6 DEF Unwind, Destroy, Unpublish, Halt, FireExit, ctxVars
  <2> QED BY <2>1, <2>2
<1>7. ASSUME NEW w \in Workers, Spawn(w) \/ HandleEvent(w)
      PROVE  Held(v)'
  BY <1>7 DEF Spawn, HandleEvent, ctxVars, loopVars
<1>8. ASSUME NEW w \in Workers,
             Send(w) \/ Terminate(w) \/ Say(w) \/ OpenHandle(w) \/ CloseHandle(w)
      PROVE  Held(v)'
  BY <1>8 DEF Send, Terminate, Say, OpenHandle, CloseHandle, ctxVars, loopVars, threadVars
<1>9. ASSUME NEW w \in Workers, Listen(w) \/ SelfTerminate(w)
      PROVE  Held(v)'
  BY <1>9 DEF Listen, SelfTerminate, InWorker, loopVars, threadVars
<1>10. ASSUME NEW w \in Workers, Throw(w)
       PROVE  Held(v)'
  BY <1>10 DEF Throw, loopVars
<1>11. CASE UNCHANGED vars
  BY <1>11 DEF vars, ctxVars, loopVars, threadVars
<1> QED BY <1>3, <1>4, <1>5, <1>6, <1>7, <1>8, <1>9, <1>10, <1>11
        DEF Next, WorkerStep, Choice

\* main blocks only while a registered worker runs, and that worker's last step
\* wakes it.
LEMMA NoHangStep ==
  ASSUME Types, RunInv, NoHang, [Next]_vars
  PROVE  NoHang'
<1> USE DEF NoHang, mainVars
<1>1. CASE IdleTest
  <2>1. CASE WorkersExist
    <3>1. PICK w \in registry : running[w]
      BY <2>1 DEF WorkersExist
    <3>2. w \in Workers /\ wpc[w] \notin {"none", "dead"}
      BY <3>1 DEF RunInv, Types
    <3> QED BY <1>1, <3>1, <3>2 DEF IdleTest, threadVars
  <2>2. CASE ~WorkersExist
    BY <1>1, <2>2 DEF IdleTest
  <2> QED BY <2>1, <2>2
<1>2. CASE \/ EndCode \/ HandleMessage \/ HandleExit \/ WakeMain \/ JoinAll
  BY <1>2 DEF EndCode, HandleMessage, HandleExit, WakeMain, JoinAll
<1>3. CASE Buffer \/ Deliver \/ StopWorker
  BY <1>3 DEF Buffer, Deliver, StopWorker, threadVars
<1>4. ASSUME NEW w \in Workers, FireExit(w) \/ Say(w)
      PROVE  NoHang'
  BY <1>4 DEF FireExit, Say
<1>5. ASSUME NEW w \in Workers, Spawn(w) \/ Send(w) \/ Terminate(w)
      PROVE  NoHang'
  BY <1>5 DEF Spawn, Send, Terminate, InMain
<1>6. ASSUME NEW w \in Workers, WorkerStep(w) \/ Choice(w), ~FireExit(w), ~Say(w),
             ~Spawn(w), ~Send(w), ~Terminate(w)
      PROVE  NoHang'
  <2>1. UNCHANGED mainVars
    BY <1>6 DEF WorkerStep, Choice, Publish, TakePending, Redeliver, StartScript, Return,
                TakeMessage, Block, Wake, LeaveLoop, Unwind, Destroy, Unpublish, Halt,
                Listen, OpenHandle, CloseHandle, SelfTerminate, Throw, HandleEvent
  <2>2. \A v \in Workers : wpc[v] \notin {"none", "dead"} => wpc'[v] \notin {"none", "dead"}
    <3>1. CASE Choice(w)
      BY <1>6, <3>1 DEF Choice, Listen, OpenHandle, CloseHandle, SelfTerminate, Throw,
                        HandleEvent, At, Set, threadVars, Types
    <3>2. CASE Publish(w) \/ TakePending(w) \/ Redeliver(w) \/ StartScript(w) \/ Return(w)
      BY <3>2 DEF Publish, TakePending, Redeliver, StartScript, Return, At, Set, Types
    <3>3. CASE TakeMessage(w) \/ Block(w) \/ Wake(w) \/ LeaveLoop(w)
      BY <3>3 DEF TakeMessage, Block, Wake, LeaveLoop, At, Set, Types
    <3>4. CASE Unwind(w)
      BY <3>4 DEF Unwind, At, Set, Types
    <3>5. CASE Destroy(w)
      BY <3>5 DEF Destroy, At, Set, Types
    <3>6. CASE Unpublish(w) \/ Halt(w)
      BY <3>6 DEF Unpublish, Halt, At, Set, Types
    <3> QED BY <1>6, <3>1, <3>2, <3>3, <3>4, <3>5, <3>6 DEF WorkerStep
  <2> QED BY <2>1, <2>2 DEF Types
<1>7. CASE UNCHANGED vars
  BY <1>7 DEF vars, threadVars
<1> QED BY <1>1, <1>2, <1>3, <1>4, <1>5, <1>6, <1>7 DEF Next, MainStep, WorkerStep, Choice

-----------------------------------------------------------------------------
LEMMA Initially == Init => IInv
<1> SUFFICES ASSUME Init PROVE IInv
  OBVIOUS
<1>1. Types
  <2>1. /\ <<>> \in Seq(1..MaxSent) /\ <<>> \in Seq(Task)
        /\ 0 \in 0..MaxSent /\ 0 \in 0..MaxSaid /\ 0 \in 0..1
    OBVIOUS
  <2> QED BY <2>1 DEF Init, Types, WorkerPcs
<1>2. OpInv /\ NoHang
  BY DEF Init, OpInv, NoHang, NoOp
<1>3. QueueInv /\ ExitInv
  BY DEF Init, QueueInv, ExitInv
<1>4. RunInv /\ ListenInv /\ ListenersStay
  BY DEF Init, RunInv, ListenInv, ListenersStay, Ending
<1> QED BY <1>1, <1>2, <1>3, <1>4, SameTypes DEF IInv

LEMMA Inductive == IInv /\ [Next]_vars => IInv'
<1> SUFFICES ASSUME IInv, [Next]_vars PROVE IInv'
  OBVIOUS
<1>1. Types
  BY SameTypes DEF IInv
<1>2. Types'
  BY <1>1, TypeStep DEF IInv
<1>3. TypeOK'
  BY <1>2, SameTypes, PTL
<1>4. OpInv' /\ QueueInv' /\ ExitInv' /\ RunInv'
  BY <1>1, OpStep, QueueStep, RunStep DEF IInv
<1>5. ListenInv' /\ ListenersStay' /\ NoHang'
  BY <1>1, ListenStep, NoHangStep DEF IInv
<1> QED BY <1>3, <1>4, <1>5 DEF IInv

LEMMA Always == Spec => []IInv
  BY Initially, Inductive, PTL DEF Spec

\* Every variable keeps its type, and the exit handler of a worker runs at most
\* once (fire_exit_on_main, the macrotask it queues).
THEOREM TypeCorrect == Spec => []TypeOK
<1>1. IInv => TypeOK
  BY DEF IInv
<1> QED BY <1>1, Always, PTL

\* However the last stores and pushes of a worker interleave with the loop of
\* main, main handles its exit event after everything the worker said, and is
\* not left asleep before it (fire_exit_on_main, worker_threads_exist).
THEOREM ExitReaches == Spec => []ExitReachesMain
<1>1. IInv => ExitReachesMain
  <2> SUFFICES ASSUME IInv, NEW w \in Workers, exits[w] = 1
               PROVE  heard[w] = said[w]
    BY DEF IInv, ExitReachesMain, ExitComesLast
  <2>1. Types /\ QueueInv /\ ExitInv
    BY SameTypes DEF IInv
  <2>2. heard[w] \in Nat /\ said[w] \in 0..MaxSaid /\ heard[w] <= said[w]
    BY <2>1 DEF Types, QueueInv
  <2>3. ASSUME heard[w] < said[w] PROVE FALSE
    <3>1. said[w] \in 1..MaxSaid
      BY <2>2, <2>3
    <3>2. PICK i \in DOMAIN mq : mq[i] = [what |-> "message", w |-> w, n |-> said[w]]
      BY <2>1, <2>2, <2>3, <3>1 DEF QueueInv
    <3> QED BY <2>1, <3>2 DEF ExitInv
  <2> QED BY <2>2, <2>3
<1> QED BY <1>1, Always, PTL

\* A worker with a listener leaves its loop only when stopped or failed, though
\* its queue is empty (the keep-alive handle of parentThread.on).
THEOREM ListenersRemain == Spec => []ListenersStay
<1>1. IInv => ListenersStay
  BY DEF IInv
<1> QED BY <1>1, Always, PTL

\* main handles the messages of a worker one by one in the order they were sent
\* (parentThread.send through the macrotask queue of main).
THEOREM MessagesInOrder == Spec => HeardInOrder
<1> DEFINE OneByOne == \A w \in Workers : heard'[w] # heard[w] => heard'[w] = heard[w] + 1
<1>1. IInv /\ [Next]_vars => [OneByOne]_vars
  <2> SUFFICES ASSUME IInv, [Next]_vars, NEW w \in Workers, heard'[w] # heard[w]
               PROVE  heard'[w] = heard[w] + 1
    OBVIOUS
  <2>1. Types /\ QueueInv
    BY SameTypes DEF IInv
  <2>2. HandleMessage
    <3>1. ~UNCHANGED <<mq, said, heard, exits>>
      BY <2>1
    <3>2. ~HandleExit /\ \A v \in Workers : ~Say(v) /\ ~FireExit(v)
      BY <2>1 DEF HandleExit, Say, FireExit, counts
    <3> QED BY <3>1, <3>2, QueueSteps
  <2>3. mq # <<>> /\ mq[1].what = "message" /\ heard' = [heard EXCEPT ![mq[1].w] = mq[1].n]
    <3>1. mq # <<>> /\ mq \in Seq(Task)
      BY <2>1, <2>2 DEF HandleMessage, Types
    <3>2. Head(mq) = mq[1]
      BY <3>1, Taken
    <3> QED BY <2>2, <3>1, <3>2 DEF HandleMessage, Set
  <2>4. mq[1].w \in Workers /\ mq[1].n = heard[mq[1].w] + 1
    BY <2>1, <2>3, NextIsFirst
  <2> QED BY <2>1, <2>3, <2>4 DEF Types
<1> QED BY <1>1, Always, PTL DEF Spec, HeardInOrder
=============================================================================
