------------------------------ MODULE MCWorker -------------------------------
\* The threads and processes beside a script: a worker, a child process, and the
\* other way round its parent and whoever sends it signals. They share no state:
\* a behaviour is one of them.
EXTENDS Worker

CONSTANTS Stdio, Output, ChildCalls, Funcs, EventCalls, Raises, FromParent
VARIABLES live, ch, fds, tasks, where, os, sh,
          ipc, on, keys, handles, action, at, jobs, parent, h

Child == INSTANCE Subprocess
Self == INSTANCE ProcessEvents WITH Calls <- EventCalls, Messages <- FromParent
ASSUME Child!SubprocessAssumption /\ Self!EventsAssumption

childvars == <<ch, fds, tasks, where, os, sh>>
selfvars == <<ipc, on, keys, handles, action, at, jobs, parent, h>>
allvars == <<live, vars, childvars, selfvars>>
OnlyWorker(A) == live = "worker" /\ A /\ UNCHANGED <<live, childvars, selfvars>>
OnlyChild(A) == live = "child" /\ A /\ UNCHANGED <<live, vars, selfvars>>
OnlySelf(A) == live = "self" /\ A /\ UNCHANGED <<live, vars, childvars>>

MCInit ==
  /\ live \in {"worker", "child", "self"} /\ Init /\ Child!Init /\ Self!Init
  /\ live # "self" => ipc.forked
MCNext == OnlyWorker(Next) \/ OnlyChild(Child!Next) \/ OnlySelf(Self!Next)
\* `live` never changes: one condition states the fairness of each component.
MCSpec ==
  /\ MCInit /\ [][MCNext]_allvars
  /\ WF_allvars(OnlyWorker(MainStep) \/ OnlyChild(Child!LoopRuns) \/ OnlySelf(Self!LoopSteps))
  /\ \A w \in Workers : WF_allvars(OnlyWorker(WorkerStep(w)))
  /\ SF_allvars(OnlyChild(Child!ReadOutput))
  /\ SF_allvars(OnlyChild(Child!ReadEnd)) /\ SF_allvars(OnlyChild(Child!ExitCb))
  /\ SF_allvars(OnlyChild(Child!WriteDone)) /\ WF_allvars(OnlyChild(Child!ChildEnds))

\* The types of the three modules.
TypesOK == TypeOK /\ Child!TypeOK /\ Self!TypeOK
\* What comes from a child or a parent is heard whole and in order: the output
\* of a child before its exit, all that exec's command wrote, the messages of a
\* parent and the signals, which do not end a process that listens for them; and
\* the loop is not left before a child's writes and exec are answered.
OthersAreHeard ==
  /\ Child!OutputIsHeard /\ Child!ExecIsWhole /\ Child!AnswersAddUp
  /\ Self!MessagesAreHeard /\ Self!SignalsAreHeard /\ Self!SignalsAreCaught
\* A worker told to stop ends, a child that ends lets go of the loop, and so does
\* a parent that closes its pipe.
StoppedEnds ==
  /\ StopEnds /\ (live = "child" => Child!ChildLetsGo)
  /\ (live = "self" => Self!ProcessEnds)
==============================================================================
