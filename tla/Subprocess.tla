----------------------------- MODULE Subprocess ------------------------------
\* A child process seen from its parent (modules_builtins/subprocess/
\* subprocess.cc, subprocess_fork.cc): exec, spawn and fork. libuv's handles
\* point to the ChildEntry without owning it: the registry, the script's object
\* and exec's own listeners do. A pipe's pointer is null once exit_cb's task has
\* closed it; stdin.end() closes stdin and leaves its pointer as it is.
EXTENDS Integers, Sequences, FiniteSets, SequencesExt

CONSTANTS Stdio,      \* what the stdio option of spawn and fork may ask to be pipes
          Output,     \* bound: chunks the child writes to each output
          ChildCalls  \* bound: calls the script makes

SubprocessAssumption ==
  /\ Stdio \subseteq SUBSET {"stdin", "stdout", "stderr"}
  /\ Output \in Nat /\ ChildCalls \in Nat

VARIABLES ch,    \* ChildEntry: who made it, its pointers, its listeners, its owners
          fds,   \* the uv handles
          tasks, \* macrotasks
          where, \* where the loop thread is; "aborted" by an assertion of libuv,
                 \* "astray" once it has used freed memory
          os,    \* the process, what it has written and nobody has read
          sh     \* history: read and heard, exec's answer, writes answered, calls

cpvars == <<ch, fds, tasks, where, os, sh>>

Outs == {"stdout", "stderr", "message"}   \* "message": the ipc pipe fork reads
Ins == {"stdin", "send"}                  \* "send": the ipc pipe fork writes
Handles == Outs \cup Ins \cup {"proc"}

Task(what, o, c) == [do |-> what, on |-> o, c |-> c]
Job(what) == Task(what, "proc", 0)
Post(more) == tasks' = tasks \o more

-----------------------------------------------------------------------------
\* do_spawn, do_fork, when uv_spawn succeeds: the entry and the handles.
Born(e, pipes) ==
  [e EXCEPT !.ptr = pipes \cup {"proc"}, !.known = TRUE, !.born = TRUE]
Opened(pipes) == [x \in Handles |-> IF x \in pipes \cup {"proc"} THEN "open" ELSE "none"]
Started == [os EXCEPT !.alive = TRUE]

\* The entry is destroyed with its last owner; exec's listeners hold it for good.
Freed(e, queue) ==
  /\ e.born /\ ~e.known /\ e.held = {}
  /\ \A i \in DOMAIN queue : queue[i].do \notin {"read", "closeIn"}

-----------------------------------------------------------------------------
\* The script.

SCall == where = "script" /\ sh.calls < ChildCalls
SCounted == [sh EXCEPT !.calls = @ + 1]
HasChild == ch.held = {"script"}

\* exec(command, callback): the work is a task.
Exec ==
  /\ SCall /\ ch.by = "nobody"
  /\ \E callback \in BOOLEAN : ch' = [ch EXCEPT !.by = "exec", !.callback = callback]
  /\ Post(<<Job("exec")>>) /\ sh' = SCounted
  /\ UNCHANGED <<fds, where, os>>

\* spawn(...), fork(...): a failure is thrown, and there is no child.
Spawn ==
  /\ SCall /\ ch.by = "nobody"
  /\ \E pipes \in Stdio, by \in {"spawn", "fork"} :
       LET all == pipes \cup (IF by = "fork" THEN {"message", "send"} ELSE {}) IN
       /\ ch' = Born([ch EXCEPT !.by = by, !.held = {"script"}], all)
       /\ fds' = Opened(all)
  /\ os' = Started /\ Post(<<Job("read")>>) /\ sh' = SCounted
  /\ UNCHANGED where

\* stdout.on("data"), stderr.on("data"), child.on("message"), child.on("exit")
On ==
  /\ SCall /\ HasChild
  /\ \E o \in (Outs \cup {"proc"}) \ ch.heeded :
       /\ ch' = [ch EXCEPT !.heeded = @ \cup {o}]
       /\ sh' = IF o = "proc" THEN SCounted
                ELSE [SCounted EXCEPT !.missed[o] = sh.read[o]]
  /\ UNCHANGED <<fds, tasks, where, os>>

\* stdin.write with a callback, or send without: uv refuses a pipe that closes.
Write ==
  /\ SCall /\ HasChild
  /\ \E x \in Ins : /\ x \in ch.ptr /\ fds[x] = "open"
                    /\ x = "stdin" => ch.by = "spawn"
                    /\ ch' = [ch EXCEPT !.writes = Append(@, x)]
                    /\ sh' = [SCounted EXCEPT !.asked = @ + (IF x = "stdin" THEN 1 ELSE 0)]
  /\ UNCHANGED <<fds, tasks, where, os>>

\* stdin.end(data): the write's callback closes the pipe.
EndWith ==
  /\ SCall /\ HasChild /\ ch.by = "spawn" /\ "stdin" \in ch.ptr /\ fds["stdin"] = "open"
  /\ ch' = [ch EXCEPT !.writes = Append(@, "end")] /\ sh' = SCounted
  /\ UNCHANGED <<fds, tasks, where, os>>

\* stdin.end(): a task closes the pipe.
End ==
  /\ SCall /\ HasChild /\ ch.by = "spawn" /\ "stdin" \in ch.ptr
  /\ Post(<<Job("closeIn")>>) /\ sh' = SCounted
  /\ UNCHANGED <<ch, fds, where, os>>

\* kill(): entry->proc is never reset, and goes astray when the handle is gone.
Kill ==
  /\ SCall /\ HasChild /\ sh' = SCounted
  /\ os' = [os EXCEPT !.killed = @ \/ os.alive]
  /\ where' = IF fds["proc"] = "gone" THEN "astray" ELSE where
  /\ UNCHANGED <<ch, fds, tasks>>

\* The script lets go of its child object.
Drop ==
  /\ SCall /\ HasChild
  /\ ch' = [ch EXCEPT !.held = {}] /\ sh' = SCounted
  /\ UNCHANGED <<fds, tasks, where, os>>

BackToLoop == where = "script" /\ where' = "tasks" /\ UNCHANGED <<ch, fds, tasks, os, sh>>

-----------------------------------------------------------------------------
\* The macrotasks.

RunTask(what) == where = "tasks" /\ tasks # <<>> /\ Head(tasks).do = what
Others == Tail(tasks)

\* exec's task: do_spawn, and listeners of its own; or a rejection.
RunExec ==
  /\ RunTask("exec")
  /\ \/ /\ ch' = [Born(ch, {"stdin", "stdout", "stderr"}) EXCEPT
                    !.held = {"listeners"}, !.heeded = {"stdout", "stderr", "proc"}]
        /\ fds' = Opened({"stdin", "stdout", "stderr"}) /\ os' = Started
        /\ tasks' = Append(Others, Job("read")) /\ UNCHANGED sh
     \/ /\ tasks' = Others \o (IF ch.callback THEN <<Job("called")>> ELSE <<>>)
        /\ sh' = [sh EXCEPT !.settled = "rejected"] /\ UNCHANGED <<ch, fds, os>>
  /\ UNCHANGED where

RunRead ==
  /\ RunTask("read") /\ tasks' = Others
  /\ ch' = [ch EXCEPT !.reading = ch.ptr \cap Outs]
  /\ UNCHANGED <<fds, where, os, sh>>

\* A data or message listener: exec's collects.
RunSay ==
  /\ RunTask("say") /\ tasks' = Others
  /\ sh' = [sh EXCEPT !.heard[Head(tasks).on] = Append(@, Head(tasks).c)]
  /\ where' = IF ch.by = "exec" THEN where ELSE "script"
  /\ UNCHANGED <<ch, fds, os>>

\* An exit listener: exec's builds the result and fulfils the promise.
RunExit ==
  /\ RunTask("exit")
  /\ IF ch.by = "exec"
     THEN /\ sh' = [sh EXCEPT !.settled = "fulfilled", !.result = sh.heard]
          /\ tasks' = Others \o (IF ch.callback THEN <<Job("called")>> ELSE <<>>)
          /\ UNCHANGED where
     ELSE tasks' = Others /\ where' = "script" /\ sh' = [sh EXCEPT !.exits = @ + 1]
  /\ UNCHANGED <<ch, fds, os>>

\* exec's callback, or that of a write.
RunCalled ==
  /\ where = "tasks" /\ tasks # <<>> /\ Head(tasks).do \in {"called", "wrote"}
  /\ tasks' = Others /\ where' = "script"
  /\ sh' = [sh EXCEPT !.answers = @ + (IF Head(tasks).do = "called" THEN 1 ELSE 0),
                      !.written = @ + (IF Head(tasks).do = "wrote" THEN 1 ELSE 0)]
  /\ UNCHANGED <<ch, fds, os>>

\* uv_close: what is closing or gone already fails its assertion, which aborts.
Close(xs) ==
  /\ fds' = [x \in Handles |-> IF x \in xs /\ fds[x] = "open" THEN "closing" ELSE fds[x]]
  /\ where' = IF \A x \in xs : fds[x] = "open" THEN where ELSE "aborted"

\* The task of stdin.end()
RunCloseIn ==
  /\ RunTask("closeIn") /\ tasks' = Others
  /\ Close(ch.ptr \cap {"stdin"})
  /\ UNCHANGED <<ch, os, sh>>

\* The task of exit_cb, which holds a bare pointer to the entry
RunClose ==
  /\ RunTask("close") /\ tasks' = Others
  /\ IF Freed(ch, Others) THEN where' = "astray" /\ UNCHANGED <<ch, fds>>
     ELSE Close(ch.ptr) /\ ch' = [ch EXCEPT !.ptr = {"proc"}, !.reading = {}]
  /\ UNCHANGED <<os, sh>>

\* The idle test: a process that runs, pipes that read, writes, closing handles.
Busy ==
  \/ fds["proc"] = "open" /\ ~ch.exited
  \/ ch.reading # {} \/ ch.writes # <<>>
  \/ \E x \in Handles : fds[x] = "closing"
TurnLoop ==
  /\ where = "tasks" /\ tasks = <<>>
  /\ where' = IF Busy THEN "poll" ELSE "returned"
  /\ UNCHANGED <<ch, fds, tasks, os, sh>>

-----------------------------------------------------------------------------
\* Callbacks of uv_run.

\* stdout_read_cb, stderr_read_cb, ipc_message_cb: the listeners of now.
ReadOutput ==
  /\ where = "poll"
  /\ \E o \in ch.reading :
       /\ os.unread[o] # <<>>
       /\ os' = [os EXCEPT !.unread[o] = Tail(@)]
       /\ Post(IF o \in ch.heeded THEN <<Task("say", o, Head(os.unread[o]))>> ELSE <<>>)
       /\ sh' = [sh EXCEPT !.read[o] = Append(@, Head(os.unread[o]))]
  /\ UNCHANGED <<ch, fds, where>>

\* ... at the end of the output, which is when its last writer is gone.
ReadEnd ==
  /\ where = "poll" /\ ~os.alive /\ ~os.heir
  /\ \E o \in ch.reading :
       os.unread[o] = <<>> /\ ch' = [ch EXCEPT !.reading = @ \ {o}]
  /\ UNCHANGED <<fds, tasks, where, os, sh>>

\* Its listeners are notified and then its handles closed, in tasks.
ExitTasks == (IF "proc" \in ch.heeded THEN <<Job("exit")>> ELSE <<>>) \o <<Job("close")>>
\* Mutant: the exit overtakes the output.
QueueAtOnce == ExitTasks \o tasks
QueueAfterExit == tasks \o ExitTasks

\* exit_cb, fork_exit_cb. uv runs it when it has read what was there to be read
\* before the process ended ("run signal watchers last"), and then stops polling.
ExitCb ==
  /\ where = "poll" /\ fds["proc"] = "open" /\ ~os.alive /\ ~ch.exited
  /\ \A o \in ch.reading : \A i \in DOMAIN os.unread[o] : os.unread[o][i] = 0
  /\ tasks' = QueueAfterExit
  /\ ch' = [ch EXCEPT !.known = FALSE, !.exited = TRUE]
  /\ where' = "closing"
  /\ UNCHANGED <<fds, os, sh>>

\* The pipe takes a write, or turns out to be broken.
WriteDone ==
  /\ where = "poll" /\ ch.writes # <<>>
  /\ fds[IF Head(ch.writes) = "send" THEN "send" ELSE "stdin"] = "open"
  /\ ch' = [ch EXCEPT !.writes = Tail(@)]
  /\ Post(IF Head(ch.writes) = "stdin" THEN <<Job("wrote")>> ELSE <<>>)
  /\ IF Head(ch.writes) = "end" THEN Close({"stdin"}) ELSE UNCHANGED <<fds, where>>
  /\ UNCHANGED <<os, sh>>

\* A handle is gone. The writes of a pipe are cancelled; the callback of an
\* end(data) among them closes the pipe once more.
HandleGone ==
  /\ where = "closing"
  /\ \E x \in Handles :
       LET Its(w) == (w = "send") = (x = "send")
           stdin == SelectSeq(ch.writes, LAMBDA w : w = "stdin") IN
       /\ fds[x] = "closing" /\ fds' = [fds EXCEPT ![x] = "gone"]
       /\ IF x \in Ins
          THEN /\ ch' = [ch EXCEPT !.writes = SelectSeq(@, LAMBDA w : ~Its(w))]
               /\ Post([i \in DOMAIN stdin |-> Job("wrote")])
               /\ where' = IF Contains(ch.writes, "end") THEN "aborted" ELSE where
          ELSE UNCHANGED <<ch, tasks, where>>
  /\ UNCHANGED <<os, sh>>

GoOn ==
  /\ \/ where = "poll" /\ where' = "closing"
     \/ where = "closing" /\ (\A x \in Handles : fds[x] # "closing") /\ where' = "tasks"
  /\ UNCHANGED <<ch, fds, tasks, os, sh>>

-----------------------------------------------------------------------------
\* The child, and a process it may leave behind with its outputs, which writes 0s.

ChildWrites ==
  /\ os.alive /\ where # "returned"
  /\ \E o \in Outs : /\ fds[o] = "open" /\ os.wrote[o] < Output
                     /\ os' = [os EXCEPT !.wrote[o] = @ + 1,
                                         !.unread[o] = Append(@, os.wrote[o] + 1)]
  /\ UNCHANGED <<ch, fds, tasks, where, sh>>

HeirWrites ==
  /\ os.heir /\ where # "returned" /\ fds["stdout"] = "open" /\ os.late < Output
  /\ os' = [os EXCEPT !.unread["stdout"] = Append(@, 0), !.late = @ + 1]
  /\ UNCHANGED <<ch, fds, tasks, where, sh>>

ChildExits ==
  /\ os.alive
  /\ \E heir \in BOOLEAN : os' = [os EXCEPT !.alive = FALSE, !.heir = heir]
  /\ UNCHANGED <<ch, fds, tasks, where, sh>>

-----------------------------------------------------------------------------
Init ==
  /\ ch = [by |-> "nobody", callback |-> FALSE, born |-> FALSE, ptr |-> {}, known |-> FALSE,
           held |-> {}, heeded |-> {}, reading |-> {}, writes |-> <<>>, exited |-> FALSE]
  /\ fds = [x \in Handles |-> "none"] /\ tasks = <<>> /\ where = "script"
  /\ os = [alive |-> FALSE, killed |-> FALSE, heir |-> FALSE, late |-> 0,
           wrote |-> [o \in Outs |-> 0], unread |-> [o \in Outs |-> <<>>]]
  /\ sh = [calls |-> 0, read |-> [o \in Outs |-> <<>>], missed |-> [o \in Outs |-> <<>>],
           heard |-> [o \in Outs |-> <<>>], settled |-> "no", result |-> [o \in Outs |-> <<>>],
           answers |-> 0, exits |-> 0, asked |-> 0, written |-> 0]

LoopRuns ==
  \/ RunExec \/ RunRead \/ RunSay \/ RunExit \/ RunCalled \/ RunCloseIn \/ RunClose
  \/ TurnLoop \/ HandleGone \/ GoOn \/ BackToLoop
UvEvents == ReadOutput \/ ReadEnd \/ ExitCb \/ WriteDone
\* A command that exec runs ends, and so does a child that was killed.
Ending == ch.by = "exec" \/ os.killed
ChildEnds == Ending /\ ChildExits
Next ==
  \/ LoopRuns \/ UvEvents
  \/ Exec \/ Spawn \/ On \/ Write \/ EndWith \/ End \/ Kill \/ Drop
  \/ ChildWrites \/ HeirWrites \/ ChildExits

Spec == Init /\ [][Next]_cpvars

-----------------------------------------------------------------------------
TypeOK ==
  /\ ch.by \in {"nobody", "exec", "spawn", "fork"} /\ ch.ptr \subseteq Handles
  /\ ch.heeded \subseteq Outs \cup {"proc"} /\ ch.reading \subseteq Outs
  /\ ch.writes \in Seq(Ins \cup {"end"}) /\ ch.held \subseteq {"script", "listeners"}
  /\ fds \in [Handles -> {"none", "open", "closing", "gone"}]
  /\ where \in {"script", "tasks", "poll", "closing", "returned", "aborted", "astray"}
  /\ \A i \in DOMAIN tasks : tasks[i].on \in Outs \cup {"proc"} /\ tasks[i].c \in 0..Output
  /\ os.wrote \in [Outs -> 0..Output] /\ sh.calls \in 0..ChildCalls

\* exec answers with everything its command wrote before it ended, in order:
\* although the output comes through two pipes and three kinds of tasks, none of
\* it is still on its way when the promise is fulfilled. (What a process it left
\* behind writes is another matter: the pipes close at the exit.)
ExecIsWhole ==
  sh.settled = "fulfilled" =>
    \A o \in {"stdout", "stderr"} :
      SelectSeq(sh.result[o], LAMBDA c : c # 0) = [i \in 1..os.wrote[o] |-> i]

\* A listener hears what is read from its registration on, in order and once,
\* and nothing after the exit.
OutputIsHeard ==
  /\ \A o \in ch.heeded \cap Outs :
       LET waiting == SelectSeq(tasks, LAMBDA t : t.do = "say" /\ t.on = o) IN
       sh.missed[o] \o sh.heard[o] \o [i \in DOMAIN waiting |-> waiting[i].c] = sh.read[o]
  /\ \A i \in DOMAIN tasks, j \in DOMAIN tasks :
       tasks[i].do = "exit" /\ tasks[j].do = "say" => j < i
  /\ sh.exits > 0 => \A i \in DOMAIN tasks : tasks[i].do # "say"

\* stdin is closed by stdin.end() or when the process has ended, not by both.
StdinClosesOnce == where # "aborted"

\* A write has at most one answer. When the loop returns, every write has its
\* answer, and exec has settled its promise and called its callback once.
AnswersAddUp ==
  /\ sh.written <= sh.asked /\ sh.answers <= 1
  /\ where = "returned" =>
       /\ sh.written = sh.asked
       /\ ch.by = "exec" => sh.settled # "no" /\ (ch.callback => sh.answers = 1)

\* The loop returns once exec's command has ended, or the child that was killed.
LetGo == where \in {"returned", "aborted", "astray"}
ChildLetsGo == Ending ~> LetGo
=============================================================================
