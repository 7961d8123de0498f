----------------------------- MODULE UdpSockets -----------------------------
\* A socket over UDP (modules_builtins/net_module/upd.cc). Every call leaves its
\* work to a macrotask, so that a call is checked when it is made and done when
\* things may have changed. A handle points to its UdpSocketInstance without
\* owning it: the registry, the script's object and the tasks do.
EXTENDS Integers, Sequences

CONSTANTS Messages,    \* bound: messages that arrive
          UdpCalls,    \* bound: calls the script makes
          UdpCareless  \* what the script does that the module is not ready for

UdpAssumption ==
  Messages \in Nat /\ UdpCalls \in Nat /\ UdpCareless \subseteq {"dropWhileClosing", "closeWhileBinding"}

VARIABLES inst,   \* UdpSocketInstance: udp_handle is set, closed, work_counted, freed
          hnd,    \* the uv_udp_t
          jobs,   \* macrotasks
          place,  \* where the loop thread is
          held,   \* who owns the instance besides the tasks: script, registry
          req,    \* requests under way: names to resolve, sends
          uh      \* history: messages arrived, heard, sends made, answered, calls, bad

uvars == <<inst, hnd, jobs, place, held, req, uh>>

Work(what) == [do |-> what, c |-> 0]
Also(more) == jobs' = jobs \o more
Owning == {"init", "receive", "bind", "send", "close"}
\* Its last owner gone, the instance is destroyed, and gives back the counter.
Settle(rec, owners, queue) ==
  IF owners = {} /\ req.names = 0 /\ (\A i \in DOMAIN queue : queue[i].do \notin Owning)
  THEN [rec EXCEPT !.freed = TRUE, !.counted = FALSE] ELSE rec
Exists == inst.made /\ "script" \in held

-----------------------------------------------------------------------------
\* The script.

UCall == place = "script" /\ uh.calls < UdpCalls
UCounted(hist) == [hist EXCEPT !.calls = @ + 1]

\* createSocket, with a message handler or without
Create ==
  /\ UCall /\ ~inst.made
  /\ \E heeded \in BOOLEAN :
       Also(<<Work("init")>> \o IF heeded THEN <<Work("receive")>> ELSE <<>>)
  /\ inst' = [inst EXCEPT !.made = TRUE, !.counted = TRUE]
  /\ held' = {"script", "registry"} /\ uh' = UCounted(uh)
  /\ UNCHANGED <<hnd, place, req>>

\* on("message")
OnMessage ==
  /\ UCall /\ Exists /\ Also(<<Work("receive")>>) /\ uh' = UCounted(uh)
  /\ UNCHANGED <<inst, hnd, place, held, req>>

Bind ==
  /\ UCall /\ Exists /\ Also(<<Work("bind")>>) /\ uh' = UCounted(uh)
  /\ UNCHANGED <<inst, hnd, place, held, req>>

\* send(), with a callback: only the size is checked before the task.
Send ==
  /\ UCall /\ Exists /\ \E what \in {"send", "sent"} : Also(<<Work(what)>>)
  /\ uh' = [UCounted(uh) EXCEPT !.sends = @ + 1]
  /\ UNCHANGED <<inst, hnd, place, held, req>>

CloseUdp ==
  /\ UCall /\ Exists
  /\ \/ req.names = 0 /\ \A i \in DOMAIN jobs : jobs[i].do # "bind"
     \/ "closeWhileBinding" \in UdpCareless
  /\ IF inst.closed THEN UNCHANGED <<inst, jobs, held>>
     ELSE /\ inst' = [inst EXCEPT !.closed = TRUE] /\ Also(<<Work("close")>>)
          /\ held' = held \ {"registry"}
  /\ uh' = UCounted(uh) /\ UNCHANGED <<hnd, place, req>>

\* The script forgets the socket: before close(), or when the handle is gone.
Drop ==
  /\ UCall /\ Exists
  /\ ~inst.closed \/ hnd = "gone" \/ "dropWhileClosing" \in UdpCareless
  /\ held' = held \ {"script"} /\ inst' = Settle(inst, held \ {"script"}, jobs)
  /\ uh' = UCounted(uh) /\ UNCHANGED <<hnd, jobs, place, req>>

ReturnToLoop == place = "script" /\ place' = "tasks" /\ UNCHANGED <<inst, hnd, jobs, held, req, uh>>

-----------------------------------------------------------------------------
\* The tasks.

Start(what) == place = "tasks" /\ jobs # <<>> /\ Head(jobs).do = what
Rest == Tail(jobs)

RunInit ==
  /\ Start("init") /\ jobs' = Rest
  /\ \/ inst' = Settle([inst EXCEPT !.ptr = TRUE], held, Rest) /\ hnd' = "open" /\ UNCHANGED held
     \/ /\ held' = held \ {"registry"} /\ UNCHANGED hnd
        /\ inst' = Settle([inst EXCEPT !.closed = TRUE, !.counted = FALSE], held', Rest)
  /\ UNCHANGED <<place, req, uh>>

RunReceive ==
  /\ Start("receive") /\ jobs' = Rest /\ inst' = Settle(inst, held, Rest)
  /\ hnd' = IF inst.ptr /\ ~inst.closed THEN "receiving" ELSE hnd
  /\ UNCHANGED <<place, held, req, uh>>

\* An address is bound at once, a name is resolved first.
RunBind ==
  /\ Start("bind") /\ jobs' = Rest /\ inst' = Settle(inst, held, Rest)
  /\ \E named \in BOOLEAN :
       req' = IF inst.ptr /\ named THEN [req EXCEPT !.names = @ + 1] ELSE req
  /\ UNCHANGED <<hnd, place, held, uh>>

\* Without a handle, or for an address it cannot use, the answer is an error.
RunSend ==
  /\ Start("send") /\ inst' = Settle(inst, held, Rest)
  /\ \/ inst.ptr /\ req' = [req EXCEPT !.sends = @ + 1] /\ jobs' = Rest
     \/ jobs' = Append(Rest, Work("sent")) /\ UNCHANGED req
  /\ UNCHANGED <<hnd, place, held, uh>>

RunClose ==
  /\ Start("close") /\ jobs' = Rest
  /\ IF inst.ptr
     THEN hnd' = "closing" /\ inst' = Settle([inst EXCEPT !.ptr = FALSE], held, Rest)
     ELSE inst' = Settle([inst EXCEPT !.counted = FALSE], held, Rest) /\ UNCHANGED hnd
  /\ UNCHANGED <<place, held, req, uh>>

RunUserCode(what) ==
  /\ Start(what) /\ place' = "script" /\ jobs' = Rest
  /\ uh' = IF what = "message" THEN [uh EXCEPT !.heard = Append(@, Head(jobs).c)]
           ELSE IF what = "sent" THEN [uh EXCEPT !.answers = @ + 1] ELSE uh
  /\ UNCHANGED <<inst, hnd, held, req>>

\* The idle test: udp_has_active_work and active handles.
Turn ==
  /\ place = "tasks" /\ jobs = <<>>
  /\ place' = IF ~inst.counted /\ hnd # "receiving" THEN "returned" ELSE "poll"
  /\ UNCHANGED <<inst, hnd, jobs, held, req, uh>>

-----------------------------------------------------------------------------
\* Callbacks of uv_run.

\* udp_recv_cb
Receive ==
  /\ place = "poll" /\ hnd = "receiving" /\ uh.arrived < Messages
  /\ Also(<<[do |-> "message", c |-> uh.arrived + 1]>>)
  /\ uh' = [uh EXCEPT !.arrived = @ + 1]
  /\ UNCHANGED <<inst, hnd, place, held, req>>

\* The name of bind() is known: uv_udp_bind is given the handle as it is now.
BindResolved ==
  /\ place = "poll" /\ req.names > 0 /\ req' = [req EXCEPT !.names = @ - 1]
  /\ \E found \in BOOLEAN : uh' = [uh EXCEPT !.bad = @ \/ (found /\ ~inst.ptr)]
  /\ UNCHANGED <<inst, hnd, jobs, place, held>>

Sent ==
  /\ place = "poll" /\ req.sends > 0 /\ hnd # "closing"
  /\ req' = [req EXCEPT !.sends = @ - 1] /\ Also(<<Work("sent")>>)
  /\ UNCHANGED <<inst, hnd, place, held, uh>>

\* uv cancels the sends under way, whose callbacks answer with an error; then
\* the close callback uses the instance.
HandleClosed ==
  /\ place = "closing" /\ hnd = "closing" /\ hnd' = "gone"
  /\ req' = [req EXCEPT !.sends = 0]
  /\ inst' = [inst EXCEPT !.counted = FALSE]
  /\ Also([i \in 1..req.sends |-> Work("sent")] \o <<Work("closed")>>)
  /\ UNCHANGED <<place, held, uh>>

Onwards ==
  /\ \/ place = "poll" /\ place' = "closing"
     \/ place = "closing" /\ hnd # "closing" /\ place' = "tasks"
  /\ UNCHANGED <<inst, hnd, jobs, held, req, uh>>

-----------------------------------------------------------------------------
Init ==
  /\ inst = [made |-> FALSE, ptr |-> FALSE, closed |-> FALSE, counted |-> FALSE, freed |-> FALSE]
  /\ hnd = "none" /\ jobs = <<>> /\ place = "script" /\ held = {}
  /\ req = [names |-> 0, sends |-> 0]
  /\ uh = [arrived |-> 0, heard |-> <<>>, sends |-> 0, answers |-> 0, calls |-> 0, bad |-> FALSE]

LoopSteps ==
  \/ RunInit \/ RunReceive \/ RunBind \/ RunSend \/ RunClose \/ Turn \/ Onwards \/ HandleClosed
  \/ ReturnToLoop \/ \E what \in {"message", "sent", "closed"} : RunUserCode(what)
Answers == BindResolved \/ Sent
Next ==
  \/ LoopSteps \/ Answers \/ Receive
  \/ Create \/ OnMessage \/ Bind \/ Send \/ CloseUdp \/ Drop
Spec == Init /\ [][Next]_uvars

\* The loop turns, the script returns, names resolve and sends complete.
FairSpec == Spec /\ WF_uvars(LoopSteps) /\ SF_uvars(Answers)

-----------------------------------------------------------------------------
TypeOK ==
  /\ inst \in [made : BOOLEAN, ptr : BOOLEAN, closed : BOOLEAN, counted : BOOLEAN, freed : BOOLEAN]
  /\ hnd \in {"none", "open", "receiving", "closing", "gone"}
  /\ \A i \in DOMAIN jobs : jobs[i].c \in 0..Messages
  /\ place \in {"script", "tasks", "poll", "closing", "returned"}
  /\ held \subseteq {"script", "registry"} /\ req \in [names : Nat, sends : Nat]
  /\ uh.answers \in Nat /\ uh.calls \in 0..UdpCalls

\* Whatever is called in whichever order, and however late a task runs, uv is
\* given a handle only while it is open, and the handle's owner lives.
HandleIsOpen ==
  /\ inst.ptr => hnd \in {"open", "receiving"}
  /\ ~uh.bad
  /\ hnd \in {"open", "receiving", "closing"} => ~inst.freed

\* Messages are heard in the order of their arrival, none is lost: those heard
\* are the first ones, those that wait are the others, in their order.
MessagesWaiting == {i \in DOMAIN jobs : jobs[i].do = "message"}
MessagesInOrder ==
  /\ Len(uh.heard) <= uh.arrived /\ \A n \in DOMAIN uh.heard : uh.heard[n] = n
  /\ {jobs[i].c : i \in MessagesWaiting} = (Len(uh.heard) + 1)..uh.arrived
  /\ \A i, j \in MessagesWaiting : i < j => jobs[i].c < jobs[j].c

\* A send is answered at most once, and each one in the end: when it completes,
\* when it cannot start, and when close() cancels it.
SendsAnswered == [](uh.answers <= uh.sends) /\ <>[](uh.answers = uh.sends)

\* After close() the loop returns, and not before.
ClosedLetsGo ==
  /\ inst.closed ~> place = "returned"
  /\ [](place = "returned" => inst.closed \/ ~inst.made)
=============================================================================
