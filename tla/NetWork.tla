------------------------------ MODULE NetWork -------------------------------
\* net.resolve and net.ping (modules_builtins/net_module/net_module.cc): each
\* returns a promise, is counted in g_active_net_work and works in uv callbacks.
\* A ping makes `count` attempts; each races an answer against a timeout.
EXTENDS Integers

CONSTANT Count  \* attempts of a ping

NetAssumption == Count \in Nat \ {0}

VARIABLES p,      \* the ping: method, phase, attempts, successes, failures, settled
          try,    \* the attempt: socket or poll handle, timers, whether an answer is due
          lookup, \* the resolve
          work,   \* g_active_net_work
          turn    \* where the loop thread is: in uv_run, or closing handles

nvars == <<p, try, lookup, work, turn>>

Idle == [sock |-> "none", timer |-> "none", next |-> "none", waits |-> FALSE, late |-> FALSE]

-----------------------------------------------------------------------------
\* net.resolve. A name refused at once rejects the promise and stays counted.
Resolve ==
  /\ lookup = "none" /\ turn = "run" /\ work' = work + 1
  /\ lookup' = "waiting" /\ UNCHANGED <<p, try, turn>>

Refuse ==
  /\ lookup = "waiting" /\ turn = "run" /\ lookup' = "refused"
  /\ UNCHANGED <<p, try, work, turn>>

Resolved ==
  /\ lookup = "waiting" /\ turn = "run" /\ lookup' = "settled" /\ work' = work - 1
  /\ UNCHANGED <<p, try, turn>>

-----------------------------------------------------------------------------
\* net.ping
Ping ==
  /\ p.phase = "none" /\ turn = "run" /\ p' = [p EXCEPT !.phase = "resolving"]
  /\ work' = work + 1 /\ UNCHANGED <<try, lookup, turn>>

\* The name is not found, or there is no raw socket.
PingUnresolved ==
  /\ p.phase = "resolving" /\ turn = "run"
  /\ p' = [p EXCEPT !.phase = "settled", !.settled = @ + 1] /\ work' = work - 1
  /\ UNCHANGED <<try, lookup, turn>>

Result(rec, at) ==
  /\ p' = [rec EXCEPT !.phase = "settled", !.settled = @ + 1]
  /\ work' = work - 1
  /\ try' = [at EXCEPT !.sock = IF rec.icmp THEN "closing" ELSE @]

\* A packet that cannot be sent has failed, and the interval starts at once.
Attempt(rec, at) ==
  \E unsent \in {FALSE, rec.icmp} :
    /\ p' = [rec EXCEPT !.phase = "running", !.attempts = @ + 1,
                        !.failed = @ + (IF unsent THEN 1 ELSE 0)]
    /\ try' = IF unsent THEN [at EXCEPT !.sock = "open", !.next = "running"]
              ELSE [at EXCEPT !.sock = "open", !.timer = "running", !.waits = TRUE]
    /\ UNCHANGED work

\* Mutant: one attempt too many.
GoOnOneMore(rec, at) == IF rec.attempts > Count THEN Result(rec, at) ELSE Attempt(rec, at)

\* ping_once and send_ping: the next attempt, or the result.
GoOn(rec, at) == IF rec.attempts >= Count THEN Result(rec, at) ELSE Attempt(rec, at)

PingResolved ==
  /\ p.phase = "resolving" /\ turn = "run"
  /\ GoOn(p, Idle) /\ UNCHANGED <<lookup, turn>>

\* The interval before the next attempt is over, in a later uv_run; its handle is
\* closed after the call that may have started another.
NextAttempt ==
  /\ turn = "run" /\ try.next = "running" /\ ~try.late
  /\ GoOn(p, [try EXCEPT !.next = "closing"]) /\ UNCHANGED <<lookup, turn>>

\* Over TCP: the first of timeout and answer closes both handles, frees the
\* context and starts the interval. After a timeout uv still cancels the
\* connection, whose callback looks into the context.
Over(rec) == [rec EXCEPT !.sock = "closing", !.timer = "closing", !.next = "running",
                         !.waits = FALSE]

\* Mutant: the timer goes on after the answer.
TcpAnswerHalf ==
  /\ turn = "run" /\ ~p.icmp /\ try.sock = "open"
  /\ \E ok \in BOOLEAN : p' = [p EXCEPT !.good = @ + (IF ok THEN 1 ELSE 0),
                                       !.failed = @ + (IF ok THEN 0 ELSE 1)]
  /\ try' = [Over(try) EXCEPT !.timer = "running"] /\ UNCHANGED <<lookup, work, turn>>

TcpAnswer ==
  /\ turn = "run" /\ ~p.icmp /\ try.sock = "open"
  /\ \E ok \in BOOLEAN : p' = [p EXCEPT !.good = @ + (IF ok THEN 1 ELSE 0),
                                       !.failed = @ + (IF ok THEN 0 ELSE 1)]
  /\ try' = Over(try) /\ UNCHANGED <<lookup, work, turn>>

TcpTimeout ==
  /\ turn = "run" /\ ~p.icmp /\ try.timer = "running"
  /\ p' = [p EXCEPT !.failed = @ + 1]
  /\ try' = [Over(try) EXCEPT !.late = (try.sock = "open")]
  /\ UNCHANGED <<lookup, work, turn>>

\* Over ICMP: an answer stops the timeout; the timeout alone starts the interval.
IcmpReply ==
  /\ turn = "run" /\ p.icmp /\ try.sock = "open" /\ try.waits
  /\ p' = [p EXCEPT !.good = @ + 1]
  /\ try' = [try EXCEPT !.waits = FALSE, !.timer = "closing"]
  /\ UNCHANGED <<lookup, work, turn>>

IcmpTimeout ==
  /\ turn = "run" /\ p.icmp /\ try.timer = "running"
  /\ p' = [p EXCEPT !.failed = @ + (IF try.waits THEN 1 ELSE 0)]
  /\ try' = [try EXCEPT !.waits = FALSE, !.timer = "closing", !.next = "running"]
  /\ UNCHANGED <<lookup, work, turn>>

-----------------------------------------------------------------------------
CloseHandles == turn = "run" /\ turn' = "close" /\ UNCHANGED <<p, try, lookup, work>>

\* The end of uv_run. A connection that was cancelled reads `completed` in the
\* freed context. If the memory has been given to another by then, what follows
\* works with whatever is there: no more is said of that ping.
HandlesClosed ==
  /\ turn = "close" /\ turn' = "run"
  /\ LET gone(x) == IF x = "closing" THEN "none" ELSE x IN
     try' = [try EXCEPT !.sock = gone(@), !.timer = gone(@), !.next = gone(@), !.late = FALSE]
  /\ \E phase \in {p.phase} \cup (IF try.late THEN {"astray"} ELSE {}) :
       p' = [p EXCEPT !.phase = phase]
  /\ UNCHANGED <<lookup, work>>

Init ==
  /\ p \in [icmp : BOOLEAN, phase : {"none"}, attempts : {0}, good : {0}, failed : {0},
            settled : {0}]
  /\ try = Idle /\ lookup = "none" /\ work = 0 /\ turn = "run"

Driven ==
  \/ Refuse \/ Resolved \/ PingUnresolved \/ PingResolved \/ NextAttempt \/ TcpAnswer
  \/ TcpTimeout \/ IcmpTimeout
UvRuns == CloseHandles \/ HandlesClosed
Next == Resolve \/ Ping \/ Driven \/ IcmpReply \/ UvRuns

Spec == Init /\ [][Next]_nvars

\* The loop turns; names resolve and timers expire.
FairSpec == Spec /\ WF_nvars(UvRuns) /\ SF_nvars(Driven)

-----------------------------------------------------------------------------
TypeOK ==
  /\ p \in [icmp : BOOLEAN, phase : {"none", "resolving", "running", "settled", "astray"},
            attempts : 0..Count, good : Nat, failed : Nat, settled : Nat]
  /\ try.sock \in {"none", "open", "closing"} /\ try.timer \in {"none", "running", "closing"}
  /\ try.next \in {"none", "running", "closing"} /\ lookup \in {"none", "waiting", "settled", "refused"}
  /\ work \in Int /\ turn \in {"run", "close"}

\* An ICMP echo that was answered leaves the ping to nobody, see IcmpReply.
Stranded == p.icmp /\ p.good > 0

\* Any other ping under way is waited for by a timer or a connection that goes
\* on with it, in whichever order timeout, answer and cancellation come.
PingIsDriven ==
  p.phase = "running" => Stranded \/ try.timer = "running" \/ try.next = "running"
                         \/ (~p.icmp /\ try.sock = "open")

\* Each attempt counts once, as a success or a failure, however timeout, answer
\* and the cancelled connection fall; the result is that of all attempts.
PingAddsUp ==
  /\ p.phase = "running" =>
       p.good + p.failed = p.attempts - (IF try.waits THEN 1 ELSE 0)
  /\ p.phase = "settled" => p.settled = 1 /\ p.attempts \in {0, Count}
                            /\ p.good + p.failed = p.attempts

\* The counter holds one for each promise that waits, so that the loop stays for
\* the answer and can return after it, and one for ever for a name refused at
\* once, whose promise is rejected without giving it back.
WorkIsGivenBack ==
  work = (IF lookup \in {"waiting", "refused"} THEN 1 ELSE 0)
         + (IF p.phase \in {"resolving", "running", "astray"} THEN 1 ELSE 0)

\* Every ping comes to its result, but one whose echo was answered.
PingSettles == p.phase = "resolving" ~> p.phase \in {"settled", "astray"} \/ Stranded
=============================================================================
