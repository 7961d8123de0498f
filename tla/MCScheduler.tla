----------------------------- MODULE MCScheduler -----------------------------
\* The event loop, and four programs of it that go on as long as it does: two
\* promises of which one is a nap's; sockets over TCP; sockets over UDP; ping
\* with resolve. They share no state: a behaviour is one of them.
EXTENDS Scheduler

CONSTANTS Promises, Naps, None, Adopting, MaxAttached, MaxMicro,
          Clients, Guests, Addrs, Chunks, Calls, Careless,
          Messages, UdpCalls, UdpCareless, Count
VARIABLES live,
          state, reactions, parent, handled, checked, reported, own, reactionJobs,
          napJobs, run, cur, where, attached, ran, consumed, flows, joined,
          sock, uv, peer, srv, work, queue, at, h,
          inst, hnd, jobs, place, held, req, uh,
          ping, try, lookup, pending, turn

P == INSTANCE Promises WITH micro <- reactionJobs, macro <- napJobs, pc <- where
Tcp == INSTANCE TcpSockets
Udp == INSTANCE UdpSockets
Net == INSTANCE NetWork WITH work <- pending, p <- ping
ASSUME LoopPromises == P!PromisesAssumption
ASSUME NetworkAssumption == Tcp!TcpAssumption /\ Udp!UdpAssumption /\ Net!NetAssumption

promiseVars == <<state, reactions, parent, handled, checked, reported, own, reactionJobs,
                 napJobs, run, cur, where, attached, ran, consumed, flows, joined>>
tcpVars == <<sock, uv, peer, srv, work, queue, at, h>>
udpVars == <<inst, hnd, jobs, place, held, req, uh>>
netVars == <<ping, try, lookup, pending, turn>>
allvars == <<live, vars, promiseVars, tcpVars, udpVars, netVars>>

OfLoop(A) ==
  live = "loop" /\ A /\ UNCHANGED <<live, promiseVars, tcpVars, udpVars, netVars>>
OfPromises(A) ==
  live = "promises" /\ A /\ UNCHANGED <<live, vars, tcpVars, udpVars, netVars>>
OfTcp(A) == live = "tcp" /\ A /\ UNCHANGED <<live, vars, promiseVars, udpVars, netVars>>
OfUdp(A) == live = "udp" /\ A /\ UNCHANGED <<live, vars, promiseVars, tcpVars, netVars>>
OfNet(A) == live = "net" /\ A /\ UNCHANGED <<live, vars, promiseVars, tcpVars, udpVars>>

MCInit ==
  /\ live \in {"loop", "promises", "tcp", "udp", "net"}
  /\ Init /\ P!PromisesInit /\ Tcp!Init /\ Udp!Init /\ Net!Init
  /\ live # "net" => ping.icmp
MCNext ==
  \/ OfLoop(Next) \/ OfPromises(P!PromisesNext)
  \/ OfTcp(Tcp!Next) \/ OfUdp(Udp!Next) \/ OfNet(Net!Next)
\* `live` never changes: one condition states the fairness of each component.
MCSpec ==
  /\ MCInit /\ [][MCNext]_allvars
  /\ WF_allvars(OfLoop(RunUntilIdle) \/ OfPromises(P!EndCode) \/ OfTcp(Tcp!Loop)
                  \/ OfUdp(Udp!LoopSteps) \/ OfNet(Net!UvRuns))
  /\ WF_allvars(OfLoop(TestStop) \/ OfPromises(P!CallbackReturns \/ P!CallbackThrows))
  /\ WF_allvars(OfLoop(TakeMicro \/ Drained) \/ OfPromises(P!Loop))
  /\ WF_allvars(OfLoop(EndMicro))
  /\ WF_allvars(OfLoop(TakeMacro \/ NoMacro)) /\ WF_allvars(OfLoop(EndMacro))
  /\ WF_allvars(OfLoop(CheckIdle)) /\ WF_allvars(OfLoop(PollWake))
  /\ WF_allvars(OfLoop(EndEvent)) /\ \A p \in Others : WF_allvars(OfLoop(Send(p)))
  /\ \A p \in Workers : WF_allvars(OfLoop(ExitPush(p)))
  /\ SF_allvars(OfPromises(P!StartMacrotask) \/ OfTcp(Tcp!Events)
                  \/ OfUdp(Udp!Answers) \/ OfNet(Net!Driven))

\* Every reaction of a settled promise runs, also when attached while it settles.
EveryReactionRuns == P!EveryReactionRuns

\* The types of the three modules of the network.
NetworkTypeOK == Tcp!TypeOK /\ Udp!TypeOK /\ Net!TypeOK
\* A handle of libuv is closed once, has its socket as long as it may call
\* back, and is used only while it is open.
SocketsOwnHandles == Tcp!NoDoubleClose /\ Tcp!OwnerIsKept /\ Udp!HandleIsOpen
\* What a socket reads is heard, in its order, and its close after that; a
\* socket whose data somebody listens to does read.
InputIsHeard ==
  Tcp!ReadIsHeard /\ Tcp!HeededIsRead /\ Tcp!CloseComesLast /\ Udp!MessagesInOrder
\* What keeps the loop alive is counted once and given back once; a ping under
\* way has a callback to go on with, and its attempts add up.
WorkIsCounted ==
  Tcp!WorkMatches /\ Net!WorkIsGivenBack /\ Net!PingIsDriven /\ Net!PingAddsUp
\* Every connect, full buffer, send and ping gets its answer; the sockets let go
\* of the loop when they are closed.
RequestsAreAnswered ==
  /\ Tcp!ConnectEnds /\ Tcp!DrainIsCalled /\ Udp!SendsAnswered /\ Net!PingSettles
  /\ (live = "tcp" => Tcp!LoopReturns) /\ Udp!ClosedLetsGo
==============================================================================
