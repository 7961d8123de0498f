------------------------------ MODULE MCLibrary -------------------------------
\* The loader of modules, the emitter, the HTTP server and the HTTP client. They
\* share no state: a behaviour is one of them.
EXTENDS ModuleLoader, EventEmitter

CONSTANTS MaxPending, Body, FileChunks, HttpCalls, Answer, ClientCalls
VARIABLES live, server, res, req, code, hs, cl, posted, input, ran, ch

Srv == INSTANCE HttpServer
Cli == INSTANCE HttpClient
ASSUME HttpAssumption == Srv!HttpAssumption /\ Cli!ClientAssumption

srvvars == <<server, res, req, code, hs>>
clivars == <<cl, posted, input, ran, ch>>
allvars == <<live, vars, emitterVars, srvvars, clivars>>
InLoader(A) == live = "loader" /\ A /\ UNCHANGED <<live, emitterVars, srvvars, clivars>>
InEvents(A) == live = "events" /\ A /\ UNCHANGED <<live, vars, srvvars, clivars>>
InSrv(A) == live = "server" /\ A /\ UNCHANGED <<live, vars, emitterVars, clivars>>
InCli(A) == live = "client" /\ A /\ UNCHANGED <<live, vars, emitterVars, srvvars>>

MCInit ==
  /\ live \in {"events", "loader", "server", "client"}
  /\ Init /\ EmitterInit /\ Srv!Init /\ Cli!Init
  /\ live # "client" => cl.body = "none" /\ input[Len(input)].kind = "end"
MCNext == InLoader(Next) \/ InEvents(EmitterNext) \/ InSrv(Srv!Next) \/ InCli(Cli!Next)
\* `live` never changes: one condition states the fairness of each component.
MCSpec ==
  /\ MCInit /\ [][MCNext]_allvars
  /\ WF_allvars(InSrv(Srv!Return) \/ InCli(Cli!ReturnToLoop))
  /\ WF_allvars(InSrv(Srv!Parses) \/ InCli(Cli!Tasks))
  /\ SF_allvars(InSrv(Srv!UvAnswers) \/ InCli(Cli!UvDone))

\* The types of the four modules.
LibraryTypeOK == TypeOK /\ EmitterTypeOK /\ Srv!TypeOK /\ Cli!TypeOK
\* What an HTTP server sends and hands to its listeners, and what a client sends
\* and hears, is whole and in the order it was given.
HttpIsWhole == Srv!ServesWhole /\ Cli!AsksWhole
\* An HTTP connection that is to close does, also with calls still waiting, and
\* what waits for a write in flight goes out after it.
HttpGoesOn == Srv!ServerGoesOn /\ Cli!ClientGoesOn
===============================================================================
