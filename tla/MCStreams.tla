----------------------------- MODULE MCStreams -----------------------------
\* The streams of files with their pipe, a duplex stream, stdin, and stdout. They
\* share no state: a behaviour is one of them.
EXTENDS FileStreams

CONSTANTS DuplexCalls, DuplexMark, Halves, Keys, Heard, KeyCount, StdinCalls,
          OutCalls, OutMark, OutFaults
VARIABLES live, d, tasks, under, sink, h, io, ears, todo, busy, seen,
          out, flight, ops, frames, said

DX == INSTANCE Duplex WITH Calls <- DuplexCalls, HighWater <- DuplexMark
In == INSTANCE Stdin
Out == INSTANCE StdStream WITH s <- out, under <- frames, h <- said,
                               Calls <- OutCalls, HighWater <- OutMark, Faults <- OutFaults
ASSUME PartsAssumption == DX!DuplexAssumption /\ In!StdinAssumption /\ Out!StdAssumption

AllCalls == {"onData", "onEnd", "pause", "resume", "destroyR", "pipe",
             "write", "end", "destroyW", "cork"}
TwoOptions == {[autoClose |-> TRUE, throttled |-> FALSE, autoDestroy |-> TRUE],
               [autoClose |-> FALSE, throttled |-> TRUE, autoDestroy |-> FALSE]}

dvars == <<d, tasks, under, sink, h>>
invars == <<io, ears, todo, busy, seen>>
outvars == <<out, flight, ops, frames, said>>
allvars == <<live, vars, dvars, invars, outvars>>
InFiles(A) == live = "files" /\ A /\ UNCHANGED <<live, dvars, invars, outvars>>
InDuplex(A) == live = "duplex" /\ A /\ UNCHANGED <<live, vars, invars, outvars>>
InStdin(A) == live = "stdin" /\ A /\ UNCHANGED <<live, vars, dvars, outvars>>
InStdout(A) == live = "stdout" /\ A /\ UNCHANGED <<live, vars, dvars, invars>>

\* Those that are not live take no part: one initial state of each is enough.
MCInit ==
  /\ live \in {"files", "duplex", "stdin", "stdout"}
  /\ Init /\ DX!Init /\ In!Init /\ Out!Init
  /\ live # "duplex" => d.halfOpen
  /\ live # "files" => r.size = 0 /\ r.throttled
  /\ live # "stdin" => io.tty
  /\ live # "stdout" => out.usable
MCNext ==
  InFiles(Next) \/ InDuplex(DX!Next) \/ InStdin(In!Next) \/ InStdout(Out!Next)
\* `live` never changes: one condition states the fairness of each component.
MCSpec ==
  /\ MCInit /\ [][MCNext]_allvars
  /\ WF_allvars(InFiles(Native) \/ InStdout(Out!Native))
  /\ WF_allvars(InFiles(ScriptReturns) \/ InDuplex(DX!ScriptReturns)
                  \/ InStdout(Out!ScriptReturns))
  /\ SF_allvars(InFiles(DeferredRead) \/ InDuplex(DX!Native) \/ InStdout(Out!Completes))
  /\ SF_allvars(InFiles(ReadCompletes)) /\ SF_allvars(InFiles(WriteCompletes))

\* The types of the four modules.
StreamsTypeOK == TypeOK /\ DX!TypeOK /\ In!TypeOK /\ Out!TypeOK
\* Beside FilesAreSafe: the pipe's buffer is bounded. A duplex stream delivers both
\* ways in order, each way's end after the data. stdout writes in order, holds the
\* loop while it does and no longer, and finishes when all is written. On stdin, what
\* is typed is handed on whole and in order, and the terminal is what the calls have
\* left it to be.
StreamsAreSafe ==
  /\ Backpressure
  /\ DX!HeardInOrder /\ DX!WrittenInOrder /\ DX!FinishComesLast /\ DX!EndComesLast
  /\ Out!OutputInOrder /\ Out!OutputHoldsLoop /\ Out!FinishIsLast
  /\ In!StdinIsWhole
\* A pipe comes to its end, and so does what is pushed into or written to a
\* duplex stream, or written to stdout. What each owes is one leads-to: `live`
\* never changes, so this says PipeEnds, DX!WritesComplete and OutputGoesOn.
Owed ==
  CASE live = "files" -> PipeRuns
    [] live = "duplex" -> d.wEnded
    [] live = "stdout" -> Out!Owes
    [] OTHER -> FALSE
Paid ==
  CASE live = "files" -> PipeIsOver
    [] live = "duplex" -> d.finished \/ d.destroyed
    [] OTHER -> Out!Settled
StreamsGoOn == (Owed ~> Paid) /\ DX!PushedIsHeard /\ DX!QueueEmpties
=============================================================================
