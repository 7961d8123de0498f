------------------------------- MODULE MCAsync -------------------------------
\* Awaiting and promises: a call of a regular async function, which takes its
\* answers from outside; a generator, driven by a script; and a program of
\* promises. A behaviour is one of the three.
EXTENDS MCAsyncFrame, Generator, Promises

CONSTANTS p1, p2, p3
VARIABLE live
ASSUME PromisesAssumption

\* Promises other than the naps can be exchanged for one another.
Symm == Permutations(Promises \ Naps)

InFrame(kind, A) == live = kind /\ A /\ UNCHANGED <<live, promiseVars>>
InPromises(A) == live = "promises" /\ A /\ UNCHANGED <<live, vars>>

MCInit ==
  /\ live \in {"function", "generator", "promises"} /\ Init /\ PromisesInit
  /\ live = "function" => program \in Regular
  /\ live = "generator" => program \in GeneratorBodies
  /\ live = "promises" => program = CHOOSE body \in Programs : TRUE
MCNext ==
  \/ InFrame("function", Next) \/ InFrame("generator", GeneratorNext)
  \/ InPromises(PromisesNext)
MCSpec == MCInit /\ [][MCNext]_<<live, vars, promiseVars>>

\* The types of both modules.
TypesOK == IF live = "promises" THEN PromisesTypeOK ELSE TypeOK
==============================================================================
