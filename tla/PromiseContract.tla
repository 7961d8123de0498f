--------------------------- MODULE PromiseContract ----------------------------
(***************************************************************************)
(* What a promise owes the code that uses it: it settles at most once, and *)
(* each reaction attached to it runs once, after it has settled, in the    *)
(* order of attachment.  Promises implements this.                         *)
(***************************************************************************)
EXTENDS Naturals

CONSTANT Promises

VARIABLES status,    \* "unused", "pending", "fulfilled" or "rejected"
          attached,  \* reactions attached so far
          ran        \* reactions that have run; they are numbered from 1

absVars == <<status, attached, ran>>

AbsInit ==
  /\ status = [p \in Promises |-> "unused"]
  /\ attached = [p \in Promises |-> 0]
  /\ ran = [p \in Promises |-> 0]

Settled(p) == status[p] \in {"fulfilled", "rejected"}

\* Promises come into existence, or at most one pending promise settles.
Evolve ==
  \/ \E p \in Promises :
       /\ status[p] = "pending"
       /\ \E s \in {"fulfilled", "rejected"} : status' = [status EXCEPT ![p] = s]
  \/ \E p \in Promises :
       /\ status[p] = "unused"
       /\ status' = [status EXCEPT ![p] = "pending"]
  \/ UNCHANGED status

Attach ==
  \/ \E p \in Promises :
       /\ status[p] # "unused"
       /\ attached' = [attached EXCEPT ![p] = @ + 1]
  \/ UNCHANGED attached

React ==
  \/ \E p \in Promises :
       /\ Settled(p) /\ ran[p] < attached[p]
       /\ ran' = [ran EXCEPT ![p] = @ + 1]
  \/ UNCHANGED ran

\* One step of the program may combine the three: a reaction that runs and
\* settles the next promise, an attachment that creates one.
AbsNext == Evolve /\ Attach /\ React

AbsSpec == AbsInit /\ [][AbsNext]_absVars
==============================================================================
