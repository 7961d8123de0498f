------------------------------ MODULE Generator ------------------------------
(***************************************************************************)
(* One generator object (resume_generator and                              *)
(* execute_frame_until_yield_or_return in FunctionCall.cpp): its body is   *)
(* resumed by the calls next(v) and return(v) of a script, and replays its *)
(* current statement as an async function does.  The frame is paused at    *)
(* one yield; what the caller sends is taken when that one is reached      *)
(* again.  waiting is paused_yield here, status stands for state, is_done  *)
(* and how the generator was completed.                                    *)
(*                                                                         *)
(* throw(e) is not among the properties of a generator object, and a body  *)
(* that calls its own next is left out (FunctionCall.cpp:189 does not look *)
(* for State::Executing).                                                  *)
(***************************************************************************)
EXTENDS AsyncFrame

GeneratorFrame(v) ==
  [Frame EXCEPT !.generator = TRUE, !.paused = waiting, !.sent = v]

\* Until the next yield, or the end.
ExecuteGenerator(v) ==
  \E r \in {ExecuteFrame(index, GeneratorFrame(v))} :
    Executed(r, IF r.s.out = "suspend" THEN r.s.paused ELSE Nowhere)

\* What a call sends: the first next meets no yield that could take it, and
\* return(v) makes the yield throw GeneratorReturn, ...
Sent == IF status = "called" THEN {"no"} ELSE {"yes", "no", "return"}

ResumeGenerator ==
  /\ status \in {"called", "suspended"} /\ Len(answers) < MaxAnswers
  /\ \E v \in Sent :
       /\ ExecuteGenerator(v)
       /\ answers' = IF status = "called" THEN answers ELSE Append(answers, v)
  /\ UNCHANGED program

\* ... and completes a generator that has not started without running it.
ReturnUnstarted ==
  /\ status = "called" /\ status' = "dropped"
  /\ UNCHANGED <<program, index, results, loops, env, waiting, answers>>

GeneratorNext == ResumeGenerator \/ ReturnUnstarted
==============================================================================
