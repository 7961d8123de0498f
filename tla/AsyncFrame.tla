----------------------------- MODULE AsyncFrame ------------------------------
(***************************************************************************)
(* One call of an async function (FunctionCall.cpp, the statements of      *)
(* StatementEval.cpp, await in ExpressionEval.cpp).  The evaluator has no  *)
(* continuations: an await that cannot go on throws SuspendExecution,      *)
(* which unwinds the whole C++ stack, and the frame is resumed by          *)
(* evaluating its current top-level statement again from the start.  What  *)
(* was reached inside it is in the frame: the answer stamped for the await,*)
(* and a LoopState for every compound statement that was active.           *)
(*                                                                         *)
(* evaluate_statement is one recursive operator per kind of node, on a     *)
(* record that holds what it can change: the environment (n and log), the  *)
(* frame's two maps, the flags of the caller (did_return, did_break,       *)
(* did_continue), the value of the last expression, and out, the C++       *)
(* exception that is unwinding ("ok" for none).  Scopes are left out.      *)
(***************************************************************************)
EXTENDS Naturals, SequencesExt, Functions, TLC, Syntax

CONSTANTS Programs,    \* the bodies considered: sequences of statements
          Answers,     \* how an awaited promise can settle
          MaxAnswers,  \* bound: awaits that settle in one call
          Counter, Elements   \* as in Coroutine

ASSUME FrameAssumption ==
  /\ Answers \subseteq {"yes", "no", "reject"} /\ MaxAnswers \in Nat
  /\ Counter \in Nat /\ Elements \in Nat

Reference == INSTANCE Coroutine

VARIABLES program,   \* frame.function.body
          index,     \* frame.next_statement_index, from 1
          results,   \* frame.awaited_results and awaited_exceptions, by await
          loops,     \* frame.loop_states, by node
          env,       \* the body's counter and what it has done
          waiting,   \* the await whose promise's callbacks hold the frame
          status,    \* "called", "suspended", "stamped" or how the call ended;
                     \* a generator's is at last "closed" or "dropped" by return
          answers    \* history: the answers the frame was resumed with

vars == <<program, index, results, loops, env, waiting, status, answers>>

Nowhere == <<>>

Thrown(s, what) == [s EXCEPT !.out = what]
Diverted(s) == s.ret \/ s.brk \/ s.cont

------------------------------------------------------------------------------
(* Expressions.                                                             *)

Await(p, s) ==
  IF p \in DOMAIN s.results
  THEN LET taken == [s EXCEPT !.results = Restrict(@, DOMAIN @ \ {p})]
           answer == s.results[p]
       IN IF answer = "reject" THEN Thrown(taken, "throw")
          ELSE [taken EXCEPT !.val = (answer = "yes")]
  ELSE Thrown([s EXCEPT !.log = Append(@, p), !.waiting = p], "suspend")

\* In a generator: the yield at which the frame is paused takes what the
\* caller of next or return has left in the frame; any other one pauses it.
Yield(p, s) ==
  LET taken == [s EXCEPT !.paused = Nowhere]
  IN IF p # s.paused
     THEN Thrown([s EXCEPT !.log = Append(@, p), !.paused = p], "suspend")
     ELSE IF s.sent = "return" THEN Thrown(taken, "close")
     ELSE [taken EXCEPT !.val = (s.sent = "yes"), !.sent = "no"]

RECURSIVE Operands(_, _, _, _)
Operands(e, i, p, s) ==
  LET q == Append(p, i)
      next == CASE e[i] = "say"   -> [s EXCEPT !.log = Append(@, q), !.val = TRUE]
                [] e[i] = "more"  -> [s EXCEPT !.val = s.n > 0]
                [] e[i] = "false" -> [s EXCEPT !.val = FALSE]
                [] e[i] = "less"  -> [s EXCEPT !.n = IF @ = 0 THEN 0 ELSE @ - 1]
                [] e[i] = "boom"  -> Thrown(s, "throw")
                [] e[i] = "await" -> IF s.generator THEN Yield(q, s) ELSE Await(q, s)
  IN IF s.out # "ok" \/ i > Len(e) THEN s ELSE Operands(e, i + 1, p, next)

EvaluateExpression(e, p, s) == Operands(e, 1, p, [s EXCEPT !.val = TRUE])

------------------------------------------------------------------------------
(* LoopStates.  done is body_statement_index, at is current_index or        *)
(* init_done.                                                               *)

Enter(p, s) == IF p \in DOMAIN s.loops THEN s
               ELSE [s EXCEPT !.loops = (p :> [done |-> 0, at |-> 0]) @@ @]
At(p, i, s) == [s EXCEPT !.loops[p].at = i]
MarkBefore(p, j, s) == [s EXCEPT !.loops[p].done = IF j = 0 THEN 0 ELSE j - 1]  \* mutant
Mark(p, j, s) == [s EXCEPT !.loops[p].done = j]
Erase(p, s) == [s EXCEPT !.loops = Restrict(@, DOMAIN @ \ {p})]

Undecided == 99    \* SIZE_MAX

RECURSIVE EvaluateStatement(_, _, _), Body(_, _, _, _, _), Plain(_, _, _, _),
          ForRounds(_, _, _), InRounds(_, _, _), DrainRounds(_, _, _), WhileRounds(_, _, _),
          DoRounds(_, _, _), MatchCase(_, _, _, _), CaseBodies(_, _, _)

\* The statements of a block from the j-th, recorded in the LoopState of p.
Body(stmts, j, q, p, s) ==
  LET t == EvaluateStatement(stmts[j], Append(q, j), s)
      u == Mark(p, j, t)
  IN IF j > Len(stmts) THEN s
     ELSE IF t.out # "ok" THEN t
     ELSE IF Diverted(u) THEN u ELSE Body(stmts, j + 1, q, p, u)

\* A catch or finally block: nothing is recorded.
Plain(stmts, j, q, s) ==
  LET t == EvaluateStatement(stmts[j], Append(q, j), s)
  IN IF j > Len(stmts) THEN s
     ELSE IF t.out # "ok" \/ Diverted(t) THEN t ELSE Plain(stmts, j + 1, q, t)

Rest(stmts, part, p, s) == Body(stmts, s.loops[p].done + 1, Append(p, part), p, s)

------------------------------------------------------------------------------
(* Loops.                                                                   *)

NextRound(p, s) == [Mark(p, 0, s) EXCEPT !.cont = FALSE]
LeaveLoopBare(p, s) == [s EXCEPT !.brk = FALSE]     \* mutant: not erased
LeaveLoop(p, s) == [Erase(p, s) EXCEPT !.brk = FALSE]

WhileRounds(st, p, s) ==
  LET c == EvaluateExpression(st.cond, Append(p, CondPart), s)
      b == Rest(st.body, BodyPart, p, c)
  IN IF c.out # "ok" THEN c
     ELSE IF ~c.val THEN Erase(p, c)
     ELSE IF b.out # "ok" THEN b
     ELSE IF b.ret THEN Erase(p, b)
     ELSE IF b.brk THEN LeaveLoop(p, b)
     ELSE WhileRounds(st, p, NextRound(p, b))

WhileStatement(st, p, s) == WhileRounds(st, p, Enter(p, s))

ForRounds(st, p, s) ==
  LET c == EvaluateExpression(st.cond, Append(p, CondPart), s)
      b == Rest(st.body, BodyPart, p, c)
      x == EvaluateExpression(st.post, Append(p, LastPart), NextRound(p, b))
  IN IF c.out # "ok" THEN c
     ELSE IF ~c.val THEN Erase(p, c)
     ELSE IF b.out # "ok" THEN b
     ELSE IF b.ret THEN Erase(p, b)
     ELSE IF b.brk THEN LeaveLoop(p, b)
     ELSE IF x.out # "ok" THEN x
     ELSE ForRounds(st, p, x)

ForStatement(st, p, s) ==
  LET e == Enter(p, s)
      i == IF e.loops[p].at = 1 THEN e
           ELSE EvaluateExpression(st.init, Append(p, InitPart), e)
  IN IF st.body = <<>> THEN s
     ELSE IF i.out # "ok" THEN i ELSE ForRounds(st, p, At(p, 1, i))

InRounds(st, p, s) ==
  LET b == Rest(st.body, BodyPart, p, s)
      r == NextRound(p, b)
  IN IF s.loops[p].at >= Elements THEN Erase(p, s)
     ELSE IF b.out # "ok" THEN b
     ELSE IF b.ret THEN Erase(p, b)
     ELSE IF b.brk THEN LeaveLoop(p, b)
     ELSE InRounds(st, p, At(p, r.loops[p].at + 1, r))

\* Over a generator, which has n more elements: nothing remembers that one
\* has been taken.
DrainRounds(st, p, s) ==
  LET b == Rest(st.body, BodyPart, p, [s EXCEPT !.n = @ - 1])
  IN IF s.n = 0 THEN Erase(p, s)
     ELSE IF b.out # "ok" THEN b
     ELSE IF b.ret THEN Erase(p, b)
     ELSE IF b.brk THEN LeaveLoop(p, b)
     ELSE DrainRounds(st, p, NextRound(p, b))

ForInStatement(st, p, s) ==
  LET v == EvaluateExpression(st.over, Append(p, CondPart), s)
      e == Enter(p, v)
  IN IF v.out # "ok" THEN v
     ELSE IF st.kind = "in" THEN InRounds(st, p, e) ELSE DrainRounds(st, p, e)

DoRounds(st, p, s) ==
  LET b == Rest(st.body, BodyPart, p, s)
      c == EvaluateExpression(st.cond, Append(p, CondPart), NextRound(p, b))
  IN IF b.out # "ok" THEN b
     ELSE IF b.ret THEN Erase(p, b)
     ELSE IF b.brk THEN LeaveLoop(p, b)
     ELSE IF c.out # "ok" THEN c
     ELSE IF ~c.val THEN Erase(p, c) ELSE DoRounds(st, p, c)

DoWhileStatement(st, p, s) == DoRounds(st, p, Enter(p, s))

------------------------------------------------------------------------------
(* Other compound statements.                                               *)

DoStatement(st, p, s) ==
  LET b == Rest(st.body, BodyPart, p, Enter(p, s))
  IN IF b.out # "ok" THEN b ELSE Erase(p, b)

IfStatement(st, p, s) ==
  LET decided == p \in DOMAIN s.loops /\ s.loops[p].at # Undecided
      e == IF p \in DOMAIN s.loops THEN s ELSE At(p, Undecided, Enter(p, s))
      c == IF decided THEN s ELSE EvaluateExpression(st.cond, Append(p, CondPart), e)
      branch == IF decided THEN s.loops[p].at ELSE IF c.val THEN 1 ELSE 2
      d == At(p, branch, IF decided THEN c ELSE Mark(p, 0, c))
      b == IF branch = 1 THEN Rest(st.body, BodyPart, p, d)
                         ELSE Rest(st.else, ElsePart, p, d)
  IN IF c.out # "ok" THEN c ELSE IF b.out # "ok" THEN b ELSE Erase(p, b)

\* The tests are evaluated in turn, from the i-th; s.val is the discriminant.
MatchCase(st, i, p, s) ==
  LET t == EvaluateExpression(st.cases[i].test, p \o <<TestPart, i>>, s)
      default == {j \in DOMAIN st.cases : st.cases[j].test = <<>>}
  IN IF i > Len(st.cases)
       THEN IF default = {} THEN s ELSE At(p, CHOOSE j \in default : TRUE, s)
     ELSE IF st.cases[i].test = <<>> THEN MatchCase(st, i + 1, p, s)
     ELSE IF t.out # "ok" THEN t
     ELSE IF t.val = s.val THEN At(p, i, t)
     ELSE MatchCase(st, i + 1, p, [t EXCEPT !.val = s.val])

\* Fall through the bodies from the case in the LoopState.
CaseBodies(st, p, s) ==
  LET i == s.loops[p].at
      b == Body(st.cases[i].body, s.loops[p].done + 1, p \o <<BodyPart, i>>, p, s)
  IN IF i > Len(st.cases) THEN Erase(p, s)
     ELSE IF b.out # "ok" THEN b
     ELSE IF b.brk /\ ~b.ret THEN LeaveLoop(p, b)
     ELSE IF Diverted(b) THEN Erase(p, b)
     ELSE CaseBodies(st, p, At(p, i + 1, Mark(p, 0, b)))

\* The LoopState exists, at its first case, while the discriminant is
\* evaluated; it is undecided while the tests are.
SwitchStatement(st, p, s) ==
  LET known == p \in DOMAIN s.loops
      e == At(p, 1, Enter(p, s))
      v == EvaluateExpression(st.on, Append(p, CondPart), e)
      m == IF known THEN s
           ELSE IF v.out # "ok" THEN v ELSE MatchCase(st, 1, p, At(p, Undecided, v))
  IN IF m.out # "ok" THEN m
     ELSE IF m.loops[p].at = Undecided THEN Erase(p, m)
     ELSE CaseBodies(st, p, m)

TryCatch(st, p, s) ==
  LET b == Rest(st.body, BodyPart, p, Enter(p, s))
      e == Erase(p, b)
      c == IF b.out = "throw"
           THEN Plain(st.catch, 1, Append(p, ElsePart), Thrown(e, "ok")) ELSE e
  IN IF b.out \in {"suspend", "close"} THEN b
     ELSE IF c.out # "ok" THEN c
     ELSE Plain(st.final, 1, Append(p, LastPart), c)

ReturnStatement(st, p, s) ==
  EvaluateExpression(st.e, Append(p, CondPart), [s EXCEPT !.ret = TRUE])

EvaluateStatement(st, p, s) ==
  CASE st.kind = "expr"     -> EvaluateExpression(st.e, Append(p, CondPart), s)
    [] st.kind = "return"   -> ReturnStatement(st, p, s)
    [] st.kind = "break"    -> [s EXCEPT !.brk = TRUE]
    [] st.kind = "continue" -> [s EXCEPT !.cont = TRUE]
    [] st.kind = "if"       -> IfStatement(st, p, s)
    [] st.kind = "for"      -> ForStatement(st, p, s)
    [] st.kind \in {"in", "drain"} -> ForInStatement(st, p, s)
    [] st.kind = "while"    -> WhileStatement(st, p, s)
    [] st.kind = "dowhile"  -> DoWhileStatement(st, p, s)
    [] st.kind = "do"       -> DoStatement(st, p, s)
    [] st.kind = "switch"   -> SwitchStatement(st, p, s)
    [] st.kind = "try"      -> TryCatch(st, p, s)

------------------------------------------------------------------------------
(* execute_frame_until_await_or_return: top-level statements, with fresh    *)
(* flags, until one suspends, throws or returns.                            *)

RECURSIVE ExecuteFrame(_, _)
ExecuteFrame(i, s) ==
  LET fresh == [s EXCEPT !.ret = FALSE, !.brk = FALSE, !.cont = FALSE]
      t == EvaluateStatement(program[i], <<i>>, fresh)
  IN IF i > Len(program) THEN [at |-> i, s |-> s]
     ELSE IF t.out # "ok" \/ t.ret THEN [at |-> i, s |-> t]
     ELSE ExecuteFrame(i + 1, t)

Executed(r, wait) ==
  /\ index' = r.at /\ results' = r.s.results /\ loops' = r.s.loops
  /\ env' = [n |-> r.s.n, log |-> r.s.log] /\ waiting' = wait
  /\ status' = CASE r.s.out = "suspend" -> "suspended"
                 [] r.s.out = "throw"   -> "rejected"
                 [] r.s.out = "close"   -> "closed"
                 [] OTHER               -> "fulfilled"

Frame == [n |-> env.n, log |-> env.log, val |-> TRUE, out |-> "ok",
          results |-> results, loops |-> loops, waiting |-> Nowhere,
          generator |-> FALSE, paused |-> Nowhere, sent |-> "no",
          ret |-> FALSE, brk |-> FALSE, cont |-> FALSE]

\* Mutant: what the frame waits for is not forgotten when the call ends.
ExecuteHeld ==
  \E r \in {ExecuteFrame(index, Frame)} :
    Executed(r, IF r.s.waiting = Nowhere THEN waiting ELSE r.s.waiting)

Execute == \E r \in {ExecuteFrame(index, Frame)} : Executed(r, r.s.waiting)

Init ==
  /\ program \in Programs /\ status = "called" /\ index = 1
  /\ results = <<>> /\ loops = <<>> /\ waiting = Nowhere /\ answers = <<>>
  /\ env = [n |-> Counter, log |-> <<>>]

\* The call itself: the body runs up to its first await.
Call == status = "called" /\ Execute /\ UNCHANGED <<program, answers>>

\* The awaited promise is, or becomes, settled: its callback stamps the answer
\* into the frame and queues the microtask that resumes it.
Stamp(a) ==
  /\ status = "suspended" /\ Len(answers) < MaxAnswers
  /\ results' = (waiting :> a) @@ results
  /\ status' = "stamped" /\ answers' = Append(answers, a)
  /\ UNCHANGED <<program, index, loops, env, waiting>>

\* The microtask: the frame goes back on the call stack and runs.
Resume == status = "stamped" /\ Execute /\ UNCHANGED <<program, answers>>

Next == Call \/ (\E a \in Answers : Stamp(a)) \/ Resume
Spec == Init /\ [][Next]_vars
------------------------------------------------------------------------------

TypeOK ==
  /\ program \in Programs /\ index \in 1..(Len(program) + 1)
  /\ status \in {"called", "suspended", "stamped", "fulfilled", "rejected", "closed", "dropped"}
  /\ answers \in BoundedSeq(Answers \cup {"return"}, MaxAnswers)
  /\ Range(results) \subseteq Answers /\ env.n \in 0..Counter
  /\ \A p \in DOMAIN loops : loops[p].done \in Nat /\ loops[p].at \in Nat
  /\ status \in {"suspended", "stamped"} <=> waiting # Nowhere

\* The answers the body has been able to consume.
Delivered == IF status = "stamped" THEN Front(answers) ELSE answers

\* The last call of a generator's script was return.
Closing == answers # <<>> /\ Last(answers) = "return"

\* A suspended body has done exactly what the same statements do when they
\* simply wait: everything before the await once, in order, and nothing after
\* it; and it ends the way they end.  The same of a generator's body and its
\* yields; return(v) ends it as a return at the yield would.  (execute_frame_until_await_or_return:
\* "Resume from where we left off".)
ResumesWhereItStopped ==
  LET straight == Reference!Run(Delivered, program)
  IN status \notin {"called", "dropped"} =>
       /\ env.log = straight.log /\ env.n = straight.n
       /\ status = CASE straight.out = "throw"   -> "rejected"
                     [] straight.out = "suspend" -> IF status = "stamped"
                                                    THEN "stamped" ELSE "suspended"
                     [] OTHER                    -> IF Closing THEN "closed" ELSE "fulfilled"

\* All the frame keeps is on the path to the await it is suspended at: a
\* LoopState or an answer left anywhere else would be taken, when the body
\* comes back there, for progress it has not made.
KeepsOnlyItsPlace ==
  status \notin {"rejected", "closed"} =>
  /\ \A p \in DOMAIN loops : p # waiting /\ IsPrefix(p, waiting)
  /\ DOMAIN results = IF status = "stamped" THEN {waiting} ELSE {}
==============================================================================
