------------------------------ MODULE Coroutine ------------------------------
(***************************************************************************)
(* What a body that awaits should do: what the same statements do when     *)
(* nothing ever suspends (the paths of StatementEval.cpp without a frame), *)
(* cut at the first await whose answer is not known yet.                   *)
(*                                                                         *)
(* An activation is a record: n, the counter; log, what has been observed; *)
(* used, how many answers it has consumed; val, the value of the last      *)
(* expression; out, how the last statement ended.                          *)
(***************************************************************************)
EXTENDS Naturals, Sequences, Syntax

CONSTANTS Counter,   \* the initial value of a body's counter
          Elements   \* the length of the array a ForIn iterates

Ended(d, out) == [d EXCEPT !.out = out]
Observed(d, p) == [d EXCEPT !.log = Append(@, p), !.val = TRUE]

Awaited(given, p, d) ==
  LET o == Observed(d, p)
      answer == given[d.used + 1]
  IN IF d.used = Len(given) THEN Ended(o, "suspend")
     ELSE IF answer = "reject" THEN Ended([o EXCEPT !.used = @ + 1], "throw")
     ELSE IF answer = "return" THEN Ended([o EXCEPT !.used = @ + 1], "return")
     ELSE [o EXCEPT !.used = @ + 1, !.val = (answer = "yes")]

RECURSIVE Value(_, _, _, _, _)
Value(given, e, i, p, d) ==
  LET next == CASE e[i] = "say"   -> Observed(d, Append(p, i))
                [] e[i] = "more"  -> [d EXCEPT !.val = d.n > 0]
                [] e[i] = "false" -> [d EXCEPT !.val = FALSE]
                [] e[i] = "less"  -> [d EXCEPT !.n = IF @ = 0 THEN 0 ELSE @ - 1]
                [] e[i] = "boom"  -> Ended(d, "throw")
                [] e[i] = "await" -> Awaited(given, Append(p, i), d)
  IN IF d.out # "ok" \/ i > Len(e) THEN d ELSE Value(given, e, i + 1, p, next)

Eval(given, e, p, d) == Value(given, e, 1, p, [d EXCEPT !.val = TRUE])

RECURSIVE Exec(_, _, _, _), Block(_, _, _, _, _), Round(_, _, _, _, _),
          Match(_, _, _, _, _, _), Fall(_, _, _, _, _)

Block(given, stmts, i, p, d) ==
  IF d.out # "ok" \/ i > Len(stmts) THEN d
  ELSE Block(given, stmts, i + 1, p, Exec(given, stmts[i], Append(p, i), d))

\* The i-th time around a loop.
Round(given, st, p, d, i) ==
  LET test == CASE st.kind = "in" -> [d EXCEPT !.val = i <= Elements]
                [] st.kind = "drain" -> [d EXCEPT !.val = d.n > 0, !.n = IF @ = 0 THEN 0 ELSE @ - 1]
                [] st.kind = "dowhile" /\ i = 1 -> [d EXCEPT !.val = TRUE]
                [] OTHER -> Eval(given, st.cond, Append(p, CondPart), d)
      body == Block(given, st.body, 1, Append(p, BodyPart), test)
      done == IF body.out = "continue" THEN Ended(body, "ok") ELSE body
      post == IF st.kind = "for" /\ done.out = "ok"
              THEN Eval(given, st.post, Append(p, LastPart), done) ELSE done
  IN IF test.out # "ok" \/ ~test.val THEN test
     ELSE IF body.out = "break" THEN Ended(body, "ok")
     ELSE IF post.out # "ok" THEN post
     ELSE Round(given, st, p, post, i + 1)

\* The first case from the i-th whose test equals the discriminant, in d.case.
Match(given, st, on, i, p, d) ==
  LET test == Eval(given, st.cases[i].test, p \o <<TestPart, i>>, d)
      default == {j \in DOMAIN st.cases : st.cases[j].test = <<>>}
  IN IF d.out # "ok" THEN [at |-> 0, d |-> d]
     ELSE IF i > Len(st.cases)
       THEN [at |-> IF default = {} THEN i ELSE CHOOSE j \in default : TRUE, d |-> d]
     ELSE IF st.cases[i].test # <<>> /\ test.out = "ok" /\ test.val = on
       THEN [at |-> i, d |-> test]
     ELSE Match(given, st, on, i + 1, p, test)

Fall(given, st, i, p, d) ==
  IF d.out # "ok" \/ i > Len(st.cases) THEN d
  ELSE Fall(given, st, i + 1, p,
            Block(given, st.cases[i].body, 1, p \o <<BodyPart, i>>, d))

Exec(given, st, p, d) ==
  CASE st.kind = "expr" -> Eval(given, st.e, Append(p, CondPart), d)
    [] st.kind = "return" ->
         LET v == Eval(given, st.e, Append(p, CondPart), d)
         IN IF v.out = "ok" THEN Ended(v, "return") ELSE v
    [] st.kind \in {"break", "continue"} -> Ended(d, st.kind)
    [] st.kind = "do" -> Block(given, st.body, 1, Append(p, BodyPart), d)
    [] st.kind = "if" ->
         LET c == Eval(given, st.cond, Append(p, CondPart), d)
         IN IF c.out = "ok" /\ ~c.val
            THEN Block(given, st.else, 1, Append(p, ElsePart), c)
            ELSE Block(given, st.body, 1, Append(p, BodyPart), c)
    [] st.kind = "for" ->
         LET init == Eval(given, st.init, Append(p, InitPart), d)
         IN IF init.out = "ok" THEN Round(given, st, p, init, 1) ELSE init
    [] st.kind \in {"in", "drain"} ->
         LET over == Eval(given, st.over, Append(p, CondPart), d)
         IN IF over.out = "ok" THEN Round(given, st, p, over, 1) ELSE over
    [] st.kind \in {"while", "dowhile"} -> Round(given, st, p, d, 1)
    [] st.kind = "switch" ->
         LET on == Eval(given, st.on, Append(p, CondPart), d)
             hit == Match(given, st, on.val, 1, p, on)
             out == Fall(given, st, hit.at, p, hit.d)
         IN IF out.out = "break" THEN Ended(out, "ok") ELSE out
    [] st.kind = "try" ->
         LET b == Block(given, st.body, 1, Append(p, BodyPart), d)
             c == IF b.out = "throw"
                  THEN Block(given, st.catch, 1, Append(p, ElsePart), Ended(b, "ok"))
                  ELSE b
             f == Block(given, st.final, 1, Append(p, LastPart), Ended(c, "ok"))
         IN IF c.out = "suspend" THEN c
            ELSE IF f.out = "ok" THEN Ended(f, c.out) ELSE f

Run(given, program) ==
  Block(given, program, 1, <<>>,
        [n |-> Counter, log |-> <<>>, used |-> 0, val |-> TRUE, out |-> "ok"])
==============================================================================
