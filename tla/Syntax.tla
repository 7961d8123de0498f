------------------------------- MODULE Syntax --------------------------------
(***************************************************************************)
(* The statements of a Swazi function body (ast.hpp), reduced to what      *)
(* suspension and resumption can tell apart.  An expression is the sequence*)
(* of its operands, in the order they are evaluated; its value is that of  *)
(* the last one.  An operand is                                            *)
(*   "say"    something observable: a call, a write, a print;              *)
(*   "more"   a test of a counter; "less" decrements it;                   *)
(*   "false"  a literal;                                                   *)
(*   "boom"   throws;                                                      *)
(*   "await"  evaluates the awaited expression (observable) and awaits it; *)
(*            in the body of a generator, which cannot be async, a yield.  *)
(* A node is identified by its path from the root, as the code identifies  *)
(* it by its address or by its await_id.                                   *)
(***************************************************************************)

Expression(e) == [kind |-> "expr", e |-> e]
Return(e) == [kind |-> "return", e |-> e]
Break == [kind |-> "break"]
Continue == [kind |-> "continue"]
If(cond, then, else) ==
  [kind |-> "if", cond |-> cond, body |-> then, else |-> else]
For(init, cond, post, body) ==
  [kind |-> "for", init |-> init, cond |-> cond, post |-> post, body |-> body]
ForIn(over, body) == [kind |-> "in", over |-> over, body |-> body]
ForGenerator(over, body) ==   \* ForIn over a generator object
  [kind |-> "drain", over |-> over, body |-> body]
While(cond, body) == [kind |-> "while", cond |-> cond, body |-> body]
DoWhile(body, cond) == [kind |-> "dowhile", body |-> body, cond |-> cond]
Do(body) == [kind |-> "do", body |-> body]
Case(test, body) == [test |-> test, body |-> body]  \* kaida: the empty test
Switch(on, cases) == [kind |-> "switch", on |-> on, cases |-> cases]
Try(body, catch, final) ==
  [kind |-> "try", body |-> body, catch |-> catch, final |-> final]

\* The parts of a node, as steps of a path.
CondPart == 0  \* condition, discriminant, iterable, operand
BodyPart == 1  \* body, then, try
ElsePart == 2  \* else, catch
LastPart == 3  \* post, finally
InitPart == 4  \* init
TestPart == 5  \* the tests of the cases
==============================================================================
