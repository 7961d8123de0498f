---------------------------- MODULE MCAsyncFrame -----------------------------
(***************************************************************************)
(* Bodies for AsyncFrame.  Regular:                                        *)
(*   at most one await per expression, as its first operand;               *)
(*   the condition of a loop, and the iterable of a ForIn, can be evaluated*)
(*   again at every await of the body: no effect, no await, same value;    *)
(*   no await in a catch or finally block or in the head of a switch;      *)
(*   nothing throws from inside a compound statement that is in a try;     *)
(*   in a try, no return of a value that may throw, and no jump out of it  *)
(*   unless at most one statement is left to run in its finally block;     *)
(*   no await in the body of a ForIn over a generator.                     *)
(* A generator's bodies have no yield in a try with a finally block.       *)
(* Irregular: bodies that break each of these conditions.                  *)
(***************************************************************************)
EXTENDS AsyncFrame

say == <<"say">>
await == <<"await">>
more == <<"more">>
less == <<"less">>
Say == Expression(say)
Boom == Expression(<<"boom">>)
Less == Expression(less)

Leaves == {Say, Expression(await), Expression(<<"await", "say">>)}
Blocks == {<<x>> : x \in Leaves} \cup {<<x, y>> : x, y \in Leaves}

Jumps == {<<If(await, <<Break>>, <<Say>>), Say>>,
          <<If(await, <<Continue>>, <<Break>>), Say>>,
          <<If(more, <<Return(await)>>, <<>>)>>}

Selected == {Switch(more, <<Case(more, b), Case(<<>>, c)>>) :
               b \in {<<Say, Expression(await)>>, <<Expression(await), Break>>},
               c \in {<<Say>>, <<Expression(await), Say>>}}
            \cup {Switch(<<"false">>,
                         <<Case(say, <<Say>>), Case(<<>>, b)>>) : b \in Blocks}

\* Tries; those of the generators.
Guarded == {Try(b, <<Say>>, <<Say, Say>>) : b \in Blocks}
           \cup {Try(b \o <<Boom>>, <<Say, Say>>, <<Say>>) : b \in Blocks}
           \cup {Try(<<Expression(await), Return(say)>>, <<Say>>, <<Say>>)}
Unfinished == {Try(b, <<Say>>, <<>>) : b \in Blocks}
              \cup {Try(b \o <<Boom>>, <<Say, Say>>, <<>>) : b \in Blocks}

Simple == {Do(b) : b \in Blocks} \cup {If(await, b, c) : b, c \in Blocks}
          \cup {If(more, b, <<Boom>>) : b \in Blocks}

Rounds(tries) ==
  Blocks \cup Jumps \cup {<<st>> : st \in tries \cup Selected} \cup {<<Do(b), Say>> : b \in Blocks}

Loops(rounds) ==
         {For(h, more, less, b) : h \in {say, await}, b \in rounds}
         \cup {ForIn(more, b) : b \in rounds}
         \cup {ForGenerator(say, b) : b \in {<<Say>>, <<Say, Break>>, <<Do(<<Say>>)>>}}
         \cup {While(more, Append(b, Less)) : b \in rounds}
         \cup {While(await, b) : b \in {<<Say>>, <<Do(<<Say>>)>>}}
         \cup {DoWhile(<<Say>> \o b \o <<Less>>, more) : b \in rounds}
         \cup {For(say, more, less, <<ForIn(more, b), Say>>) : b \in Blocks}
         \cup {While(more, <<If(await, b, <<Say>>), Less>>) : b \in Blocks}

Bodies(tries) ==
  {<<st, Say>> : st \in Leaves \cup Selected \cup tries \cup Simple \cup Loops(Rounds(tries))}
  \cup {<<Expression(await), st>> : st \in Selected \cup tries}

Regular == Bodies(Guarded)
GeneratorBodies == Bodies(Unfinished)
AllBodies == Regular \cup GeneratorBodies

Irregular ==
  LET one == <<Expression(await)>>
  IN { <<Expression(<<"say", "await">>)>>,
       <<Expression(<<"await", "await">>)>>,
       <<While(more, <<Less>> \o one \o <<Say>>)>>,
       <<While(await, one)>>,
       <<DoWhile(<<Say>>, await)>>,
       <<ForIn(say, one)>>,
       <<ForGenerator(more, one)>>,
       <<Switch(<<"await">>, <<Case(more, <<Say>>), Case(<<>>, <<Boom>>)>>)>>,
       <<Switch(more, <<Case(await, <<Say>>)>>)>>,
       <<Try(<<Say, Boom>>, one, <<>>)>>,
       <<Try(<<Say>>, <<>>, one)>>,
       <<Try(<<Return(say)>>, <<>>, <<Say, Say>>)>>,
       <<Try(<<Return(<<"boom">>)>>, <<Say, Say>>, <<>>)>>,
       <<Try(<<Boom>>, <<Boom>>, <<Say>>)>>,
       <<ForIn(more, <<Try(<<Do(<<Say>> \o one)>>, <<Say>>, <<>>)>>)>> }
==============================================================================
