------------------------------ MODULE MCLoader ------------------------------
(***************************************************************************)
(* Programs for Loader: the prelude of macros with every two lines behind  *)
(* it, an assignment before them or not, and expressions with every pair   *)
(* of operators.                                                           *)
(***************************************************************************)
EXTENDS Expansion

\* A line of words, each a token.
L(words) == [k \in DOMAIN words |-> <<words[k]>>]

\* M(p) outputs, N calls it twice, K(p) calls it on a condition, and R(p)
\* calls itself.
Prelude ==
  <<L(<<"macro", "M", "p", "q">>), L(<<"add", "p", "q">>), L(<<"endmacro", "M">>),
    L(<<"macro", "N", "p">>),
      L(<<"M", "p", "1">>), L(<<"sub", "p">>), L(<<"M", "2", "p">>),
    L(<<"endmacro", "N">>),
    L(<<"macro", "K", "p">>), L(<<"if", "p", "N", "p">>), L(<<"endmacro", "K">>),
    L(<<"macro", "R", "p">>), L(<<"R", "p">>), L(<<"endmacro", "R">>)>>

\* A file with a macro that defines another one, one that goes on behind an
\* include, an empty one, one that ends in an include, and too many.
Files ==
  [nested |-> <<L(<<"macro", "O">>),
                  L(<<"macro", "I", "p">>), L(<<"add", "p">>), L(<<"endmacro", "I">>),
                  L(<<"I", "1">>),
                L(<<"endmacro", "O">>), L(<<"O">>), L(<<"O">>)>>,
   around |-> <<L(<<"include", "empty">>), L(<<"add", "D">>)>>,
   empty  |-> <<>>,
   last   |-> <<L(<<"sub", "D">>), L(<<"include", "around">>)>>,
   deep   |-> <<L(<<"include", "last">>)>>]

Defines == <<[name |-> <<"D">>, value |-> <<"0">>]>>

Program(lines) ==
  [main |-> "main", files |-> ("main" :> Prelude \o lines) @@ Files, defines |-> Defines]

Assigned == <<<<"expr">>, <<"X">>, <<"D", "+", "3">>>>

Lines ==
  {L(<<"add", "X">>), L(<<"M", "1", "X">>), L(<<"N", "D">>), L(<<"K", "X">>), L(<<"R", "1">>),
   L(<<"if", "X", "M", "X", "D">>), L(<<"if", "D", "add", "D">>),
   L(<<"include", "nested">>), L(<<"include", "last">>), L(<<"include", "deep">>),
   L(<<"include", "main">>), L(<<"include", "none">>), L(<<"endmacro", "M">>), L(<<"M", "1">>),
   Assigned}

\* A variable is assigned once, and a condition in a macro decided once.
Once(lines) ==
  \A l \in {Assigned, L(<<"K", "X">>)} : Len(SelectSeq(lines, LAMBDA k : k = l)) <= 1

Scripts == {lines \in BoundedSeq(Lines, 2) \cup {<<Assigned, k, l>> : k, l \in Lines} : Once(lines)}

Expression(words) == <<<<<<"expr">>, <<"X">>, words>>, L(<<"add", "X">>)>>

\* Three operands with every two operators, grouped in three ways.
Grouped(o, p) ==
  {<<"6", o, "3", p, "2">>, <<"(", "6", o, "3", ")", p, "2">>, <<"6", o, "(", "3", p, "2", ")">>}

\* The code reduces or before exclusive or, and C the other way round.
Mixed(o, p) ==
  \/ o \in {"|", "!|"} /\ p \in {"^", "!^"}
  \/ o \in {"^", "!^"} /\ p \in {"|", "!|"}

Malformed ==
  {<<"6", "*">>, <<"6", "=", "6">>, <<"!", "6">>, <<"6", "<">>, <<"*", "6">>, <<"6", "+", "*", "2">>, <<"(", ")">>, <<")", "6", "(">>,
   <<"(", "6">>, <<"6", "2">>, <<"6", "/", "0">>}

Signs == {<<"-", "2">>, <<"6", "-", "-2">>, <<"(", "6", ")", "-", "2">>}

Calculations ==
  {Expression(words) :
     words \in UNION {Grouped(o, p) \ {w \in {<<"6", o, "3", p, "2">>} : Mixed(o, p)} :
                        o, p \in Operators} \cup Malformed \cup Signs}

\* A program goes by what follows the prelude.
AllPrograms == [lines \in Scripts \cup Calculations |-> Program(lines)]

\* The macro with a condition is called with both.
Deciding ==
  [lines \in {<<L(<<"K", a>>), L(<<"K", b>>)>> : a, b \in {"0", "1"}} |-> Program(lines)]

\* An or and an exclusive or in one expression.
Mixing ==
  [lines \in {Expression(<<"6", w[1], "3", w[2], "2">>) :
                w \in {v \in Operators \X Operators : Mixed(v[1], v[2])}} |-> Program(lines)]

Valid == {"add", "sub"}
=============================================================================
