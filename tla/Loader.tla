------------------------------- MODULE Loader -------------------------------
(***************************************************************************)
(* How src/crustyvm.c comes from files to the lines that declare symbols   *)
(* and instructions: crustyvm_new with its first two stages, tokenize,     *)
(* which follows includes, and preprocess, which defines and expands       *)
(* macros, decides conditions and evaluates expressions, pass by pass.     *)
(* VMLayout has the stages after them.                                     *)
(*                                                                         *)
(* A line is a sequence of tokens and a token a sequence of words, one for *)
(* most and several for a quoted string.  Names are replaced where they    *)
(* are a whole word; in the code they are replaced inside words as well.   *)
(* Files may be missing; no memory allocation fails.                       *)
(***************************************************************************)
EXTENDS Expressions

CONSTANTS
  Programs,     \* by their names: files, the first one's name, -D variables
  Instructions, \* the names valid_instruction knows
  MaxIncludes,  \* MAX_INCLUDE_DEPTH
  MaxCalls,     \* MACRO_STACK_SIZE
  MaxPasses     \* MAX_PASSES

ASSUME LoaderAssumption == {MaxIncludes, MaxCalls, MaxPasses} \subseteq Nat \ {0}

VARIABLES
  program,     \* the name of the program that is loaded
  stage,       \* "tokenize", "preprocess", or the end: "loaded", "failed"
               \* or "undefined", when what is done next is undefined
  modules,     \* the include stack: a file and the position in it
  line,        \* cvm->line
  logline,     \* cvm->logline, counted from 1
  new,         \* the lines copied by this pass
  macro,       \* the macros: their name, start and parameters
  curmacro,    \* the macro that is being read, 0 for none
  macrostack,  \* the calls: the macro, where to return, and its arguments
  values,      \* the expr variables of this pass, in order
  foundmacro,  \* the pass went over something that another may evaluate
  pass         \* the number of this pass

expansion == <<logline, new, macro, curmacro, macrostack, values, foundmacro>>
vars == <<program, stage, modules, line, expansion, pass>>

Ends == {"loaded", "failed", "undefined"}

Stop(end) ==
  /\ stage' = end
  /\ UNCHANGED <<program, modules, line, expansion, pass>>

-----------------------------------------------------------------------------
(* tokenize. *)

Source == Programs[program]

Module(name) == [name |-> name, pos |-> 0]
Text(name) == Source.files[name]

Reading == stage = "tokenize"
Current == Last(modules)
AtEnd == Current.pos = Len(Text(Current.name))
NextLine == Text(Current.name)[Current.pos + 1]

Includes(l) == l[1] = <<"include">>

\* The current module gets on; one that is at its end is left, the last one
\* for the first pass of the preprocessor.  A module that ends in an include
\* is left one turn later than others.
Proceed(stack) ==
  IF Last(stack).pos < Len(Text(Last(stack).name))
    THEN modules' = stack /\ UNCHANGED stage
  ELSE IF Len(stack) > 1
    THEN modules' = Front(stack) /\ UNCHANGED stage
    ELSE modules' = <<>> /\ stage' = "preprocess"

Past == [modules EXCEPT ![Len(modules)].pos = @ + 1]

TokenizeLine ==
  /\ Reading /\ ~AtEnd /\ ~Includes(NextLine)
  /\ line' = Append(line, NextLine)
  /\ Proceed(Past)
  /\ UNCHANGED <<program, expansion, pass>>

\* The end of an empty module, or of one that went on with an include.
TokenizeEnd ==
  /\ Reading /\ AtEnd
  /\ Proceed(modules)
  /\ UNCHANGED <<program, line, expansion, pass>>

Including == Reading /\ ~AtEnd /\ Includes(NextLine) /\ Len(NextLine) = 2
File == NextLine[2][1]
Cyclic == \E k \in DOMAIN modules : modules[k].name = File

\* Not in the code: what follows the include is passed over.
FaultyInclude ==
  /\ Including
  /\ ~Cyclic /\ File \in DOMAIN Source.files /\ Len(modules) < MaxIncludes
  /\ modules' = <<Module(File)>>
  /\ UNCHANGED <<program, stage, line, expansion, pass>>

\* The file's lines come in place of the line.
Include ==
  /\ Including
  /\ ~Cyclic /\ File \in DOMAIN Source.files /\ Len(modules) < MaxIncludes
  /\ modules' = Append(Past, Module(File))
  /\ UNCHANGED <<program, stage, line, expansion, pass>>

IncludeFails ==
  /\ Reading /\ ~AtEnd /\ Includes(NextLine)
  /\ Len(NextLine) # 2 \/ Cyclic \/ File \notin DOMAIN Source.files
  /\ Stop("failed")

\* The depth is compared with the length of the stack, not with the last
\* place in it: the stack is written behind its end.
IncludeOverflows ==
  /\ Including
  /\ ~Cyclic /\ File \in DOMAIN Source.files /\ Len(modules) = MaxIncludes
  /\ Stop("undefined")

-----------------------------------------------------------------------------
(* preprocess: how a line is rewritten. *)

\* string_replace.
Replaced(token, name, value) ==
  FlattenSeq([k \in DOMAIN token |-> IF <<token[k]>> = name THEN value ELSE <<token[k]>>])

Bindings == [name : Seq(STRING), value : Seq(STRING)]

ReplaceEach[token \in Seq(STRING), bindings \in Seq(Bindings)] ==
  IF bindings = <<>> THEN token
  ELSE LET b == Head(bindings)
       IN  ReplaceEach[Replaced(token, b.name, b.value), Tail(bindings)]

InCall == macrostack # <<>>
Called == macro[Last(macrostack).macro]

Raw == line[logline]

Arguments ==
  IF InCall
    THEN [k \in DOMAIN Called.params |->
            [name |-> Called.params[k], value |-> Last(macrostack).args[k]]]
    ELSE <<>>

\* What a name stands for: -D variables, arguments, expr variables.
Bound == Source.defines \o Arguments \o values
Keyword == ReplaceEach[Raw[1], Bound]

\* A condition that names a -D variable keeps the name, and the end of the
\* macro that is called its own.
Rewritten(k) ==
  LET token   == Raw[k]
      ending  == k = 2 /\ InCall /\ Keyword = <<"endmacro">> /\ token = Called.name
      kept(b) == k = 2 /\ Keyword = <<"if">> /\ token = b.name
      inputs  == SelectSeq(Source.defines, LAMBDA b : ~kept(b))
  IN  IF ending THEN token
      ELSE ReplaceEach[token, inputs \o Arguments \o values]

Active == [k \in DOMAIN Raw |-> Rewritten(k)]

-----------------------------------------------------------------------------
(* preprocess: what is done with a line, by its first token. *)

Working == stage = "preprocess" /\ logline <= Len(line)
Starts(word) == Working /\ Active[1] = <<word>>
Statement == Working /\ \E s \in Instructions : Active[1] = <<s>>
Invocation ==
  Working /\ ~Statement /\ \A w \in {"macro", "endmacro", "if", "expr"} : Active[1] # <<w>>

Copies == new' = Append(new, Active)
Advances == logline' = logline + 1

Named(name) == {m \in DOMAIN macro : macro[m].name = name}

\* A macro begins to be read, in place of an earlier one of its name.  A new
\* one makes the list grow, which may move it: the calls keep pointers into it.
Define ==
  LET def == [name |-> Active[2], start |-> logline + 1, params |-> SubSeq(Active, 3, Len(Active))]
      old == Named(Active[2])
  IN  /\ Starts("macro") /\ curmacro = 0
      /\ Len(Active) >= 2
      /\ curmacro' = IF old = {} THEN Len(macro) + 1 ELSE Min(old)
      /\ macro' = IF old = {} THEN Append(macro, def) ELSE [macro EXCEPT ![Min(old)] = def]
      /\ Advances
      /\ UNCHANGED <<program, stage, modules, line, new, macrostack, values, foundmacro, pass>>

DefineMoves ==
  /\ Starts("macro") /\ curmacro = 0
  /\ Len(Active) >= 2 /\ Named(Active[2]) = {} /\ InCall
  /\ Stop("undefined")

EndsRead == Starts("endmacro") /\ Len(Active) = 2 /\ curmacro # 0 /\ Active[2] = macro[curmacro].name
EndsCall == Starts("endmacro") /\ Len(Active) = 2 /\ ~EndsRead /\ InCall /\ Active[2] = Called.name

\* What is read is passed over, up to the end of the macro.
PassOver ==
  /\ Working /\ curmacro # 0 /\ ~EndsCall
  /\ Starts("endmacro") => Len(Active) = 2
  /\ curmacro' = IF EndsRead THEN 0 ELSE curmacro
  /\ foundmacro' = (foundmacro \/ Starts("macro") \/ Starts("expr") \/ Invocation)
  /\ Advances
  /\ UNCHANGED <<program, stage, modules, line, new, macro, macrostack, values, pass>>

\* Not in the code: the line of the call is evaluated again.
FaultyReturn ==
  /\ EndsCall
  /\ logline' = Last(macrostack).return
  /\ macrostack' = Front(macrostack)
  /\ UNCHANGED <<program, stage, modules, line, new, macro, curmacro, values, foundmacro, pass>>

\* The end of the macro that is called: on behind the call.
Return ==
  /\ EndsCall
  /\ logline' = Last(macrostack).return + 1
  /\ macrostack' = Front(macrostack)
  /\ UNCHANGED <<program, stage, modules, line, new, macro, curmacro, values, foundmacro, pass>>

\* A -D variable, whatever its value, or a number other than 0.
Holds(token) ==
  \/ \E d \in DOMAIN Source.defines : Source.defines[d].name = token
  \/ Len(token) = 1 /\ IsNumber(token[1]) /\ NumberOf[token[1]] # 0

Condition == Starts("if") /\ curmacro = 0 /\ Len(Active) >= 3

\* The condition is taken from the line itself, also from a macro's, and what
\* is left is evaluated.
ConditionHolds ==
  /\ Condition /\ Holds(Active[2])
  /\ line' = [line EXCEPT ![logline] = SubSeq(@, 3, Len(@))]
  /\ UNCHANGED <<program, stage, modules, expansion, pass>>

ConditionFails ==
  /\ Condition /\ ~Holds(Active[2])
  /\ Advances
  /\ UNCHANGED <<program, stage, modules, line, new, macro, curmacro, macrostack, values, foundmacro, pass>>

Value == EvaluateExpr(Active[3])
Assignment == Starts("expr") /\ curmacro = 0 /\ Len(Active) = 3

Assign ==
  /\ Assignment /\ Value.op = "number"
  /\ values' = Append(values, [name |-> Active[2], value |-> <<ToString(Value.number)>>])
  /\ Advances
  /\ UNCHANGED <<program, stage, modules, line, new, macro, curmacro, macrostack, foundmacro, pass>>

AssignCrashes == Assignment /\ Value = Undefined /\ Stop("undefined")

Callable == {m \in Named(Active[1]) : Len(macro[m].params) = Len(Active) - 1}

\* Only the macro that is being read is refused as a recursive call, and no
\* call is made then: a macro may call itself.
Call ==
  /\ Invocation /\ curmacro = 0 /\ Callable # {} /\ Len(macrostack) < MaxCalls
  /\ macrostack' = Append(macrostack, [macro |-> Min(Callable), return |-> logline, args |-> Tail(Active)])
  /\ logline' = macro[Min(Callable)].start
  /\ UNCHANGED <<program, stage, modules, line, new, macro, curmacro, values, foundmacro, pass>>

\* A full stack is noted in the log, and written behind its end.
CallOverflows ==
  Invocation /\ curmacro = 0 /\ Len(macrostack) = MaxCalls /\ Stop("undefined")

\* Everything else is output: instructions, and an end that ends nothing.
Copy ==
  /\ curmacro = 0
  /\ Statement \/ (Starts("endmacro") /\ Len(Active) = 2 /\ ~EndsCall)
  /\ Copies /\ Advances
  /\ UNCHANGED <<program, stage, modules, line, macro, curmacro, macrostack, values, foundmacro, pass>>

LineFails ==
  /\ \/ Starts("endmacro") /\ Len(Active) # 2
     \/ /\ curmacro = 0
        /\ \/ Starts("macro") /\ Len(Active) < 2
           \/ Starts("if") /\ Len(Active) < 3
           \/ Starts("expr") /\ Len(Active) # 3
           \/ Assignment /\ Value = Failed
           \/ Invocation /\ Callable = {} /\ Len(macrostack) < MaxCalls
  /\ Stop("failed")

-----------------------------------------------------------------------------
(* crustyvm_new: the passes. *)

FreshPass ==
  /\ logline' = 1 /\ new' = <<>> /\ macro' = <<>> /\ curmacro' = 0
  /\ macrostack' = <<>> /\ values' = <<>> /\ foundmacro' = FALSE

\* The lines that came out replace those that went in; without any, or with a
\* macro that has no end, loading fails.
EndPass ==
  /\ stage = "preprocess" /\ logline > Len(line)
  /\ IF curmacro # 0 \/ new = <<>>
       THEN stage' = "failed" /\ UNCHANGED <<line, expansion, pass>>
       ELSE /\ line' = new
            /\ FreshPass
            /\ IF ~foundmacro
                 THEN stage' = "loaded" /\ UNCHANGED pass
                 ELSE /\ pass' = pass + 1
                      /\ stage' = IF pass = MaxPasses THEN "failed" ELSE stage
  /\ UNCHANGED <<program, modules>>

Init ==
  /\ program \in DOMAIN Programs
  /\ stage = "tokenize" /\ modules = <<Module(Source.main)>>
  /\ line = <<>> /\ logline = 1 /\ new = <<>>
  /\ macro = <<>> /\ curmacro = 0 /\ macrostack = <<>> /\ values = <<>>
  /\ foundmacro = FALSE /\ pass = 1

Tokenize == TokenizeLine \/ TokenizeEnd \/ Include \/ IncludeFails \/ IncludeOverflows

Preprocess ==
  \/ Define \/ DefineMoves \/ PassOver \/ Return
  \/ ConditionHolds \/ ConditionFails
  \/ Assign \/ AssignCrashes
  \/ Call \/ CallOverflows
  \/ Copy \/ LineFails
  \/ EndPass

\* The end of loading: the program runs, or crustyvm_new returns NULL.
Done == stage \in Ends /\ UNCHANGED vars

Next == Tokenize \/ Preprocess \/ Done

Spec == Init /\ [][Next]_vars /\ WF_vars(Tokenize \/ Preprocess)
=============================================================================
