----------------------------- MODULE Expansion -----------------------------
(***************************************************************************)
(* What src/README promises of the stages that Loader models: include,     *)
(* macro, if and expr, as a definition by recursion, without positions in  *)
(* a list of lines, stacks or passes; and that Loader keeps the promise.   *)
(***************************************************************************)
EXTENDS Loader

\* A file with every include replaced by the lines of the file it names.
RECURSIVE Flat(_)
Flat(name) ==
  FlattenSeq([k \in DOMAIN Text(name) |->
    LET l == Text(name)[k] IN IF Includes(l) THEN Flat(l[2][1]) ELSE <<l>>])

-----------------------------------------------------------------------------
\* README "precedence ... similar to that of C": operators that bind less have
\* a higher number; a negated one is where C has the one that it negates.
Precedence ==
  [op \in Operators |->
     CASE op \in {"*", "/", "%"} -> 1 [] op \in {"+", "-"} -> 2
       [] op \in {"<<", ">>"} -> 3    [] op \in {"<", "<=", ">", ">="} -> 4
       [] op \in {"==", "!="} -> 5    [] op \in {"&", "!&"} -> 6
       [] op \in {"^", "!^"} -> 7     [] op \in {"|", "!|"} -> 8]

\* The value of a well formed expression: its last operator is, of those in
\* no parentheses, the last one of those that bind least.
RECURSIVE Meaning(_)
Meaning(items) ==
  LET outside(k) == LET before == SubSeq(items, 1, k)
                    IN  Occurrences(before, "(") = Occurrences(before, ")")
      tops  == {k \in DOMAIN items : items[k].op \in Operators /\ outside(k)}
      least == {k \in tops : \A j \in tops : Precedence[items[j].op] <= Precedence[items[k].op]}
  IN  IF Len(items) = 1 THEN items[1].number
      ELSE IF tops = {} THEN Meaning(SubSeq(items, 2, Len(items) - 1))
      ELSE LET last == Max(least)
           IN  Binary(items[last].op, Meaning(SubSeq(items, 1, last - 1)),
                                      Meaning(SubSeq(items, last + 1, Len(items))))

-----------------------------------------------------------------------------
\* What lines stand for: the lines that are output, the macros and the values
\* of variables behind them, from those before and a macro's arguments.
RECURSIVE Run(_, _, _)
Run(lines, s, args) ==
  IF lines = <<>> THEN s
  ELSE
    LET raw  == Head(lines)
        rest == Tail(lines)
        l    == [k \in DOMAIN raw |->
                   ReplaceEach[raw[k], Source.defines \o args \o s.values]]
        size == Min({k \in DOMAIN rest : rest[k] = <<<<"endmacro">>, raw[2]>>})
    IN
    CASE l[1] = <<"macro">> ->
           LET def == [params |-> SubSeq(l, 3, Len(l)), body |-> SubSeq(rest, 1, size - 1)]
           IN  Run(SubSeq(rest, size + 1, Len(rest)),
                   [s EXCEPT !.macros = (l[2] :> def) @@ @], args)
      [] l[1] = <<"if">> ->
           Run((IF Holds(raw[2]) \/ Holds(l[2]) THEN <<SubSeq(raw, 3, Len(raw))>> ELSE <<>>) \o rest, s, args)
      [] l[1] = <<"expr">> ->
           Run(rest, [s EXCEPT !.values =
                        Append(@, [name |-> l[2], value |-> <<ToString(Meaning(Items(l[3])))>>])], args)
      [] l[1] \in DOMAIN s.macros ->
           LET def == s.macros[l[1]]
           IN  Run(rest, Run(def.body, s, [k \in DOMAIN def.params |->
                                             [name |-> def.params[k], value |-> l[k + 1]]]), args)
      [] OTHER -> Run(rest, [s EXCEPT !.out = Append(@, l)], args)

Expanded == Run(Flat(Source.main), [out |-> <<>>, macros |-> <<>>, values |-> <<>>], <<>>).out

-----------------------------------------------------------------------------
\* README "Preprocesor Statements": a program that is loaded is the expansion
\* of its files, whatever calls, conditions and passes it takes: positions
\* kept by includes and calls lead back to where they came from, and a
\* second pass finds nothing to do and changes nothing.
Expands == stage = "loaded" => line = Expanded /\ pass <= 2

-----------------------------------------------------------------------------
(* Programs that keep to the limits, judged by their text.  P is a program *)
(* as Programs holds it.                                                   *)

\* Every include stack that reading the files may build up.
RECURSIVE Stacks(_, _)
Stacks(P, stack) ==
  LET lines    == Range(P.files[Last(stack)])
      included == {l[2][1] : l \in {k \in lines : Includes(k) /\ Len(k) = 2}}
  IN  {stack} \cup UNION {Stacks(P, Append(stack, f)) :
                            f \in (included \cap DOMAIN P.files) \ Range(stack)}

\* The macros that line k of a text is in the body of.
Enclosing(text, k) ==
  {text[i][2] : i \in {j \in 1 .. k - 1 :
     /\ text[j][1] = <<"macro">> /\ Len(text[j]) >= 2
     /\ \A e \in j + 1 .. k : text[e] # <<<<"endmacro">>, text[j][2]>>}}

\* Every line that may be read, with the macros it is in.
Written(P) ==
  UNION {{[line |-> P.files[f][k], in |-> Enclosing(P.files[f], k)] : k \in DOMAIN P.files[f]} :
           f \in UNION {Range(s) : s \in Stacks(P, <<P.main>>)}}

\* n calls, one inside the other, begin on the lines: any name of a macro that
\* is written on a line may be called there.
RECURSIVE Nests(_, _, _)
Nests(written, lines, n) ==
  n = 0 \/ \E w \in lines : \E k \in DOMAIN w.line :
             LET body == {v \in written : w.line[k] \in v.in}
             IN  /\ w.line[1] \notin {<<"macro">>, <<"endmacro">>}
                 /\ body # {}
                 /\ Nests(written, body, n - 1)

\* Includes and calls fit their stacks, no macro defines one, and every
\* expression as it is written has a value or is none.
KeepsToLimits(P) ==
  LET written == Written(P)
  IN  /\ \A s \in Stacks(P, <<P.main>>) : Len(s) <= MaxIncludes
      /\ ~Nests(written, {w \in written : w.in = {}}, MaxCalls + 1)
      /\ \A w \in written :
           /\ w.line[1] = <<"macro">> => w.in = {}
           /\ w.line[1] = <<"expr">> /\ Len(w.line) = 3 =>
                EvaluateExpr(ReplaceEach[w.line[3], P.defines]) # Undefined

Limited == {p \in DOMAIN Programs : KeepsToLimits(Programs[p])}

\* crustyvm_new returns for every program that keeps to the limits: positions
\* kept by includes and calls never lead back to a line that was gone through,
\* and the number of passes is bounded.  (For others the code has no result:
\* it goes on behind the end of a stack, or divides by zero.)
Loads == program \in Limited => <>(stage \in {"loaded", "failed"})
=============================================================================
