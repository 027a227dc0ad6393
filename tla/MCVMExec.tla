------------------------------ MODULE MCVMExec ------------------------------
(* Programs for TLC to run on VMExec. *)
EXTENDS VMExec

Layout == INSTANCE VMLayout

Imm(n)      == [kind |-> "imm", val |-> n, indexkind |-> "imm", index |-> 0]
El(v, i)    == [kind |-> "var", val |-> v, indexkind |-> "imm", index |-> i]
ElVar(v, u) == [kind |-> "var", val |-> v, indexkind |-> "var", index |-> u]
Len0(v)     == [kind |-> "len", val |-> v, indexkind |-> "imm", index |-> 0]

Ins(op, dest, src) == [op |-> op, dest |-> dest, src |-> src]
To(op, to)         == [op |-> op, to |-> to]
Do(proc, args)     == [op |-> "call", proc |-> proc, args |-> args]
Return             == [op |-> "ret"]

Static(type, init) == [type |-> type, init |-> init, read |-> FALSE, write |-> FALSE]
ReadCb(junk)  == [type |-> "INT", length |-> 1, read |-> TRUE, write |-> FALSE, junk |-> junk]
WriteCb(junk) == [type |-> "NONE", length |-> 1, read |-> FALSE, write |-> TRUE, junk |-> junk]

-----------------------------------------------------------------------------
(* Recursion with arguments of every kind: immediates that count down,     *)
(* elements of arrays passed on and on, an index that is an argument that  *)
(* refers to a variable.                                                   *)
(* Globals: 1 in, a read callback; 2 out; 3 g, ints; 4 f, a float.         *)
in == 1   out == 2   g == 3   f == 4
(* main: 5 a, 6 k.  walk: 7 ref, 8 n, 9 v, 10 t.  event: nothing.          *)
a == 5   k == 6   ref == 7   n == 8   v == 9   t == 10

Main ==
  << Ins("move", El(k, 0), El(in, 0)),                \*  1
     Do(2, <<El(a, 1), El(k, 0), Imm(2)>>),           \*  2
     Ins("cmp", ElVar(a, k), El(g, 0)),               \*  3
     To("jumpg", 7),                                  \*  4
     Ins("move", El(out, 0), El(a, 1)),               \*  5
     To("jump", 8),                                   \*  6
     Ins("move", El(out, 0), El(in, 0)),              \*  7
     Ins("mul", El(f, 0), El(k, 0)),                  \*  8
     Return >>                                        \*  9

Walk ==
  << Ins("cmp", El(v, 0), Imm(0)),                    \* 10
     To("jumpz", 18),                                 \* 11
     Ins("sub", El(v, 0), Imm(1)),                    \* 12
     Ins("move", El(t, 0), Len0(ref)),                \* 13
     Ins("add", ElVar(ref, n), El(t, 0)),             \* 14
     Ins("and", ElVar(g, n), ElVar(ref, v)),          \* 15
     Ins("move", El(out, 0), Imm(1)),                 \* 16
     Do(2, <<ElVar(ref, n), El(n, 0), El(v, 0)>>),    \* 17
     Return >>                                        \* 18

Event ==
  << Do(2, <<El(g, 0), El(in, 0), El(g, 1)>>),        \* 19
     Do(2, <<El(g, 0), El(in, 0), Imm(1)>>),          \* 20
     To("jumpz", 24),                                 \* 21
     Do(2, <<El(f, 0), El(in, 0), El(g, 0)>>),        \* 22
     Ins("move", ElVar(g, f), Imm(0)),                \* 23
     Ins("move", El(g, 0), Imm(0)),                   \* 24
     To("jump", 25),                                  \* 25
     Return >>                                        \* 26

Globals == <<ReadCb(0), WriteCb(0), Static("INT", <<0, 0>>), Static("FLOAT", <<1>>)>>

RecursiveProcs ==
  << [args |-> 0,
      locals |-> <<[type |-> "INT", init |-> <<1, 2, 3>>],
                   [type |-> "INT", init |-> <<0>>]>>,
      code |-> Main],
     [args |-> 3, locals |-> <<[type |-> "INT", init |-> <<0>>]>>, code |-> Walk],
     [args |-> 0, locals |-> <<>>, code |-> Event] >>

(* What the theorems of VMLayoutProofs assume, and what they conclude. *)
ASSUME RecursionIsDeclared ==
  /\ Globals \in Seq(Layout!Statics \cup Layout!Callbacks)
  /\ \A p \in DOMAIN RecursiveProcs :
       RecursiveProcs[p] \in Layout!ProceduresOf({RecursiveProcs[p].code[i] :
                                                 i \in DOMAIN RecursiveProcs[p].code})
  /\ Layout!SymbolsVerified(Globals, RecursiveProcs)

Recursion(stack, callstack) ==
  Layout!Load(Globals, RecursiveProcs, stack, callstack)

(* Room for four calls; for three; and for eight but memory for less, or   *)
(* for each procedure once.                                                *)
Recursive == {Recursion(30, 4), Recursion(30, 3), Recursion(10, 8), Recursion(0, 8)}

-----------------------------------------------------------------------------
(* Two procedures: the first calls the second.  Globals as above; the      *)
(* first has the array a and the int k, the second the argument ref.       *)
Pair(first, args, second) ==
  Layout!Load(Globals,
       << [args |-> 0,
           locals |-> <<[type |-> "INT", init |-> <<1, 2, 3>>],
                        [type |-> "INT", init |-> <<0>>]>>,
           code |-> first],
          [args |-> args, locals |-> <<>>, code |-> second] >>,
       0, 2)

(* An integer is moved after a float was computed; then a jump. *)
Judging ==
  {Pair(<< Ins("move", El(k, 0), El(in, 0)),
          Ins("add", El(f, 0), El(in, 0)),
          Ins("move", El(g, 0), El(k, 0)),
          To("jumpn", 1),
          Return >>, 0, <<Return>>)}
=============================================================================
