---------------------------- MODULE Expressions ----------------------------
(***************************************************************************)
(* What an expr statement evaluates: evaluate_expr and do_expression of    *)
(* src/crustyvm.c.  An expression is a sequence of words: numbers,         *)
(* operators, parentheses and whatever else the program wrote.             *)
(***************************************************************************)
EXTENDS Integers, SequencesExt

CONSTANT Bits       \* the width of an int
LOCAL INSTANCE Bitwise

ASSUME BitsAssumption == Bits \in Nat \ {0, 1}

Word == 2 ^ Bits

\* The int that Bits bits stand for.
Signed(x) == LET u == x % Word IN IF u >= Word \div 2 THEN u - Word ELSE u

\* The numbers a model's expressions may hold, and how they are written.
Numbers == -(Word \div 2) .. Word \div 2 - 1
NumberOf == [s \in {ToString(n) : n \in Numbers} |-> CHOOSE n \in Numbers : ToString(n) = s]
IsNumber(word) == word \in DOMAIN NumberOf

\* Not in the code: shifts are reduced before sums.
FaultyLevels ==
  <<{"*", "/", "%"}, {"<<", ">>"}, {"+", "-"}, {"<", "<=", ">", ">="},
    {"==", "!="}, {"&", "!&"}, {"|", "!|"}, {"^", "!^"}>>

\* The operators, in the order in which they are reduced: or before exclusive
\* or, which is not the order of C.
Levels ==
  <<{"*", "/", "%"}, {"+", "-"}, {"<<", ">>"}, {"<", "<=", ">", ">="},
    {"==", "!="}, {"&", "!&"}, {"|", "!|"}, {"^", "!^"}>>

Operators == UNION {Levels[k] : k \in DOMAIN Levels}

\* What a list of an expression holds: numbers, and symbols for the rest.
Listed == [op : Operators \cup {"number", "(", ")", "failed", "undefined"}, number : Numbers]

Number(n) == [op |-> "number", number |-> n]
Symbol(op) == [op |-> op, number |-> 0]
Failed    == Symbol("failed")
Undefined == Symbol("undefined")

-----------------------------------------------------------------------------
(* evaluate_expr: the words become a list of numbers and operators. *)

\* A sign is an operator only behind a number or a parenthesis; elsewhere it
\* would start a number.  What is not a number counts as 0.
Item(items, word) ==
  LET signs == items # <<>> /\ Last(items).op \in {"number", ")"}
  IN  IF \/ word \in {"(", ")"} \cup (Operators \ {"+", "-"})
         \/ word \in {"+", "-"} /\ signs
        THEN Symbol(word)
        ELSE Number(IF IsNumber(word) THEN NumberOf[word] ELSE 0)

ItemsFrom[items \in Seq(Listed), words \in Seq(STRING)] ==
  IF words = <<>> THEN items
  ELSE ItemsFrom[Append(items, Item(items, Head(words))), Tail(words)]

Items(words) == ItemsFrom[<<>>, words]

\* A first half of an operator that has no second one, and a comparison that
\* ends the words, stop the evaluation.
Invalid(words) ==
  \/ \E k \in DOMAIN words : words[k] \in {"=", "!"}
  \/ words # <<>> /\ Last(words) \in {"<", ">"}

Occurrences(items, op) == Len(SelectSeq(items, LAMBDA item : item.op = op))

-----------------------------------------------------------------------------
(* do_expression: the list is reduced to one number. *)

Truth(b) == IF b THEN 1 ELSE 0

\* C divides towards zero.
Quotient(a, b) ==
  LET q == (IF a < 0 THEN -a ELSE a) \div (IF b < 0 THEN -b ELSE b)
  IN  IF (a < 0) = (b < 0) THEN q ELSE -q

Binary(op, a, b) ==
  LET x == a % Word
      y == b % Word
      n == CASE op = "*" -> a * b      [] op = "+" -> a + b  [] op = "-" -> a - b
             [] op = "/" -> Quotient(a, b)
             [] op = "%" -> a - b * Quotient(a, b)
             [] op = "<<" -> a * 2 ^ b [] op = ">>" -> a \div 2 ^ b
             [] op = "<" -> Truth(a < b)  [] op = "<=" -> Truth(a <= b)
             [] op = ">" -> Truth(a > b)  [] op = ">=" -> Truth(a >= b)
             [] op = "==" -> Truth(a = b) [] op = "!=" -> Truth(a # b)
             [] op = "&" -> x & y   [] op = "!&" -> -1 - (x & y)
             [] op = "|" -> x | y   [] op = "!|" -> -1 - (x | y)
             [] op = "^" -> x ^^ y  [] op = "!^" -> -1 - (x ^^ y)
  IN  Signed(n)

\* Dividing by zero, and shifting by what is not a place, is undefined.
Applied(op, a, b) ==
  IF \/ op \in {"/", "%"} /\ b = 0
     \/ op \in {"<<", ">>"} /\ b \notin 0 .. Bits - 1
    THEN Undefined
    ELSE Number(Binary(op, a, b))

\* One more item behind those already gone through: an operator of the level
\* takes the number before it and the number after it.
Reduced(ops, items, item) ==
  LET n == Len(items)
  IN  IF n = 0 \/ items[n].op \notin ops
        THEN Append(items, item)
      ELSE IF n = 1 \/ items[n - 1].op # "number" \/ item.op # "number"
        THEN items \o <<Failed>>
      ELSE SubSeq(items, 1, n - 2)
             \o <<Applied(items[n].op, items[n - 1].number, item.number)>>

ReduceLevel[k \in DOMAIN Levels, done \in Seq(Listed), items \in Seq(Listed)] ==
  IF items = <<>> THEN done
  ELSE ReduceLevel[k, Reduced(Levels[k], done, Head(items)), Tail(items)]

\* The levels one by one.
ReduceFrom[k \in 1 .. Len(Levels) + 1, items \in Seq(Listed)] ==
  IF k > Len(Levels) THEN items
  ELSE ReduceFrom[k + 1, ReduceLevel[k, <<>>, items]]

ReduceAll(items) == ReduceFrom[1, items]

\* The list comes down to one number, or the evaluation fails.
Single(items) ==
  IF \E k \in DOMAIN items : items[k] = Undefined THEN Undefined
  ELSE IF Len(items) = 1 /\ items[1].op = "number" THEN items[1]
  ELSE Failed

\* The parenthesis that closes the one at first: the first place behind it
\* where as many have been closed as opened.
Closing(items, first) ==
  {last \in first + 1 .. Len(items) :
     LET inside == SubSeq(items, first, last)
     IN  Occurrences(inside, "(") = Occurrences(inside, ")")}

\* Parentheses first, each evaluated in isolation.  The first one has to be
\* closed behind it: the search for that runs off the list.
Evaluate[items \in Seq(Listed)] ==
  LET opens == {k \in DOMAIN items : items[k].op = "("}
      ends  == Closing(items, Min(opens))
  IN  IF opens = {} THEN Single(ReduceAll(items))
      ELSE IF ends = {} THEN Undefined
      ELSE LET first == Min(opens)
               last  == Min(ends)
               inner == Evaluate[SubSeq(items, first + 1, last - 1)]
           IN  IF inner.op # "number" THEN inner
               ELSE Evaluate[SubSeq(items, 1, first - 1) \o <<inner>>
                               \o SubSeq(items, last + 1, Len(items))]

\* The parentheses are counted, and nothing is no expression.
EvaluateExpr(words) ==
  LET items == Items(words)
  IN  IF Invalid(words) \/ items = <<>> \/ Occurrences(items, "(") # Occurrences(items, ")")
        THEN Failed
        ELSE Evaluate[items]
=============================================================================
