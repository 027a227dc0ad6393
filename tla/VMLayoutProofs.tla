--------------------------- MODULE VMLayoutProofs ---------------------------
(***************************************************************************)
(* What the loader of src/crustyvm.c lays out, for declarations of any     *)
(* number and size: it is what VMExec assumes of the programs it runs, its *)
(* memory is used up only by recursion, and the checks that symbols_verify *)
(* makes on it before code is generated always pass.                       *)
(***************************************************************************)
EXTENDS VMExecProofs, FiniteSetTheorems, WellFoundedInduction

Layout == INSTANCE VMLayout

-----------------------------------------------------------------------------
(* Numbers.                                                                *)

(* A set of natural numbers that is not empty has a least one. *)
LEMMA LeastExists ==
  ASSUME NEW S \in SUBSET Nat, S # {}
  PROVE  \E i \in S : \A j \in S : i <= j
<1>. DEFINE R == {p \in Nat \X Nat : p[1] < p[2]}
<1>1. IsWellFoundedOn(R, Nat)
  BY NatLessThanWellFounded, Zenon DEF OpToRel
<1>. HIDE DEF R
<1>2. PICK i \in S : \A j \in S : <<j, i>> \notin R
  BY <1>1, WFMin
<1>3. ASSUME NEW j \in S PROVE i <= j
  <2>1. ~(j < i)
    <3>1. <<j, i>> \in Nat \X Nat /\ <<j, i>>[1] = j /\ <<j, i>>[2] = i
      OBVIOUS
    <3>2. <<j, i>> \notin R
      BY <1>2
    <3>. QED
      BY <3>1, <3>2 DEF R
  <2>. QED
    BY <2>1
<1>. QED
  BY <1>3

(* Induction, for a set of numbers in place of a predicate. *)
LEMMA Inductive ==
  ASSUME NEW n \in Nat, NEW S, 0 \in S,
         \A k \in 0 .. (n - 1) : k \in S => k + 1 \in S
  PROVE  0 .. n \subseteq S
<1>1. SUFFICES ASSUME (0 .. n) \ S # {} PROVE FALSE
  OBVIOUS
<1>2. PICK i \in (0 .. n) \ S : \A j \in (0 .. n) \ S : i <= j
  <2>1. (0 .. n) \ S \in SUBSET Nat
    OBVIOUS
  <2>. QED
    BY <1>1, <2>1, LeastExists
<1>3. i # 0 /\ i - 1 \in 0 .. (n - 1) /\ i - 1 + 1 = i
  BY <1>2
<1>4. i - 1 \in S
  BY <1>2, <1>3
<1>. QED
  BY <1>2, <1>3, <1>4

-----------------------------------------------------------------------------
(* Variables.                                                              *)

(* What new_variable makes. *)
Declared == [scope : Nat, type : {"INT", "FLOAT", "NONE"}, length : Nat,
             offset : Int, read : BOOLEAN, write : BOOLEAN]

(* The cells that an initializer takes. *)
CellsFor(d) == Len(d.init) * Layout!SizeOf(d.type)

LEMMA CellsAreNumbers ==
  ASSUME NEW d, d.type \in {"INT", "FLOAT"}, d.init \in Seq(Int) \ {<<>>}
  PROVE  /\ CellsFor(d) \in Nat \ {0}
         /\ Len(d.init) \in Nat \ {0}
         /\ Layout!Cells(d) \in [1 .. CellsFor(d) -> Int]
<1>1. PICK n \in Nat : n = Len(d.init) /\ n # 0 /\ d.init \in [1 .. n -> Int]
  <2>1. d.init \in Seq(Int) /\ d.init # <<>>
    OBVIOUS
  <2>. QED
    BY <2>1, LenProperties, EmptySeq
<1>2. CASE d.type = "INT"
  <2>1. Layout!SizeOf(d.type) = 1
    BY <1>2 DEF Layout!SizeOf
  <2>2. CellsFor(d) = n
    BY <1>1, <2>1 DEF CellsFor
  <2>3. ASSUME NEW c \in 1 .. n PROVE d.init[((c - 1) \div 1) + 1] \in Int
    BY <1>1
  <2>. QED
    BY <1>1, <2>1, <2>2, <2>3 DEF Layout!Cells
<1>3. CASE d.type = "FLOAT"
  <2>1. Layout!SizeOf(d.type) = 2
    BY <1>3 DEF Layout!SizeOf
  <2>2. CellsFor(d) = n * 2
    BY <1>1, <2>1 DEF CellsFor
  <2>3. ASSUME NEW c \in 1 .. n * 2 PROVE d.init[((c - 1) \div 2) + 1] \in Int
    <3>1. ((c - 1) \div 2) + 1 \in 1 .. n
      OBVIOUS
    <3>. QED
      BY <1>1, <3>1
  <2>. QED
    BY <1>1, <2>1, <2>2, <2>3 DEF Layout!Cells
<1>. QED
  BY <1>2, <1>3

(* Two initializers, one behind the other. *)
LEMMA Joined ==
  ASSUME NEW a \in Nat, NEW b \in Nat,
         NEW s \in [1 .. a -> Int], NEW t \in [1 .. b -> Int]
  PROVE  s \o t \in [1 .. a + b -> Int]
<1>1. s \in Seq(Int) /\ t \in Seq(Int) /\ Len(s) = a /\ Len(t) = b
  BY SeqDef, LenProperties
<1>2. s \o t \in Seq(Int) /\ Len(s \o t) = a + b
  BY <1>1, ConcatProperties
<1>. QED
  BY <1>2, LenProperties

-----------------------------------------------------------------------------
(* Frames.                                                                 *)

(* The frame of a procedure with n arguments: its variables are of scope p *)
(* and lie in it, each in cells of its own.                                *)
InFrame(x, p, n, size) ==
  /\ x \in Declared /\ x.scope = p /\ ~x.read /\ ~x.write
  /\ \/ x.length = 0 /\ x.type = "NONE" /\ x.offset \in 1 .. n
     \/ /\ x.length > 0
        /\ ArgSize * n <= x.offset - Footprint(x)
        /\ x.offset <= size

Apart(vs) ==
  \A i, j \in DOMAIN vs :
    i # j /\ ~vs[i].read /\ ~vs[i].write /\ ~vs[j].read /\ ~vs[j].write
          /\ vs[i].scope = vs[j].scope
      => Place(vs[i]) \cap Place(vs[j]) = {}

FrameGood(f, p, n) ==
  /\ f = [stackneeded |-> f.stackneeded, init |-> f.init, var |-> f.var]
  /\ f.stackneeded \in Nat /\ ArgSize * n <= f.stackneeded
  /\ f.init \in [1 .. f.stackneeded -> Int]
  /\ f.var \in Seq(Declared)
  /\ \A i \in 1 .. Len(f.var) : InFrame(f.var[i], p, n, f.stackneeded)
  /\ Apart(f.var)

(* Where the variables of a frame lie. *)
LEMMA PlacesInFrame ==
  ASSUME NEW p \in Nat \ {0}, NEW n \in Nat, NEW size \in Nat, ArgSize * n <= size,
         NEW x, InFrame(x, p, n, size)
  PROVE  Place(x) \subseteq (0 - size) .. (0 - 1)
<1>1. /\ x.length \in Nat /\ x.offset \in Int /\ x.scope # 0
      /\ Footprint(x) = x.length \/ Footprint(x) = x.length * 2
  BY DEF InFrame, Declared, Footprint
<1>2. CASE x.length = 0
  <2>1. x.offset \in 1 .. n
    BY <1>2 DEF InFrame
  <2>2. Place(x) = (0 - 4 * x.offset) .. (0 - 4 * x.offset + 4 - 1)
    BY <1>1, <1>2 DEF Place, ArgSize
  <2>3. PICK o \in 1 .. n : o = x.offset
    BY <2>1
  <2>4. (0 - 4 * o) .. (0 - 4 * o + 4 - 1) \subseteq (0 - size) .. (0 - 1)
    BY DEF ArgSize
  <2>. QED
    BY <2>2, <2>3, <2>4
<1>3. CASE x.length # 0
  <2>1. x.offset <= size /\ 4 * n <= x.offset - Footprint(x)
    BY <1>1, <1>3 DEF InFrame, ArgSize
  <2>2. Place(x) = (0 - x.offset) .. (0 - x.offset + Footprint(x) - 1)
    BY <1>1, <1>3 DEF Place
  <2>3. PICK o \in Int, z \in Nat : o = x.offset /\ z = Footprint(x)
    BY <1>1
  <2>4. o <= size /\ 4 * n <= o - z
    BY <2>1, <2>3
  <2>. QED
    BY SMTT(60), <2>2, <2>3, <2>4
<1>. QED
  BY <1>2, <1>3

(* The arguments of a procedure. *)
ArgumentsOf(p, n) ==
  [stackneeded |-> n * Layout!ArgSize,
   init |-> [c \in 1 .. n * Layout!ArgSize |-> 0],
   var |-> [a \in 1 .. n |-> Layout!Variable(p, "NONE", 0, a, FALSE, FALSE)]]

LEMMA ArgumentsAreLaid ==
  ASSUME NEW p \in Nat \ {0}, NEW n \in Nat
  PROVE  FrameGood(ArgumentsOf(p, n), p, n)
<1>. DEFINE f == ArgumentsOf(p, n)
<1>1. /\ f.stackneeded = n * 4
      /\ f.init = [c \in 1 .. n * 4 |-> 0]
      /\ f.var = [a \in 1 .. n |-> Layout!Variable(p, "NONE", 0, a, FALSE, FALSE)]
      /\ f = [stackneeded |-> f.stackneeded, init |-> f.init, var |-> f.var]
  BY DEF ArgumentsOf, Layout!ArgSize
<1>. HIDE DEF f
<1>2. f.stackneeded \in Nat /\ ArgSize * n <= f.stackneeded
  BY <1>1 DEF ArgSize
<1>3. f.init \in [1 .. f.stackneeded -> Int]
  BY <1>1
<1>4. ASSUME NEW a \in 1 .. n
      PROVE  f.var[a] \in Declared /\ InFrame(f.var[a], p, n, f.stackneeded)
                 /\ Place(f.var[a]) = (0 - 4 * a) .. (0 - 4 * a + 4 - 1)
  <2>1. f.var[a] = [scope |-> p, type |-> "NONE", length |-> 0, offset |-> a,
                    read |-> FALSE, write |-> FALSE]
    BY <1>1 DEF Layout!Variable
  <2>2. f.var[a] \in Declared
    BY <2>1 DEF Declared
  <2>. QED
    BY <2>1, <2>2 DEF InFrame, Place, ArgSize
<1>5. f.var \in Seq(Declared) /\ Len(f.var) = n /\ DOMAIN f.var = 1 .. n
  <2>1. f.var \in [1 .. n -> Declared]
    BY <1>1, <1>4
  <2>. QED
    BY <2>1, SeqDef, LenProperties
<1>6. Apart(f.var)
  <2>1. SUFFICES ASSUME NEW i \in 1 .. n, NEW j \in 1 .. n, i # j
                 PROVE  Place(f.var[i]) \cap Place(f.var[j]) = {}
    BY <1>5 DEF Apart
  <2>2. ((0 - 4 * i) .. (0 - 4 * i + 4 - 1)) \cap ((0 - 4 * j) .. (0 - 4 * j + 4 - 1)) = {}
    <3>1. SUFFICES ASSUME NEW c \in Int,
                          0 - 4 * i <= c, c <= 0 - 4 * i + 4 - 1,
                          0 - 4 * j <= c, c <= 0 - 4 * j + 4 - 1
                   PROVE  FALSE
      OBVIOUS
    <3>2. CASE i < j
      BY <3>1, <3>2
    <3>3. CASE j < i
      BY <3>1, <3>3
    <3>. QED
      BY <2>1, <3>2, <3>3
  <2>3. /\ Place(f.var[i]) = (0 - 4 * i) .. (0 - 4 * i + 4 - 1)
        /\ Place(f.var[j]) = (0 - 4 * j) .. (0 - 4 * j + 4 - 1)
    BY <1>4
  <2>. QED
    BY <2>2, <2>3
<1>7. \A i \in 1 .. Len(f.var) : InFrame(f.var[i], p, n, f.stackneeded)
  BY <1>4, <1>5
<1>8. FrameGood(f, p, n)
  BY <1>1, <1>2, <1>3, <1>5, <1>6, <1>7 DEF FrameGood
<1>. QED
  BY <1>8 DEF f

(* One more variable at the end of a sequence of them: those that were     *)
(* apart stay so when the new one is apart from each of its scope.         *)
LEMMA OneMore ==
  ASSUME NEW vs \in Seq(Declared), Apart(vs), NEW x \in Declared,
         \A i \in 1 .. Len(vs) :
           ~x.read /\ ~x.write /\ ~vs[i].read /\ ~vs[i].write /\ vs[i].scope = x.scope
             => Place(vs[i]) \cap Place(x) = {}
  PROVE  Apart(Append(vs, x))
<1>. DEFINE ws == Append(vs, x)
            n  == Len(vs)
<1>1. /\ ws \in Seq(Declared) /\ Len(ws) = n + 1 /\ n \in Nat
      /\ ws[n + 1] = x /\ \A i \in 1 .. n : ws[i] = vs[i]
      /\ DOMAIN ws = 1 .. (n + 1) /\ DOMAIN vs = 1 .. n
  BY AppendProperties, LenProperties
<1>. HIDE DEF ws, n
<1>2. SUFFICES ASSUME NEW i \in 1 .. (n + 1), NEW j \in 1 .. (n + 1), i # j,
                      ~ws[i].read, ~ws[i].write, ~ws[j].read, ~ws[j].write,
                      ws[i].scope = ws[j].scope
               PROVE  Place(ws[i]) \cap Place(ws[j]) = {}
  BY <1>1 DEF Apart, ws
<1>3. CASE i \in 1 .. n /\ j \in 1 .. n
  BY <1>1, <1>2, <1>3 DEF Apart
<1>4. CASE i \in 1 .. n /\ j = n + 1
  BY <1>1, <1>2, <1>4 DEF n
<1>5. CASE j \in 1 .. n /\ i = n + 1
  <2>1. Place(vs[j]) \cap Place(x) = {}
    BY <1>1, <1>2, <1>5 DEF n
  <2>. QED
    BY <1>1, <1>5, <2>1
<1>. QED
  BY <1>1, <1>2, <1>3, <1>4, <1>5

LEMMA LocalIsLaid ==
  ASSUME NEW p \in Nat \ {0}, NEW n \in Nat, NEW f, FrameGood(f, p, n),
         NEW d \in Layout!Locals
  PROVE  FrameGood(Layout!NewLocal(p, f, d), p, n)
<1>1. d.type \in {"INT", "FLOAT"} /\ d.init \in Seq(Int) \ {<<>>}
  BY DEF Layout!Locals
<1>2. PICK size \in Nat \ {0} : size = CellsFor(d)
  BY <1>1, CellsAreNumbers
<1>3. PICK len \in Nat \ {0} : len = Len(d.init)
  BY <1>1, CellsAreNumbers
<1>4. PICK x : x = Layout!Variable(p, d.type, len, f.stackneeded + size, FALSE, FALSE)
  OBVIOUS
<1>5. PICK g : g = Layout!NewLocal(p, f, d)
  OBVIOUS
<1>6. g = [stackneeded |-> f.stackneeded + size, init |-> Layout!Cells(d) \o f.init,
           var |-> Append(f.var, x)]
  BY <1>2, <1>3, <1>4, <1>5 DEF FrameGood, Layout!NewLocal, CellsFor
<1>7. /\ f.stackneeded \in Nat /\ 4 * n <= f.stackneeded
      /\ f.init \in [1 .. f.stackneeded -> Int]
      /\ f.var \in Seq(Declared)
      /\ \A i \in 1 .. Len(f.var) : InFrame(f.var[i], p, n, f.stackneeded)
      /\ Apart(f.var)
  BY DEF FrameGood, ArgSize
<1>8. /\ x \in Declared /\ x.scope = p /\ ~x.read /\ ~x.write
      /\ x.length = len /\ x.offset = f.stackneeded + size /\ Footprint(x) = size
  <2>1. Footprint(x) = size
    BY <1>1, <1>2, <1>3, <1>4
       DEF Footprint, CellsFor, Layout!SizeOf, Layout!Variable
  <2>. QED
    BY <1>1, <1>3, <1>4, <1>7, <2>1 DEF Declared, Layout!Variable
<1>9. InFrame(x, p, n, f.stackneeded + size)
  BY <1>7, <1>8 DEF InFrame, ArgSize
<1>10. Place(x) = (0 - (f.stackneeded + size)) .. (0 - f.stackneeded - 1)
  BY <1>7, <1>8 DEF Place
<1>11. ASSUME NEW i \in 1 .. Len(f.var)
       PROVE  /\ InFrame(f.var[i], p, n, f.stackneeded + size)
              /\ Place(f.var[i]) \cap Place(x) = {}
  <2>1. InFrame(f.var[i], p, n, f.stackneeded)
    BY <1>7
  <2>2. Place(f.var[i]) \subseteq (0 - f.stackneeded) .. (0 - 1)
    BY <1>7, <2>1, PlacesInFrame DEF ArgSize
  <2>3. InFrame(f.var[i], p, n, f.stackneeded + size)
    <3>1. f.var[i].offset \in Int
      BY <2>1 DEF InFrame, Declared
    <3>. QED
      BY <1>7, <2>1, <3>1 DEF InFrame
  <2>. QED
    BY <1>7, <1>10, <2>2, <2>3
<1>12. Apart(g.var)
  BY <1>6, <1>7, <1>8, <1>11, OneMore
<1>13. g.var \in Seq(Declared) /\ \A i \in 1 .. Len(g.var) : InFrame(g.var[i], p, n, g.stackneeded)
  BY <1>6, <1>7, <1>8, <1>9, <1>11, AppendProperties
<1>14. g.init \in [1 .. g.stackneeded -> Int]
  <2>1. Layout!Cells(d) \in [1 .. size -> Int]
    BY <1>1, <1>2, CellsAreNumbers
  <2>2. Layout!Cells(d) \o f.init \in [1 .. size + f.stackneeded -> Int]
    BY <1>7, <2>1, Joined
  <2>. QED
    BY <1>6, <1>7, <2>2
<1>15. /\ g = [stackneeded |-> g.stackneeded, init |-> g.init, var |-> g.var]
       /\ g.stackneeded \in Nat /\ ArgSize * n <= g.stackneeded
  BY <1>6, <1>7 DEF ArgSize
<1>. QED
  BY <1>5, <1>12, <1>13, <1>14, <1>15 DEF FrameGood

(* The frame after each declaration is a function that is defined by       *)
(* recursion on the declarations before; there is one for every number.    *)
FramesOf(t, n, p, args, locals) ==
  [k \in 0 .. n |->
    IF k = 0
      THEN [stackneeded |-> args * Layout!ArgSize,
            init |-> [c \in 1 .. args * Layout!ArgSize |-> 0],
            var |-> [a \in 1 .. args |->
                       Layout!Variable(p, "NONE", 0, a, FALSE, FALSE)]]
      ELSE Layout!NewLocal(p, t[k - 1], locals[k])]

LEMMA FramesExist ==
  ASSUME NEW p, NEW args, NEW locals, NEW todo \in Nat
  PROVE  \E t : t = FramesOf(t, todo, p, args, locals)
<1>. DEFINE Frames(n, t) == t = FramesOf(t, n, p, args, locals)
            S == {n \in 0 .. todo : \E t : Frames(n, t)}
<1>1. 0 \in S
  <2>1. Frames(0, [k \in 0 .. 0 |-> ArgumentsOf(p, args)])
    BY DEF FramesOf, ArgumentsOf
  <2>. HIDE DEF Frames
  <2>2. \E t : Frames(0, t)
    BY <2>1
  <2>. QED
    BY <2>2
<1>2. ASSUME NEW n \in 0 .. (todo - 1), n \in S PROVE n + 1 \in S
  <2>1. PICK t : Frames(n, t)
    BY <1>2
  <2>2. PICK u : u = [k \in 0 .. (n + 1) |->
                       IF k = n + 1 THEN Layout!NewLocal(p, t[n], locals[n + 1])
                                    ELSE t[k]]
    OBVIOUS
  <2>3. ASSUME NEW k \in 0 .. (n + 1)
        PROVE  u[k] = IF k = 0 THEN ArgumentsOf(p, args)
                               ELSE Layout!NewLocal(p, u[k - 1], locals[k])
    <3>1. CASE k = n + 1
      <4>1. u[n] = t[n] /\ k - 1 = n /\ k # 0
        BY <2>2, <3>1
      <4>. QED
        BY <2>2, <3>1, <4>1
    <3>2. CASE k \in 0 .. n
      <4>1. u[k] = t[k] /\ (k # 0 => u[k - 1] = t[k - 1])
        BY <2>2, <3>2
      <4>2. t[k] = IF k = 0 THEN ArgumentsOf(p, args)
                            ELSE Layout!NewLocal(p, t[k - 1], locals[k])
        BY <2>1, <3>2 DEF FramesOf, ArgumentsOf
      <4>. QED
        BY <4>1, <4>2
    <3>. QED
      BY <3>1, <3>2
  <2>4. Frames(n + 1, u)
    BY <2>2, <2>3 DEF FramesOf, ArgumentsOf
  <2>5. n + 1 \in 0 .. todo
    OBVIOUS
  <2>. QED
    BY <2>4, <2>5
<1>3. 0 .. todo \subseteq S
  <2>. HIDE DEF S
  <2>. QED
    BY <1>1, <1>2, Inductive
<1>. QED
  BY <1>3

(* The frame after each declaration, up to the last one. *)
FrameTurns(t, p, args, locals) ==
  /\ t[0] = ArgumentsOf(p, args)
  /\ \A k \in 1 .. Len(locals) : t[k] = Layout!NewLocal(p, t[k - 1], locals[k])
  /\ Layout!FrameOf(p, args, locals) = t[Len(locals)]

LEMMA FrameInTurns ==
  ASSUME NEW p, NEW args, NEW locals, Len(locals) \in Nat
  PROVE  \E t : FrameTurns(t, p, args, locals)
<1>1. PICK n \in Nat : n = Len(locals)
  OBVIOUS
<1>2. PICK t : t = CHOOSE u : u = FramesOf(u, n, p, args, locals)
  OBVIOUS
<1>3. t = FramesOf(t, n, p, args, locals)
  BY <1>2, FramesExist
<1>4. Layout!FrameOf(p, args, locals) = t[n]
  BY <1>1, <1>2 DEF Layout!FrameOf, FramesOf
<1>5. t[0] = ArgumentsOf(p, args)
  <2>1. FramesOf(t, n, p, args, locals)[0] = ArgumentsOf(p, args)
    BY DEF FramesOf, ArgumentsOf
  <2>. QED
    BY <1>3, <2>1
<1>6. ASSUME NEW k \in 1 .. n PROVE t[k] = Layout!NewLocal(p, t[k - 1], locals[k])
  <2>1. k \in 0 .. n /\ k # 0
    OBVIOUS
  <2>2. FramesOf(t, n, p, args, locals)[k] = Layout!NewLocal(p, t[k - 1], locals[k])
    BY <2>1 DEF FramesOf
  <2>. QED
    BY <1>3, <2>2
<1>7. FrameTurns(t, p, args, locals)
  BY <1>1, <1>4, <1>5, <1>6 DEF FrameTurns
<1>. QED
  BY <1>7

LEMMA FrameIsLaid ==
  ASSUME NEW p \in Nat \ {0}, NEW args \in Nat, NEW locals \in Seq(Layout!Locals)
  PROVE  FrameGood(Layout!FrameOf(p, args, locals), p, args)
<1>1. PICK n \in Nat : n = Len(locals)
  BY LenProperties
<1>2. PICK t : /\ t[0] = ArgumentsOf(p, args)
               /\ \A k \in 1 .. n : t[k] = Layout!NewLocal(p, t[k - 1], locals[k])
               /\ Layout!FrameOf(p, args, locals) = t[n]
  <2>1. Len(locals) \in Nat
    BY LenProperties
  <2>2. \E t : FrameTurns(t, p, args, locals)
    BY <2>1, FrameInTurns
  <2>. QED
    BY <1>1, <2>2 DEF FrameTurns
<1>. DEFINE S == {k \in 0 .. n : FrameGood(t[k], p, args)}
<1>3. 0 \in S
  BY <1>2, ArgumentsAreLaid
<1>4. ASSUME NEW k \in 0 .. (n - 1), k \in S PROVE k + 1 \in S
  <2>1. k + 1 \in 1 .. n /\ (k + 1) - 1 = k
    OBVIOUS
  <2>2. t[k + 1] = Layout!NewLocal(p, t[k], locals[k + 1])
    BY <1>2, <2>1
  <2>3. locals[k + 1] \in Layout!Locals
    BY <1>1, <2>1, ElementOfSeq
  <2>4. FrameGood(t[k], p, args)
    BY <1>4
  <2>5. FrameGood(t[k + 1], p, args)
    BY <2>2, <2>3, <2>4, LocalIsLaid
  <2>. QED
    BY <2>1, <2>5
<1>5. 0 .. n \subseteq S
  <2>. HIDE DEF S
  <2>. QED
    BY <1>3, <1>4, Inductive
<1>6. n \in S
  BY <1>5
<1>. QED
  BY <1>2, <1>6

-----------------------------------------------------------------------------
(* Globals.                                                                *)

InInitialStack(x, size) ==
  /\ x \in Declared /\ x.scope = 0 /\ x.length > 0
  /\ x.read \/ x.write \/ (x.offset \in Nat /\ x.offset + Footprint(x) <= size)

GlobalsGood(g) ==
  /\ g = [initialstack |-> g.initialstack, init |-> g.init, var |-> g.var]
  /\ g.initialstack \in Nat
  /\ g.init \in [1 .. g.initialstack -> Int]
  /\ g.var \in Seq(Declared)
  /\ \A i \in 1 .. Len(g.var) : InInitialStack(g.var[i], g.initialstack)
  /\ Apart(g.var)

NoGlobals == [initialstack |-> 0, init |-> <<>>, var |-> <<>>]

LEMMA NoGlobalsAreLaid == GlobalsGood(NoGlobals)
<1>1. NoGlobals.init \in [1 .. 0 -> Int] /\ NoGlobals.initialstack = 0
      /\ NoGlobals.var = <<>>
  BY EmptySeq DEF NoGlobals
<1>2. NoGlobals.var \in Seq(Declared) /\ Len(NoGlobals.var) = 0 /\ DOMAIN NoGlobals.var = {}
  BY <1>1, EmptySeq
<1>3. Apart(NoGlobals.var)
  BY <1>2 DEF Apart
<1>4. NoGlobals = [initialstack |-> NoGlobals.initialstack, init |-> NoGlobals.init,
                   var |-> NoGlobals.var]
  BY DEF NoGlobals
<1>. QED
  BY <1>1, <1>2, <1>3, <1>4 DEF GlobalsGood

LEMMA CallbackIsLaid ==
  ASSUME NEW g, GlobalsGood(g), NEW d \in Layout!Callbacks
  PROVE  GlobalsGood(Layout!NewGlobal(g, d))
<1>1. PICK x : x = Layout!Variable(0, d.type, d.length, d.junk, d.read, d.write)
  OBVIOUS
<1>2. PICK h : h = Layout!NewGlobal(g, d)
  OBVIOUS
<1>3. d.read \/ d.write
  BY DEF Layout!Callbacks
<1>4. h = [initialstack |-> g.initialstack, init |-> g.init, var |-> Append(g.var, x)]
  BY <1>1, <1>2, <1>3 DEF GlobalsGood, Layout!NewGlobal
<1>5. x \in Declared /\ InInitialStack(x, g.initialstack) /\ (x.read \/ x.write)
  BY <1>1 DEF Layout!Callbacks, Layout!Variable, Declared, InInitialStack
<1>6. Apart(h.var)
  BY <1>4, <1>5, OneMore DEF GlobalsGood
<1>7. h.var \in Seq(Declared) /\ \A i \in 1 .. Len(h.var) : InInitialStack(h.var[i], h.initialstack)
  BY <1>4, <1>5, AppendProperties DEF GlobalsGood
<1>8. /\ h = [initialstack |-> h.initialstack, init |-> h.init, var |-> h.var]
      /\ h.initialstack \in Nat /\ h.init \in [1 .. h.initialstack -> Int]
  BY <1>4 DEF GlobalsGood
<1>. QED
  BY <1>2, <1>6, <1>7, <1>8 DEF GlobalsGood

LEMMA StaticIsLaid ==
  ASSUME NEW g, GlobalsGood(g), NEW d \in Layout!Statics
  PROVE  GlobalsGood(Layout!NewGlobal(g, d))
<1>1. d.type \in {"INT", "FLOAT"} /\ d.init \in Seq(Int) \ {<<>>} /\ ~d.read /\ ~d.write
  BY DEF Layout!Statics
<1>2. PICK size \in Nat \ {0} : size = CellsFor(d)
  BY <1>1, CellsAreNumbers
<1>3. PICK len \in Nat \ {0} : len = Len(d.init)
  BY <1>1, CellsAreNumbers
<1>4. PICK x : x = Layout!Variable(0, d.type, len, g.initialstack, FALSE, FALSE)
  OBVIOUS
<1>5. PICK h : h = Layout!NewGlobal(g, d)
  OBVIOUS
<1>6. h = [initialstack |-> g.initialstack + size, init |-> g.init \o Layout!Cells(d),
           var |-> Append(g.var, x)]
  BY <1>1, <1>2, <1>3, <1>4, <1>5 DEF GlobalsGood, Layout!NewGlobal, CellsFor
<1>7. /\ g.initialstack \in Nat
      /\ g.init \in [1 .. g.initialstack -> Int]
      /\ g.var \in Seq(Declared)
      /\ \A i \in 1 .. Len(g.var) : InInitialStack(g.var[i], g.initialstack)
      /\ Apart(g.var)
  BY DEF GlobalsGood
<1>8. /\ x \in Declared /\ x.scope = 0 /\ ~x.read /\ ~x.write
      /\ x.length = len /\ x.offset = g.initialstack /\ Footprint(x) = size
  <2>1. Footprint(x) = size
    BY <1>1, <1>2, <1>3, <1>4
       DEF Footprint, CellsFor, Layout!SizeOf, Layout!Variable
  <2>. QED
    BY <1>1, <1>3, <1>4, <1>7, <2>1 DEF Declared, Layout!Variable
<1>9. InInitialStack(x, g.initialstack + size)
  BY <1>7, <1>8 DEF InInitialStack
<1>10. Place(x) = g.initialstack .. (g.initialstack + size - 1)
  BY <1>7, <1>8 DEF Place
<1>11. ASSUME NEW i \in 1 .. Len(g.var)
       PROVE  /\ InInitialStack(g.var[i], g.initialstack + size)
              /\ ~g.var[i].read /\ ~g.var[i].write => Place(g.var[i]) \cap Place(x) = {}
  <2>1. InInitialStack(g.var[i], g.initialstack)
    BY <1>7
  <2>2. /\ g.var[i].offset \in Int /\ g.var[i].length \in Nat /\ Footprint(g.var[i]) \in Nat
    BY <2>1 DEF InInitialStack, Declared, Footprint
  <2>3. InInitialStack(g.var[i], g.initialstack + size)
    BY <1>7, <2>1, <2>2 DEF InInitialStack
  <2>4. ASSUME ~g.var[i].read, ~g.var[i].write
        PROVE  Place(g.var[i]) \cap Place(x) = {}
    <3>1. Place(g.var[i]) = g.var[i].offset .. (g.var[i].offset + Footprint(g.var[i]) - 1)
      BY <2>1, <2>2 DEF InInitialStack, Place
    <3>2. g.var[i].offset + Footprint(g.var[i]) <= g.initialstack
      BY <2>1, <2>4 DEF InInitialStack
    <3>. QED
      BY <1>7, <1>10, <2>2, <3>1, <3>2
  <2>. QED
    BY <2>3, <2>4
<1>12. Apart(h.var)
  BY <1>6, <1>7, <1>8, <1>11, OneMore
<1>13. h.var \in Seq(Declared) /\ \A i \in 1 .. Len(h.var) : InInitialStack(h.var[i], h.initialstack)
  BY <1>6, <1>7, <1>8, <1>9, <1>11, AppendProperties
<1>14. h.init \in [1 .. h.initialstack -> Int]
  <2>1. Layout!Cells(d) \in [1 .. size -> Int]
    BY <1>1, <1>2, CellsAreNumbers
  <2>2. g.init \o Layout!Cells(d) \in [1 .. g.initialstack + size -> Int]
    BY <1>7, <2>1, Joined
  <2>. QED
    BY <1>6, <1>7, <2>2
<1>15. /\ h = [initialstack |-> h.initialstack, init |-> h.init, var |-> h.var]
       /\ h.initialstack \in Nat
  BY <1>6, <1>7
<1>. QED
  BY <1>5, <1>12, <1>13, <1>14, <1>15 DEF GlobalsGood

(* The globals after each declaration, as for frames. *)
GlobalsOf(t, n, decls) ==
  [k \in 0 .. n |-> IF k = 0 THEN [initialstack |-> 0, init |-> <<>>, var |-> <<>>]
                            ELSE Layout!NewGlobal(t[k - 1], decls[k])]

LEMMA GlobalsExist ==
  ASSUME NEW decls, NEW todo \in Nat
  PROVE  \E t : t = GlobalsOf(t, todo, decls)
<1>. DEFINE Turns(n, t) == t = GlobalsOf(t, n, decls)
            S == {n \in 0 .. todo : \E t : Turns(n, t)}
<1>1. 0 \in S
  <2>1. Turns(0, [k \in 0 .. 0 |-> NoGlobals])
    BY DEF GlobalsOf, NoGlobals
  <2>. HIDE DEF Turns
  <2>2. \E t : Turns(0, t)
    BY <2>1
  <2>. QED
    BY <2>2
<1>2. ASSUME NEW n \in 0 .. (todo - 1), n \in S PROVE n + 1 \in S
  <2>1. PICK t : Turns(n, t)
    BY <1>2
  <2>2. PICK u : u = [k \in 0 .. (n + 1) |->
                       IF k = n + 1 THEN Layout!NewGlobal(t[n], decls[n + 1]) ELSE t[k]]
    OBVIOUS
  <2>3. ASSUME NEW k \in 0 .. (n + 1)
        PROVE  u[k] = IF k = 0 THEN NoGlobals ELSE Layout!NewGlobal(u[k - 1], decls[k])
    <3>1. CASE k = n + 1
      <4>1. u[n] = t[n] /\ k - 1 = n /\ k # 0
        BY <2>2, <3>1
      <4>. QED
        BY <2>2, <3>1, <4>1
    <3>2. CASE k \in 0 .. n
      <4>1. u[k] = t[k] /\ (k # 0 => u[k - 1] = t[k - 1])
        BY <2>2, <3>2
      <4>2. t[k] = IF k = 0 THEN NoGlobals ELSE Layout!NewGlobal(t[k - 1], decls[k])
        BY <2>1, <3>2 DEF GlobalsOf, NoGlobals
      <4>. QED
        BY <4>1, <4>2
    <3>. QED
      BY <3>1, <3>2
  <2>4. Turns(n + 1, u)
    BY <2>2, <2>3 DEF GlobalsOf, NoGlobals
  <2>5. n + 1 \in 0 .. todo
    OBVIOUS
  <2>. QED
    BY <2>4, <2>5
<1>3. 0 .. todo \subseteq S
  <2>. HIDE DEF S
  <2>. QED
    BY <1>1, <1>2, Inductive
<1>. QED
  BY <1>3

LEMMA GlobalsInTurns ==
  ASSUME NEW decls, Len(decls) \in Nat
  PROVE  \E t : /\ t[0] = NoGlobals
                /\ \A k \in 1 .. Len(decls) : t[k] = Layout!NewGlobal(t[k - 1], decls[k])
                /\ Layout!Globals(decls) = t[Len(decls)]
<1>1. PICK n \in Nat : n = Len(decls)
  OBVIOUS
<1>2. PICK t : t = CHOOSE u : u = GlobalsOf(u, n, decls)
  OBVIOUS
<1>3. t = GlobalsOf(t, n, decls)
  BY <1>2, GlobalsExist
<1>4. Layout!Globals(decls) = t[n]
  BY <1>1, <1>2 DEF Layout!Globals, GlobalsOf
<1>5. t[0] = NoGlobals
  <2>1. GlobalsOf(t, n, decls)[0] = NoGlobals
    BY DEF GlobalsOf, NoGlobals
  <2>. QED
    BY <1>3, <2>1
<1>6. ASSUME NEW k \in 1 .. n PROVE t[k] = Layout!NewGlobal(t[k - 1], decls[k])
  <2>1. k \in 0 .. n /\ k # 0
    OBVIOUS
  <2>2. GlobalsOf(t, n, decls)[k] = Layout!NewGlobal(t[k - 1], decls[k])
    BY <2>1 DEF GlobalsOf
  <2>. QED
    BY <1>3, <2>2
<1>7. /\ t[0] = NoGlobals
      /\ \A k \in 1 .. Len(decls) : t[k] = Layout!NewGlobal(t[k - 1], decls[k])
      /\ Layout!Globals(decls) = t[Len(decls)]
  BY <1>1, <1>4, <1>5, <1>6
<1>. QED
  BY <1>7

LEMMA GlobalsAreLaid ==
  ASSUME NEW decls \in Seq(Layout!Statics \cup Layout!Callbacks)
  PROVE  GlobalsGood(Layout!Globals(decls))
<1>1. PICK n \in Nat : n = Len(decls)
  BY LenProperties
<1>2. PICK t : /\ t[0] = NoGlobals
               /\ \A k \in 1 .. n : t[k] = Layout!NewGlobal(t[k - 1], decls[k])
               /\ Layout!Globals(decls) = t[n]
  BY <1>1, GlobalsInTurns
<1>. DEFINE S == {k \in 0 .. n : GlobalsGood(t[k])}
<1>3. 0 \in S
  BY <1>2, NoGlobalsAreLaid
<1>4. ASSUME NEW k \in 0 .. (n - 1), k \in S PROVE k + 1 \in S
  <2>1. k + 1 \in 1 .. n /\ (k + 1) - 1 = k
    OBVIOUS
  <2>2. t[k + 1] = Layout!NewGlobal(t[k], decls[k + 1])
    BY <1>2, <2>1
  <2>3. decls[k + 1] \in Layout!Statics \/ decls[k + 1] \in Layout!Callbacks
    BY <1>1, <2>1, ElementOfSeq
  <2>4. GlobalsGood(t[k])
    BY <1>4
  <2>5. GlobalsGood(t[k + 1])
    BY <2>2, <2>3, <2>4, StaticIsLaid, CallbackIsLaid
  <2>. QED
    BY <2>1, <2>5
<1>5. 0 .. n \subseteq S
  <2>. HIDE DEF S
  <2>. QED
    BY <1>3, <1>4, Inductive
<1>6. n \in S
  BY <1>5
<1>. QED
  BY <1>2, <1>6

-----------------------------------------------------------------------------
(* Programs.                                                               *)

(* What procedure p of a program is, but for what its code refers to. *)
Framed(q, p) ==
  LET x == q.proc[p]
  IN /\ x.args \in Nat /\ x.stackneeded \in Nat /\ ArgSize * x.args <= x.stackneeded
     /\ x.init \in [1 .. x.stackneeded -> Int]
     /\ x.instruction \in Nat \ {0} /\ x.last \in Nat
     /\ x.instruction <= x.last /\ x.last <= Len(q.inst)
     /\ \A i \in x.instruction .. x.last : q.inst[i].op = "ret" <=> i = x.last

ProcedureRecords ==
  UNION {[args : Nat, instruction : Nat, last : Nat, stackneeded : Nat,
          init : [1 .. size -> Int]] : size \in Nat}

ProgramGood(q, k, instructions) ==
  /\ q = [var |-> q.var, proc |-> q.proc, inst |-> q.inst,
          initialstack |-> q.initialstack, init |-> q.init,
          stacksize |-> q.stacksize, callstacksize |-> q.callstacksize]
  /\ q.initialstack \in Nat /\ q.stacksize \in Nat /\ q.callstacksize \in Nat \ {0}
  /\ q.init \in [1 .. q.initialstack -> Int]
  /\ q.var \in Seq(Declared)
  /\ \A i \in 1 .. Len(q.var) : q.var[i].scope \in 0 .. k /\ Laid(q, q.var[i])
  /\ Apart(q.var)
  /\ q.proc \in Seq(ProcedureRecords) /\ Len(q.proc) = k
  /\ q.inst \in Seq(instructions)
  /\ \A p \in 1 .. k : Framed(q, p)
  /\ \A i \in 1 .. Len(q.inst) :
       \E p \in 1 .. k : i \in q.proc[p].instruction .. q.proc[p].last

(* Two sequences of variables of different scopes, one behind the other. *)
LEMMA Together ==
  ASSUME NEW vs \in Seq(Declared), NEW ws \in Seq(Declared), Apart(vs), Apart(ws),
         \A i \in 1 .. Len(vs), j \in 1 .. Len(ws) : vs[i].scope # ws[j].scope
  PROVE  Apart(vs \o ws)
<1>1. PICK m \in Nat, n \in Nat : m = Len(vs) /\ n = Len(ws)
  BY LenProperties
<1>2. PICK us : us = vs \o ws
  OBVIOUS
<1>3. /\ us \in Seq(Declared) /\ Len(us) = m + n
      /\ \A i \in 1 .. (m + n) : us[i] = IF i <= m THEN vs[i] ELSE ws[i - m]
  BY <1>1, <1>2, ConcatProperties
<1>4. DOMAIN us = 1 .. (m + n) /\ DOMAIN vs = 1 .. m /\ DOMAIN ws = 1 .. n
  BY <1>1, <1>3, LenProperties
<1>5. SUFFICES ASSUME NEW i \in 1 .. (m + n), NEW j \in 1 .. (m + n), i # j,
                      ~us[i].read, ~us[i].write, ~us[j].read, ~us[j].write,
                      us[i].scope = us[j].scope
               PROVE  Place(us[i]) \cap Place(us[j]) = {}
  BY <1>2, <1>4 DEF Apart
<1>6. CASE i <= m /\ j <= m
  <2>1. i \in 1 .. m /\ j \in 1 .. m /\ us[i] = vs[i] /\ us[j] = vs[j]
    BY <1>3, <1>6
  <2>. QED
    BY <1>4, <1>5, <2>1 DEF Apart
<1>7. CASE i > m /\ j > m
  <2>1. /\ i - m \in 1 .. n /\ j - m \in 1 .. n /\ i - m # j - m
        /\ us[i] = ws[i - m] /\ us[j] = ws[j - m]
    BY <1>3, <1>5, <1>7
  <2>. QED
    BY <1>4, <1>5, <2>1 DEF Apart
<1>8. CASE i <= m /\ j > m
  <2>1. i \in 1 .. m /\ j - m \in 1 .. n /\ us[i] = vs[i] /\ us[j] = ws[j - m]
    BY <1>3, <1>8
  <2>. QED
    BY <1>1, <1>5, <2>1
<1>9. CASE i > m /\ j <= m
  <2>1. j \in 1 .. m /\ i - m \in 1 .. n /\ us[j] = vs[j] /\ us[i] = ws[i - m]
    BY <1>3, <1>9
  <2>. QED
    BY <1>1, <1>5, <2>1
<1>. QED
  BY <1>6, <1>7, <1>8, <1>9

(* One sequence behind another. *)
LEMMA Behind ==
  ASSUME NEW S, NEW s \in Seq(S), NEW t \in Seq(S), NEW u, u = s \o t
  PROVE  /\ Len(s) \in Nat /\ Len(t) \in Nat
         /\ u \in Seq(S) /\ Len(u) = Len(s) + Len(t)
         /\ \A i \in 1 .. Len(s) : u[i] = s[i]
         /\ \A i \in 1 .. Len(t) : u[Len(s) + i] = t[i]
         /\ \A i \in 1 .. Len(u) :
              i \in 1 .. Len(s) \/ (i - Len(s) \in 1 .. Len(t) /\ u[i] = t[i - Len(s)])
  BY ConcatProperties, LenProperties

(* Before its procedures. *)
Bare(globals, stack, callstack) ==
  [var |-> Layout!Globals(globals).var, proc |-> <<>>, inst |-> <<>>,
   initialstack |-> Layout!Globals(globals).initialstack,
   init |-> Layout!Globals(globals).init,
   stacksize |-> Layout!Globals(globals).initialstack + stack,
   callstacksize |-> callstack]

LEMMA BareIsLaid ==
  ASSUME NEW instructions, NEW globals \in Seq(Layout!Statics \cup Layout!Callbacks),
         NEW stack \in Nat, NEW callstack \in Nat \ {0}
  PROVE  ProgramGood(Bare(globals, stack, callstack), 0, instructions)
<1>1. PICK g : g = Layout!Globals(globals)
  OBVIOUS
<1>2. GlobalsGood(g)
  BY <1>1, GlobalsAreLaid
<1>3. PICK q : q = Bare(globals, stack, callstack)
  OBVIOUS
<1>4. q = [var |-> g.var, proc |-> <<>>, inst |-> <<>>, initialstack |-> g.initialstack,
           init |-> g.init, stacksize |-> g.initialstack + stack,
           callstacksize |-> callstack]
  BY <1>1, <1>3 DEF Bare
<1>5. /\ q.var = g.var /\ q.proc = <<>> /\ q.inst = <<>>
      /\ q.initialstack = g.initialstack /\ q.init = g.init
      /\ q.stacksize = g.initialstack + stack /\ q.callstacksize = callstack
  BY <1>4
<1>6. ASSUME NEW i \in 1 .. Len(q.var)
      PROVE  q.var[i].scope \in 0 .. 0 /\ Laid(q, q.var[i])
  <2>1. InInitialStack(q.var[i], q.initialstack)
    BY <1>2, <1>5 DEF GlobalsGood
  <2>. QED
    BY <2>1 DEF InInitialStack, Laid, Declared
<1>7. q.proc \in Seq(ProcedureRecords) /\ Len(q.proc) = 0
  BY <1>5, EmptySeq
<1>8. q.inst \in Seq(instructions) /\ Len(q.inst) = 0
  BY <1>5, EmptySeq
<1>9. ProgramGood(q, 0, instructions)
  BY <1>2, <1>4, <1>5, <1>6, <1>7, <1>8 DEF ProgramGood, GlobalsGood
<1>. QED
  BY <1>3, <1>9

LEMMA ProcedureIsLaid ==
  ASSUME NEW instructions, NEW q, NEW k \in Nat, ProgramGood(q, k, instructions),
         NEW d \in Layout!ProceduresOf(instructions)
  PROVE  ProgramGood(Layout!NewProcedure(q, k + 1, d), k + 1, instructions)
<1>1. /\ d.args \in Nat /\ d.locals \in Seq(Layout!Locals)
      /\ d.code \in Seq(instructions) /\ d.code # <<>>
      /\ \A i \in DOMAIN d.code : d.code[i].op = "ret" <=> i = Len(d.code)
  BY DEF Layout!ProceduresOf
<1>2. PICK f : f = Layout!FrameOf(k + 1, d.args, d.locals)
  OBVIOUS
<1>3. FrameGood(f, k + 1, d.args)
  BY <1>1, <1>2, FrameIsLaid
<1>4. PICK m \in Nat, n \in Nat \ {0} : m = Len(q.inst) /\ n = Len(d.code)
  <2>1. Len(q.inst) \in Nat
    BY LenProperties DEF ProgramGood
  <2>2. Len(d.code) \in Nat \ {0}
    BY <1>1, LenProperties, EmptySeq
  <2>. QED
    BY <2>1, <2>2
<1>5. PICK x : x = [args |-> d.args, instruction |-> m + 1, last |-> m + n,
                    stackneeded |-> f.stackneeded, init |-> f.init]
  OBVIOUS
<1>6. PICK r : r = Layout!NewProcedure(q, k + 1, d)
  OBVIOUS
<1>7. r = [var |-> q.var \o f.var, proc |-> Append(q.proc, x), inst |-> q.inst \o d.code,
           initialstack |-> q.initialstack, init |-> q.init,
           stacksize |-> q.stacksize + f.stackneeded,
           callstacksize |-> q.callstacksize]
  <2>1. q = [var |-> q.var, proc |-> q.proc, inst |-> q.inst,
             initialstack |-> q.initialstack, init |-> q.init,
             stacksize |-> q.stacksize, callstacksize |-> q.callstacksize]
    BY DEF ProgramGood
  <2>. QED
    BY <1>2, <1>4, <1>5, <1>6, <2>1 DEF Layout!NewProcedure
<1>8. /\ r.var = q.var \o f.var /\ r.proc = Append(q.proc, x)
      /\ r.inst = q.inst \o d.code
      /\ r.initialstack = q.initialstack /\ r.init = q.init
      /\ r.stacksize = q.stacksize + f.stackneeded
      /\ r.callstacksize = q.callstacksize
      /\ r = [var |-> r.var, proc |-> r.proc, inst |-> r.inst,
              initialstack |-> r.initialstack, init |-> r.init,
              stacksize |-> r.stacksize, callstacksize |-> r.callstacksize]
  BY <1>7
<1>9. /\ x \in ProcedureRecords /\ x.args = d.args /\ x.instruction = m + 1
      /\ x.last = m + n /\ x.stackneeded = f.stackneeded /\ x.init = f.init
  <2>1. x \in [args : Nat, instruction : Nat, last : Nat, stackneeded : Nat,
               init : [1 .. f.stackneeded -> Int]]
    BY <1>1, <1>3, <1>5 DEF FrameGood
  <2>2. f.stackneeded \in Nat
    BY <1>3 DEF FrameGood
  <2>. QED
    BY <1>5, <2>1, <2>2 DEF ProcedureRecords
<1>10. /\ r.proc \in Seq(ProcedureRecords) /\ Len(r.proc) = k + 1
       /\ r.proc[k + 1] = x /\ \A p \in 1 .. k : r.proc[p] = q.proc[p]
       /\ DOMAIN r.proc = 1 .. (k + 1) /\ DOMAIN q.proc = 1 .. k
  BY <1>8, <1>9, AppendProperties, LenProperties DEF ProgramGood
<1>11. /\ r.inst \in Seq(instructions) /\ Len(r.inst) = m + n
       /\ \A i \in 1 .. m : r.inst[i] = q.inst[i]
       /\ \A i \in 1 .. n : r.inst[m + i] = d.code[i]
  <2>1. q.inst \in Seq(instructions)
    BY DEF ProgramGood
  <2>2. PICK b, c, e : b = q.inst /\ c = d.code /\ e = r.inst
    OBVIOUS
  <2>3. b \in Seq(instructions) /\ c \in Seq(instructions) /\ e = b \o c
    BY <1>1, <1>8, <2>1, <2>2
  <2>4. /\ e \in Seq(instructions) /\ Len(e) = Len(b) + Len(c)
        /\ \A i \in 1 .. Len(b) : e[i] = b[i]
        /\ \A i \in 1 .. Len(c) : e[Len(b) + i] = c[i]
    BY <2>3, Behind
  <2>. QED
    BY <1>4, <2>2, <2>4
<1>12. ASSUME NEW p \in 1 .. (k + 1) PROVE Framed(r, p)
  <2>1. CASE p = k + 1
    <3>1. r.proc[p] = x
      BY <1>10, <2>1
    <3>2. ASSUME NEW i \in (m + 1) .. (m + n)
          PROVE  r.inst[i].op = "ret" <=> i = m + n
      <4>1. r.inst[i] = d.code[i - m] /\ i - m \in 1 .. n
        <5>1. i - m \in 1 .. n /\ m + (i - m) = i
          OBVIOUS
        <5>. QED
          BY <1>11, <5>1
      <4>2. i - m \in DOMAIN d.code
        BY <1>1, <1>4, <4>1, LenProperties
      <4>3. d.code[i - m].op = "ret" <=> i - m = n
        BY <1>1, <1>4, <4>2
      <4>. QED
        BY <4>1, <4>3
    <3>3. m + 1 \in Nat \ {0} /\ m + n \in Nat /\ m + 1 <= m + n
      OBVIOUS
    <3>4. /\ x.args \in Nat /\ x.stackneeded \in Nat /\ ArgSize * x.args <= x.stackneeded
          /\ x.init \in [1 .. x.stackneeded -> Int]
      BY <1>1, <1>3, <1>9 DEF FrameGood
    <3>5. /\ x.instruction \in Nat \ {0} /\ x.last \in Nat
          /\ x.instruction <= x.last /\ x.last <= Len(r.inst)
      BY <1>9, <1>11, <3>3
    <3>6. \A i \in x.instruction .. x.last : r.inst[i].op = "ret" <=> i = x.last
      BY <1>9, <3>2
    <3>. QED
      BY <3>1, <3>4, <3>5, <3>6 DEF Framed
  <2>2. CASE p \in 1 .. k
    <3>1. r.proc[p] = q.proc[p] /\ Framed(q, p)
      BY <1>10, <2>2 DEF ProgramGood
    <3>2. PICK a \in Nat \ {0}, b \in Nat :
            a = q.proc[p].instruction /\ b = q.proc[p].last /\ a <= b /\ b <= m
      BY <1>4, <3>1 DEF Framed
    <3>3. ASSUME NEW i \in a .. b PROVE r.inst[i] = q.inst[i]
      <4>1. i \in 1 .. m
        BY <3>2
      <4>. QED
        BY <1>11, <4>1
    <3>4. b <= Len(r.inst)
      BY <1>11, <3>2
    <3>. QED
      BY <3>1, <3>2, <3>3, <3>4 DEF Framed
  <2>. QED
    BY <2>1, <2>2
<1>13. ASSUME NEW i \in 1 .. Len(r.inst)
       PROVE  \E p \in 1 .. (k + 1) : i \in r.proc[p].instruction .. r.proc[p].last
  <2>1. CASE i <= m
    <3>1. PICK p \in 1 .. k : i \in q.proc[p].instruction .. q.proc[p].last
      BY <1>4, <1>11, <2>1 DEF ProgramGood
    <3>2. p \in 1 .. (k + 1) /\ r.proc[p] = q.proc[p]
      BY <1>10, <3>1
    <3>3. i \in r.proc[p].instruction .. r.proc[p].last
      BY <3>1, <3>2
    <3>. QED
      BY <3>2, <3>3
  <2>2. CASE i > m
    <3>1. i \in x.instruction .. x.last
      BY <1>9, <1>11, <2>2
    <3>2. k + 1 \in 1 .. (k + 1)
      OBVIOUS
    <3>. QED
      BY <1>10, <3>1, <3>2
  <2>. QED
    BY <1>11, <2>1, <2>2
<1>14. /\ q.var \in Seq(Declared) /\ f.var \in Seq(Declared)
       /\ Apart(q.var) /\ Apart(f.var)
       /\ \A i \in 1 .. Len(q.var) : q.var[i].scope \in 0 .. k /\ Laid(q, q.var[i])
       /\ \A i \in 1 .. Len(f.var) : InFrame(f.var[i], k + 1, d.args, f.stackneeded)
  BY <1>3 DEF ProgramGood, FrameGood
<1>15. Apart(r.var)
  <2>1. ASSUME NEW i \in 1 .. Len(q.var), NEW j \in 1 .. Len(f.var)
        PROVE  q.var[i].scope # f.var[j].scope
    BY <1>14 DEF InFrame
  <2>. QED
    BY <1>8, <1>14, <2>1, Together
<1>16. /\ r.var \in Seq(Declared)
       /\ \A i \in 1 .. Len(r.var) :
            \/ i \in 1 .. Len(q.var) /\ r.var[i] = q.var[i]
            \/ i - Len(q.var) \in 1 .. Len(f.var) /\ r.var[i] = f.var[i - Len(q.var)]
  <2>1. PICK b, c, v : b = q.var /\ c = f.var /\ v = r.var
    OBVIOUS
  <2>2. b \in Seq(Declared) /\ c \in Seq(Declared) /\ v = b \o c
    BY <1>8, <1>14, <2>1
  <2>3. /\ v \in Seq(Declared)
        /\ \A i \in 1 .. Len(b) : v[i] = b[i]
        /\ \A i \in 1 .. Len(v) :
             i \in 1 .. Len(b) \/ (i - Len(b) \in 1 .. Len(c) /\ v[i] = c[i - Len(b)])
    BY <2>2, Behind
  <2>. QED
    BY <2>1, <2>3
<1>17. ASSUME NEW y, y.scope \in 0 .. k, Laid(q, y)
       PROVE  y.scope \in 0 .. (k + 1) /\ Laid(r, y)
  <2>1. y.scope # 0 => y.scope \in 1 .. k
    BY <1>17
  <2>2. y.scope \in DOMAIN q.proc => r.proc[y.scope] = q.proc[y.scope] /\ y.scope \in DOMAIN r.proc
    BY <1>10, <2>1
  <2>. QED
    BY <1>8, <1>17, <2>2 DEF Laid
<1>18. ASSUME NEW y, InFrame(y, k + 1, d.args, f.stackneeded)
       PROVE  y.scope \in 0 .. (k + 1) /\ Laid(r, y)
  <2>1. y.scope = k + 1 /\ y.scope \in DOMAIN r.proc /\ r.proc[y.scope] = x
    BY <1>10, <1>18 DEF InFrame
  <2>2. y.length = 0 => y.type # "FLOAT" /\ y.offset \in 1 .. d.args
    <3>1. y.length \in Nat
      BY <1>18 DEF InFrame, Declared
    <3>. QED
      BY <1>18, <3>1 DEF InFrame
  <2>3. /\ y.length \in Nat /\ y.offset \in Int /\ {y.read, y.write} \subseteq BOOLEAN
        /\ ~y.read /\ ~y.write
    BY <1>18 DEF InFrame, Declared
  <2>4. y.length # 0 => /\ y.length > 0 /\ y.offset <= x.stackneeded
                        /\ ArgSize * x.args <= y.offset - Footprint(y)
    BY <1>9, <1>18, <2>3 DEF InFrame
  <2>. QED
    BY <1>9, <2>1, <2>2, <2>3, <2>4 DEF Laid
<1>19. ASSUME NEW i \in 1 .. Len(r.var)
       PROVE  r.var[i].scope \in 0 .. (k + 1) /\ Laid(r, r.var[i])
  BY <1>14, <1>16, <1>17, <1>18
<1>20. /\ r.initialstack \in Nat /\ r.stacksize \in Nat /\ r.callstacksize \in Nat \ {0}
       /\ r.init \in [1 .. r.initialstack -> Int]
  BY SMTT(60), <1>3, <1>8 DEF ProgramGood, FrameGood
<1>21. ProgramGood(r, k + 1, instructions)
  BY <1>8, <1>10, <1>11, <1>12, <1>13, <1>15, <1>16, <1>19, <1>20 DEF ProgramGood
<1>. QED
  BY <1>6, <1>21

(* The program after each procedure, as for frames. *)
ProgramsOf(t, n, globals, procs, stack, callstack) ==
  [p \in 0 .. n |->
    IF p = 0
      THEN [var |-> Layout!Globals(globals).var, proc |-> <<>>, inst |-> <<>>,
            initialstack |-> Layout!Globals(globals).initialstack,
            init |-> Layout!Globals(globals).init,
            stacksize |-> Layout!Globals(globals).initialstack + stack,
            callstacksize |-> callstack]
      ELSE Layout!NewProcedure(t[p - 1], p, procs[p])]

LEMMA ProgramsExist ==
  ASSUME NEW globals, NEW procs, NEW stack, NEW callstack, NEW todo \in Nat
  PROVE  \E t : t = ProgramsOf(t, todo, globals, procs, stack, callstack)
<1>. DEFINE Turns(n, t) == t = ProgramsOf(t, n, globals, procs, stack, callstack)
            S == {n \in 0 .. todo : \E t : Turns(n, t)}
<1>1. 0 \in S
  <2>1. Turns(0, [k \in 0 .. 0 |-> Bare(globals, stack, callstack)])
    BY DEF ProgramsOf, Bare
  <2>. HIDE DEF Turns
  <2>2. \E t : Turns(0, t)
    BY <2>1
  <2>. QED
    BY <2>2
<1>2. ASSUME NEW n \in 0 .. (todo - 1), n \in S PROVE n + 1 \in S
  <2>1. PICK t : Turns(n, t)
    BY <1>2
  <2>2. PICK u : u = [k \in 0 .. (n + 1) |->
                       IF k = n + 1 THEN Layout!NewProcedure(t[n], n + 1, procs[n + 1])
                                    ELSE t[k]]
    OBVIOUS
  <2>3. ASSUME NEW k \in 0 .. (n + 1)
        PROVE  u[k] = IF k = 0 THEN Bare(globals, stack, callstack)
                               ELSE Layout!NewProcedure(u[k - 1], k, procs[k])
    <3>1. CASE k = n + 1
      <4>1. u[n] = t[n] /\ k - 1 = n /\ k # 0
        BY <2>2, <3>1
      <4>. QED
        BY <2>2, <3>1, <4>1
    <3>2. CASE k \in 0 .. n
      <4>1. u[k] = t[k] /\ (k # 0 => u[k - 1] = t[k - 1])
        BY <2>2, <3>2
      <4>2. t[k] = IF k = 0 THEN Bare(globals, stack, callstack)
                            ELSE Layout!NewProcedure(t[k - 1], k, procs[k])
        BY <2>1, <3>2 DEF ProgramsOf, Bare
      <4>. QED
        BY <4>1, <4>2
    <3>. QED
      BY <3>1, <3>2
  <2>4. Turns(n + 1, u)
    BY <2>2, <2>3 DEF ProgramsOf, Bare
  <2>5. n + 1 \in 0 .. todo
    OBVIOUS
  <2>. QED
    BY <2>4, <2>5
<1>3. 0 .. todo \subseteq S
  <2>. HIDE DEF S
  <2>. QED
    BY <1>1, <1>2, Inductive
<1>. QED
  BY <1>3

LEMMA LoadedInTurns ==
  ASSUME NEW globals, NEW procs, NEW stack, NEW callstack, Len(procs) \in Nat
  PROVE  \E t : /\ t[0] = Bare(globals, stack, callstack)
                /\ \A k \in 1 .. Len(procs) :
                     t[k] = Layout!NewProcedure(t[k - 1], k, procs[k])
                /\ Layout!Load(globals, procs, stack, callstack) = t[Len(procs)]
<1>1. PICK n \in Nat : n = Len(procs)
  OBVIOUS
<1>2. PICK t : t = CHOOSE u : u = ProgramsOf(u, n, globals, procs, stack, callstack)
  OBVIOUS
<1>3. t = ProgramsOf(t, n, globals, procs, stack, callstack)
  BY <1>2, ProgramsExist
<1>4. Layout!Load(globals, procs, stack, callstack) = t[n]
  BY <1>1, <1>2 DEF Layout!Load, ProgramsOf
<1>5. t[0] = Bare(globals, stack, callstack)
  <2>1. ProgramsOf(t, n, globals, procs, stack, callstack)[0]
          = Bare(globals, stack, callstack)
    BY DEF ProgramsOf, Bare
  <2>. QED
    BY <1>3, <2>1
<1>6. ASSUME NEW k \in 1 .. n
      PROVE  t[k] = Layout!NewProcedure(t[k - 1], k, procs[k])
  <2>1. k \in 0 .. n /\ k # 0
    OBVIOUS
  <2>2. ProgramsOf(t, n, globals, procs, stack, callstack)[k]
          = Layout!NewProcedure(t[k - 1], k, procs[k])
    BY <2>1 DEF ProgramsOf
  <2>. QED
    BY <1>3, <2>2
<1>7. /\ t[0] = Bare(globals, stack, callstack)
      /\ \A k \in 1 .. Len(procs) : t[k] = Layout!NewProcedure(t[k - 1], k, procs[k])
      /\ Layout!Load(globals, procs, stack, callstack) = t[Len(procs)]
  BY <1>1, <1>4, <1>5, <1>6
<1>. QED
  BY <1>7

LEMMA ProgramIsLaid ==
  ASSUME NEW instructions, NEW globals \in Seq(Layout!Statics \cup Layout!Callbacks),
         NEW procs \in Seq(Layout!ProceduresOf(instructions)),
         NEW stack \in Nat, NEW callstack \in Nat \ {0}
  PROVE  ProgramGood(Layout!Load(globals, procs, stack, callstack), Len(procs), instructions)
<1>1. PICK n \in Nat : n = Len(procs)
  BY LenProperties
<1>2. PICK t : /\ t[0] = Bare(globals, stack, callstack)
               /\ \A k \in 1 .. n : t[k] = Layout!NewProcedure(t[k - 1], k, procs[k])
               /\ Layout!Load(globals, procs, stack, callstack) = t[n]
  <2>1. Len(procs) \in Nat
    BY LenProperties
  <2>2. \E t : /\ t[0] = Bare(globals, stack, callstack)
               /\ \A k \in 1 .. Len(procs) :
                    t[k] = Layout!NewProcedure(t[k - 1], k, procs[k])
               /\ Layout!Load(globals, procs, stack, callstack) = t[Len(procs)]
    BY <2>1, LoadedInTurns
  <2>. QED
    BY <1>1, <2>2
<1>. DEFINE S == {k \in 0 .. n : ProgramGood(t[k], k, instructions)}
<1>3. 0 \in S
  BY <1>2, BareIsLaid
<1>4. ASSUME NEW k \in 0 .. (n - 1), k \in S PROVE k + 1 \in S
  <2>1. k + 1 \in 1 .. n /\ (k + 1) - 1 = k
    OBVIOUS
  <2>2. t[k + 1] = Layout!NewProcedure(t[k], k + 1, procs[k + 1])
    BY <1>2, <2>1
  <2>3. procs[k + 1] \in Layout!ProceduresOf(instructions)
    BY <1>1, <2>1, ElementOfSeq
  <2>4. ProgramGood(t[k], k, instructions)
    BY <1>4
  <2>5. ProgramGood(t[k + 1], k + 1, instructions)
    BY <2>2, <2>3, <2>4, ProcedureIsLaid
  <2>. QED
    BY <2>1, <2>5
<1>5. 0 .. n \subseteq S
  <2>. HIDE DEF S
  <2>. QED
    BY <1>3, <1>4, Inductive
<1>6. n \in S
  BY <1>5
<1>. QED
  BY <1>1, <1>2, <1>6

(* Whatever variables and procedures are declared, in whatever order, what *)
(* new_variable and symbols_scan make of them is a program that VMExec can *)
(* be given, once each instruction has passed check_instruction: every     *)
(* variable lies in its frame or in the initial stack, no two of a frame   *)
(* share a cell, and the code is that of the procedures.  It is what       *)
(* ProgramsVerified assumes.                                               *)
THEOREM LoadedIsWellFormed ==
  ASSUME NEW instructions, NEW globals \in Seq(Layout!Statics \cup Layout!Callbacks),
         NEW procs \in Seq(Layout!ProceduresOf(instructions)),
         NEW stack \in Nat, NEW callstack \in Nat \ {0},
         NEW q, q = Layout!Load(globals, procs, stack, callstack),
         \A p \in DOMAIN q.proc :
           \A i \in q.proc[p].instruction .. q.proc[p].last : Checked(q, p, q.inst[i])
  PROVE  WellFormed(q)
<1>1. PICK n \in Nat : n = Len(procs)
  BY LenProperties
<1>2. ProgramGood(q, n, instructions)
  BY <1>1, ProgramIsLaid
<1>3. /\ DOMAIN q.var = 1 .. Len(q.var) /\ DOMAIN q.proc = 1 .. n
      /\ DOMAIN q.inst = 1 .. Len(q.inst) /\ Len(q.inst) \in Nat /\ Len(q.var) \in Nat
  BY <1>2, LenProperties DEF ProgramGood
<1>4. ASSUME NEW p \in 1 .. n PROVE ProcedureOk(q, p)
  <2>1. Framed(q, p)
    BY <1>2 DEF ProgramGood
  <2>2. PICK a \in Nat \ {0}, b \in Nat :
          a = q.proc[p].instruction /\ b = q.proc[p].last /\ b <= Len(q.inst)
    BY <2>1 DEF Framed
  <2>3. \A i \in a .. b : i \in DOMAIN q.inst
    BY <1>3, <2>2
  <2>4. \A i \in a .. b : Checked(q, p, q.inst[i])
    BY <1>3, <2>2
  <2>. QED
    BY <2>1, <2>2, <2>3, <2>4 DEF Framed, ProcedureOk
<1>5. CellsOfItsOwn(q)
  BY <1>2 DEF ProgramGood, Apart, CellsOfItsOwn
<1>. QED
  BY <1>2, <1>3, <1>4, <1>5 DEF ProgramGood, WellFormed

-----------------------------------------------------------------------------
(* What symbols_verify looks for.                                          *)

(* The variables of a frame are in the order of where they lie. *)
FrameInOrder(vs, n) ==
  /\ \A j \in 1 .. Len(vs) :
       /\ ~vs[j].read /\ ~vs[j].write
       /\ vs[j].length = 0 => j <= n /\ vs[j].offset \in 1 .. n
       /\ Layout!SizeIn(vs[j]) \in Nat \ {0} /\ Layout!FromTop(vs[j]) \in Nat
  /\ \A j, k \in 1 .. Len(vs) :
       j < k => Layout!FromTop(vs[j]) + Layout!SizeIn(vs[j]) <= Layout!FromTop(vs[k])

LEMMA TopOfFrame ==
  ASSUME NEW p \in Nat \ {0}, NEW n \in Nat, NEW size \in Nat, ArgSize * n <= size,
         NEW x, InFrame(x, p, n, size)
  PROVE  /\ Layout!SizeIn(x) \in Nat \ {0} /\ Layout!FromTop(x) \in Nat
         /\ Layout!FromTop(x) + Layout!SizeIn(x) <= size
<1>1. /\ x.length \in Nat /\ x.offset \in Int
      /\ Footprint(x) = x.length * Layout!SizeOf(x.type)
      /\ Layout!SizeOf(x.type) = 1 \/ Layout!SizeOf(x.type) = 2
  BY DEF InFrame, Declared, Footprint, Layout!SizeOf
<1>2. CASE x.length = 0
  <2>1. PICK o \in 1 .. n : o = x.offset
    BY <1>2 DEF InFrame
  <2>2. Layout!SizeIn(x) = 4 /\ Layout!FromTop(x) = o * 4 - 4
    BY <1>2, <2>1 DEF Layout!SizeIn, Layout!FromTop, Layout!ArgSize
  <2>. QED
    BY <2>2 DEF ArgSize
<1>3. CASE x.length # 0
  <2>1. PICK o \in Int, z \in Nat \ {0} : o = x.offset /\ z = x.length * Layout!SizeOf(x.type)
    BY <1>1, <1>3
  <2>2. Layout!SizeIn(x) = z /\ Layout!FromTop(x) = o - z
    BY <1>3, <2>1 DEF Layout!SizeIn, Layout!FromTop
  <2>3. 4 * n <= o - z /\ o <= size
    BY <1>1, <1>3, <2>1 DEF InFrame, ArgSize
  <2>. QED
    BY <2>2, <2>3
<1>. QED
  BY <1>2, <1>3

LEMMA ArgumentsInOrder ==
  ASSUME NEW p, NEW n \in Nat
  PROVE  FrameInOrder(ArgumentsOf(p, n).var, n)
<1>1. PICK vs : vs = [a \in 1 .. n |-> Layout!Variable(p, "NONE", 0, a, FALSE, FALSE)]
  OBVIOUS
<1>2. ASSUME NEW a \in 1 .. n
      PROVE  /\ ~vs[a].read /\ ~vs[a].write /\ vs[a].offset = a
             /\ Layout!SizeIn(vs[a]) = 4 /\ Layout!FromTop(vs[a]) = a * 4 - 4
  BY <1>1 DEF Layout!Variable, Layout!SizeIn, Layout!FromTop, Layout!ArgSize
<1>3. Len(vs) = n
  BY <1>1
<1>4. FrameInOrder(vs, n)
  BY <1>2, <1>3 DEF FrameInOrder
<1>. QED
  BY <1>1, <1>4 DEF ArgumentsOf

LEMMA LocalInOrder ==
  ASSUME NEW p \in Nat \ {0}, NEW n \in Nat, NEW f, FrameGood(f, p, n),
         FrameInOrder(f.var, n), NEW d \in Layout!Locals
  PROVE  FrameInOrder(Layout!NewLocal(p, f, d).var, n)
<1>1. d.type \in {"INT", "FLOAT"} /\ d.init \in Seq(Int) \ {<<>>}
  BY DEF Layout!Locals
<1>2. PICK size \in Nat \ {0} : size = CellsFor(d)
  BY <1>1, CellsAreNumbers
<1>3. PICK len \in Nat \ {0} : len = Len(d.init)
  BY <1>1, CellsAreNumbers
<1>4. PICK x : x = Layout!Variable(p, d.type, len, f.stackneeded + size, FALSE, FALSE)
  OBVIOUS
<1>5. PICK ws : ws = Append(f.var, x)
  OBVIOUS
<1>6. Layout!NewLocal(p, f, d).var = ws
  BY <1>2, <1>3, <1>4, <1>5 DEF FrameGood, Layout!NewLocal, CellsFor
<1>7. /\ f.stackneeded \in Nat /\ ArgSize * n <= f.stackneeded
      /\ f.var \in Seq(Declared)
      /\ \A i \in 1 .. Len(f.var) : InFrame(f.var[i], p, n, f.stackneeded)
  BY DEF FrameGood
<1>8. /\ ~x.read /\ ~x.write /\ x.length # 0
      /\ Layout!SizeIn(x) = size /\ Layout!FromTop(x) = f.stackneeded
  <2>1. /\ x.type = d.type /\ x.length = len /\ x.offset = f.stackneeded + size
        /\ ~x.read /\ ~x.write
    BY <1>4 DEF Layout!Variable
  <2>2. Layout!SizeIn(x) = size
    BY <1>2, <1>3, <2>1 DEF Layout!SizeIn, CellsFor
  <2>3. Layout!FromTop(x) = x.offset - Layout!SizeIn(x)
    BY <1>3, <2>1 DEF Layout!FromTop
  <2>. QED
    BY <1>7, <2>1, <2>2, <2>3
<1>9. PICK m \in Nat : m = Len(f.var)
  BY <1>7, LenProperties
<1>10. /\ Len(ws) = m + 1 /\ ws[m + 1] = x
       /\ \A i \in 1 .. m : ws[i] = f.var[i]
  BY <1>5, <1>7, <1>9, AppendProperties
<1>11. ASSUME NEW j \in 1 .. (m + 1)
       PROVE  /\ ~ws[j].read /\ ~ws[j].write
              /\ ws[j].length = 0 => j <= n /\ ws[j].offset \in 1 .. n
              /\ Layout!SizeIn(ws[j]) \in Nat \ {0} /\ Layout!FromTop(ws[j]) \in Nat
  <2>1. CASE j = m + 1
    BY <1>7, <1>8, <1>10, <2>1
  <2>2. CASE j \in 1 .. m
    BY <1>9, <1>10, <2>2 DEF FrameInOrder
  <2>. QED
    BY <2>1, <2>2
<1>12. ASSUME NEW j \in 1 .. (m + 1), NEW k \in 1 .. (m + 1), j < k
       PROVE  Layout!FromTop(ws[j]) + Layout!SizeIn(ws[j]) <= Layout!FromTop(ws[k])
  <2>1. j \in 1 .. m /\ ws[j] = f.var[j]
    BY <1>10, <1>12
  <2>2. CASE k = m + 1
    <3>1. Layout!FromTop(ws[j]) + Layout!SizeIn(ws[j]) <= f.stackneeded
      BY <1>7, <1>9, <2>1, TopOfFrame
    <3>. QED
      BY <1>8, <1>10, <2>2, <3>1
  <2>3. CASE k \in 1 .. m
    BY <1>9, <1>10, <1>12, <2>1, <2>3 DEF FrameInOrder
  <2>. QED
    BY <2>2, <2>3
<1>13. FrameInOrder(ws, n)
  BY <1>10, <1>11, <1>12 DEF FrameInOrder
<1>. QED
  BY <1>6, <1>13

LEMMA FrameIsInOrder ==
  ASSUME NEW p \in Nat \ {0}, NEW args \in Nat, NEW locals \in Seq(Layout!Locals)
  PROVE  FrameInOrder(Layout!FrameOf(p, args, locals).var, args)
<1>1. PICK n \in Nat : n = Len(locals)
  BY LenProperties
<1>2. PICK t : /\ t[0] = ArgumentsOf(p, args)
               /\ \A k \in 1 .. n : t[k] = Layout!NewLocal(p, t[k - 1], locals[k])
               /\ Layout!FrameOf(p, args, locals) = t[n]
  <2>1. Len(locals) \in Nat
    BY LenProperties
  <2>2. \E t : FrameTurns(t, p, args, locals)
    BY <2>1, FrameInTurns
  <2>. QED
    BY <1>1, <2>2 DEF FrameTurns
<1>. DEFINE S == {k \in 0 .. n : FrameGood(t[k], p, args) /\ FrameInOrder(t[k].var, args)}
<1>3. 0 \in S
  BY <1>2, ArgumentsAreLaid, ArgumentsInOrder
<1>4. ASSUME NEW k \in 0 .. (n - 1), k \in S PROVE k + 1 \in S
  <2>1. k + 1 \in 1 .. n /\ (k + 1) - 1 = k
    OBVIOUS
  <2>2. t[k + 1] = Layout!NewLocal(p, t[k], locals[k + 1])
    BY <1>2, <2>1
  <2>3. locals[k + 1] \in Layout!Locals
    BY <1>1, <2>1, ElementOfSeq
  <2>4. FrameGood(t[k], p, args) /\ FrameInOrder(t[k].var, args)
    BY <1>4
  <2>5. FrameGood(t[k + 1], p, args) /\ FrameInOrder(t[k + 1].var, args)
    BY <2>2, <2>3, <2>4, LocalIsLaid, LocalInOrder
  <2>. QED
    BY <2>1, <2>5
<1>5. 0 .. n \subseteq S
  <2>. HIDE DEF S
  <2>. QED
    BY <1>3, <1>4, Inductive
<1>6. n \in S
  BY <1>5
<1>. QED
  BY <1>2, <1>6

(* What comes later does not overlap what was there. *)
LEMMA LaterIsElsewhere ==
  ASSUME NEW a \in Nat, NEW la \in Nat \ {0}, NEW b \in Nat, NEW lb \in Nat \ {0},
         a + la <= b
  PROVE  ~Layout!Overlap(Layout!Bytes(a), Layout!Bytes(la), Layout!Bytes(b), Layout!Bytes(lb))
BY DEF Layout!Overlap, Layout!Bytes

LEMMA FrameIsVerified ==
  ASSUME NEW p \in Nat \ {0}, NEW args \in Nat, NEW locals \in Seq(Layout!Locals)
  PROVE  Layout!FrameVerified(Layout!FrameOf(p, args, locals), args)
<1>1. PICK f : f = Layout!FrameOf(p, args, locals)
  OBVIOUS
<1>2. FrameGood(f, p, args) /\ FrameInOrder(f.var, args)
  BY <1>1, FrameIsLaid, FrameIsInOrder
<1>3. DOMAIN f.var = 1 .. Len(f.var) /\ Len(f.var) \in Nat
  BY <1>2, LenProperties DEF FrameGood
<1>4. ASSUME NEW j \in 1 .. Len(f.var)
      PROVE  /\ ~f.var[j].read /\ ~f.var[j].write
             /\ f.var[j].length = 0 => j - 1 <= args /\ f.var[j].offset <= args
             /\ Layout!FromTop(f.var[j]) \in 0 .. f.stackneeded
             /\ \A k \in 1 .. Len(f.var) : k > j =>
                  ~Layout!Overlap(Layout!Bytes(Layout!FromTop(f.var[j])),
                                  Layout!Bytes(Layout!SizeIn(f.var[j])),
                                  Layout!Bytes(Layout!FromTop(f.var[k])),
                                  Layout!Bytes(Layout!SizeIn(f.var[k])))
  <2>1. /\ ~f.var[j].read /\ ~f.var[j].write
        /\ f.var[j].length = 0 => j - 1 <= args /\ f.var[j].offset <= args
    BY <1>2 DEF FrameInOrder
  <2>2. Layout!FromTop(f.var[j]) \in 0 .. f.stackneeded
    <3>1. /\ InFrame(f.var[j], p, args, f.stackneeded)
          /\ f.stackneeded \in Nat /\ ArgSize * args <= f.stackneeded
      BY <1>2 DEF FrameGood
    <3>2. /\ Layout!SizeIn(f.var[j]) \in Nat \ {0} /\ Layout!FromTop(f.var[j]) \in Nat
          /\ Layout!FromTop(f.var[j]) + Layout!SizeIn(f.var[j]) <= f.stackneeded
      BY <3>1, TopOfFrame
    <3>. QED
      BY <3>1, <3>2
  <2>3. ASSUME NEW k \in 1 .. Len(f.var), k > j
        PROVE  ~Layout!Overlap(Layout!Bytes(Layout!FromTop(f.var[j])),
                               Layout!Bytes(Layout!SizeIn(f.var[j])),
                               Layout!Bytes(Layout!FromTop(f.var[k])),
                               Layout!Bytes(Layout!SizeIn(f.var[k])))
    <3>1. /\ Layout!SizeIn(f.var[j]) \in Nat \ {0} /\ Layout!FromTop(f.var[j]) \in Nat
          /\ Layout!SizeIn(f.var[k]) \in Nat \ {0} /\ Layout!FromTop(f.var[k]) \in Nat
          /\ Layout!FromTop(f.var[j]) + Layout!SizeIn(f.var[j]) <= Layout!FromTop(f.var[k])
      BY <1>2, <1>3, <2>3 DEF FrameInOrder
    <3>. QED
      BY <3>1, LaterIsElsewhere
  <2>. QED
    BY <2>1, <2>2, <2>3
<1>5. Layout!FrameVerified(f, args)
  BY <1>3, <1>4 DEF Layout!FrameVerified
<1>. QED
  BY <1>1, <1>5

(* Globals are in the order of where they lie; so far, k declarations.     *)
GlobalsInOrder(vs, k, decls) ==
  /\ Len(vs) = k
  /\ \A i \in 1 .. k :
       /\ ~vs[i].read /\ ~vs[i].write <=> ~decls[i].read /\ ~decls[i].write
       /\ ~vs[i].read /\ ~vs[i].write => vs[i].type \in {"INT", "FLOAT"}
  /\ \A i, j \in 1 .. k :
       i < j /\ ~vs[i].read /\ ~vs[i].write /\ ~vs[j].read /\ ~vs[j].write
         => vs[i].offset + Footprint(vs[i]) <= vs[j].offset

LEMMA GlobalInOrder ==
  ASSUME NEW decls, NEW k \in Nat, NEW g, GlobalsGood(g), GlobalsInOrder(g.var, k, decls),
         decls[k + 1] \in Layout!Statics \cup Layout!Callbacks
  PROVE  GlobalsInOrder(Layout!NewGlobal(g, decls[k + 1]).var, k + 1, decls)
<1>1. PICK d : d = decls[k + 1]
  OBVIOUS
<1>2. PICK ws : ws = Layout!NewGlobal(g, d).var
  OBVIOUS
<1>3. PICK x : /\ ws = Append(g.var, x)
               /\ ~x.read /\ ~x.write <=> ~d.read /\ ~d.write
               /\ ~x.read /\ ~x.write => x.type \in {"INT", "FLOAT"} /\ x.offset = g.initialstack
  <2>1. CASE d \in Layout!Callbacks
    <3>1. d.read \/ d.write
      BY <2>1 DEF Layout!Callbacks
    <3>2. PICK y : y = Layout!Variable(0, d.type, d.length, d.junk, d.read, d.write)
      OBVIOUS
    <3>3. ws = Append(g.var, y)
      BY <1>2, <3>1, <3>2 DEF GlobalsGood, Layout!NewGlobal
    <3>4. y.read = d.read /\ y.write = d.write
      BY <3>2 DEF Layout!Variable
    <3>. QED
      BY <3>1, <3>3, <3>4
  <2>2. CASE d \in Layout!Statics
    <3>1. d.type \in {"INT", "FLOAT"} /\ ~d.read /\ ~d.write
      BY <2>2 DEF Layout!Statics
    <3>2. PICK y : y = Layout!Variable(0, d.type, Len(d.init), g.initialstack, FALSE, FALSE)
      OBVIOUS
    <3>3. ws = Append(g.var, y)
      BY <1>2, <3>1, <3>2 DEF GlobalsGood, Layout!NewGlobal
    <3>4. ~y.read /\ ~y.write /\ y.type = d.type /\ y.offset = g.initialstack
      BY <3>2 DEF Layout!Variable
    <3>. QED
      BY <3>1, <3>3, <3>4
  <2>. QED
    BY <1>1, <2>1, <2>2
<1>4. /\ g.var \in Seq(Declared) /\ Len(g.var) = k
      /\ \A i \in 1 .. k : InInitialStack(g.var[i], g.initialstack)
  BY DEF GlobalsGood, GlobalsInOrder
<1>5. Len(ws) = k + 1 /\ ws[k + 1] = x /\ \A i \in 1 .. k : ws[i] = g.var[i]
  BY <1>3, <1>4, AppendProperties
<1>6. ASSUME NEW i \in 1 .. (k + 1)
      PROVE  /\ ~ws[i].read /\ ~ws[i].write <=> ~decls[i].read /\ ~decls[i].write
             /\ ~ws[i].read /\ ~ws[i].write => ws[i].type \in {"INT", "FLOAT"}
  <2>1. CASE i = k + 1
    BY <1>1, <1>3, <1>5, <2>1
  <2>2. CASE i \in 1 .. k
    BY <1>5, <2>2 DEF GlobalsInOrder
  <2>. QED
    BY <2>1, <2>2
<1>7. ASSUME NEW i \in 1 .. (k + 1), NEW j \in 1 .. (k + 1), i < j,
             ~ws[i].read, ~ws[i].write, ~ws[j].read, ~ws[j].write
      PROVE  ws[i].offset + Footprint(ws[i]) <= ws[j].offset
  <2>1. i \in 1 .. k /\ ws[i] = g.var[i]
    BY <1>5, <1>7
  <2>2. CASE j = k + 1
    <3>1. ws[i].offset + Footprint(ws[i]) <= g.initialstack
      BY <1>4, <1>7, <2>1 DEF InInitialStack
    <3>. QED
      BY <1>3, <1>5, <1>7, <2>2, <3>1
  <2>3. CASE j \in 1 .. k
    BY <1>5, <1>7, <2>1, <2>3 DEF GlobalsInOrder
  <2>. QED
    BY <2>2, <2>3
<1>8. GlobalsInOrder(ws, k + 1, decls)
  BY <1>5, <1>6, <1>7 DEF GlobalsInOrder
<1>. QED
  BY <1>1, <1>2, <1>8

LEMMA GlobalsAreInOrder ==
  ASSUME NEW decls \in Seq(Layout!Statics \cup Layout!Callbacks)
  PROVE  GlobalsInOrder(Layout!Globals(decls).var, Len(decls), decls)
<1>1. PICK n \in Nat : n = Len(decls)
  BY LenProperties
<1>2. PICK t : /\ t[0] = NoGlobals
               /\ \A k \in 1 .. n : t[k] = Layout!NewGlobal(t[k - 1], decls[k])
               /\ Layout!Globals(decls) = t[n]
  BY <1>1, GlobalsInTurns
<1>. DEFINE S == {k \in 0 .. n : GlobalsGood(t[k]) /\ GlobalsInOrder(t[k].var, k, decls)}
<1>3. 0 \in S
  <2>1. GlobalsInOrder(NoGlobals.var, 0, decls)
    <3>1. NoGlobals.var = <<>>
      BY DEF NoGlobals
    <3>2. Len(NoGlobals.var) = 0
      BY <3>1, EmptySeq
    <3>. QED
      BY <3>2 DEF GlobalsInOrder
  <2>. QED
    BY <1>2, <2>1, NoGlobalsAreLaid
<1>4. ASSUME NEW k \in 0 .. (n - 1), k \in S PROVE k + 1 \in S
  <2>1. k + 1 \in 1 .. n /\ (k + 1) - 1 = k /\ k \in Nat
    OBVIOUS
  <2>2. t[k + 1] = Layout!NewGlobal(t[k], decls[k + 1])
    BY <1>2, <2>1
  <2>3. decls[k + 1] \in Layout!Statics \cup Layout!Callbacks
    BY <1>1, <2>1, ElementOfSeq
  <2>4. GlobalsGood(t[k]) /\ GlobalsInOrder(t[k].var, k, decls)
    BY <1>4
  <2>5. GlobalsGood(t[k + 1])
    BY <2>2, <2>3, <2>4, StaticIsLaid, CallbackIsLaid
  <2>6. GlobalsInOrder(t[k + 1].var, k + 1, decls)
    BY <2>1, <2>2, <2>3, <2>4, GlobalInOrder
  <2>. QED
    BY <2>1, <2>5, <2>6
<1>5. 0 .. n \subseteq S
  <2>. HIDE DEF S
  <2>. QED
    BY <1>3, <1>4, Inductive
<1>6. n \in S
  BY <1>5
<1>. QED
  BY <1>1, <1>2, <1>6

(* The callbacks come first. *)
LEMMA CallbacksFirst ==
  ASSUME NEW decls \in Layout!GlobalDecls
  PROVE  /\ decls \in Seq(Layout!Statics \cup Layout!Callbacks)
         /\ \A i, j \in 1 .. Len(decls) :
              i < j /\ ~decls[i].read /\ ~decls[i].write
                => ~decls[j].read /\ ~decls[j].write
<1>1. PICK cs \in Seq(Layout!Callbacks), ss \in Seq(Layout!Statics) : decls = cs \o ss
  BY DEF Layout!GlobalDecls
<1>2. /\ cs \in Seq(Layout!Statics \cup Layout!Callbacks)
      /\ ss \in Seq(Layout!Statics \cup Layout!Callbacks)
  BY <1>1, SeqDef
<1>3. /\ decls \in Seq(Layout!Statics \cup Layout!Callbacks)
      /\ Len(cs) \in Nat /\ Len(ss) \in Nat
      /\ Len(decls) = Len(cs) + Len(ss)
      /\ \A i \in 1 .. Len(cs) : decls[i] = cs[i]
      /\ \A i \in 1 .. Len(ss) : decls[Len(cs) + i] = ss[i]
  BY <1>1, <1>2, Behind
<1>4. ASSUME NEW i \in 1 .. Len(cs) PROVE decls[i].read \/ decls[i].write
  <2>1. cs[i] \in Layout!Callbacks
    BY <1>1, ElementOfSeq
  <2>. QED
    BY <1>3, <2>1 DEF Layout!Callbacks
<1>5. ASSUME NEW i \in 1 .. Len(ss)
      PROVE  ~decls[Len(cs) + i].read /\ ~decls[Len(cs) + i].write
  <2>1. ss[i] \in Layout!Statics
    BY <1>1, ElementOfSeq
  <2>. QED
    BY <1>3, <2>1 DEF Layout!Statics
<1>6. ASSUME NEW i \in 1 .. Len(decls), NEW j \in 1 .. Len(decls), i < j,
             ~decls[i].read, ~decls[i].write
      PROVE  ~decls[j].read /\ ~decls[j].write
  <2>1. i \notin 1 .. Len(cs)
    BY <1>4, <1>6
  <2>2. j - Len(cs) \in 1 .. Len(ss) /\ Len(cs) + (j - Len(cs)) = j
    BY <1>3, <1>6, <2>1
  <2>. QED
    BY <1>5, <2>2
<1>. QED
  BY <1>3, <1>6

LEMMA GlobalsAreVerified ==
  ASSUME NEW decls \in Layout!GlobalDecls
  PROVE  Layout!GlobalsVerified(Layout!Globals(decls))
<1>1. /\ decls \in Seq(Layout!Statics \cup Layout!Callbacks)
      /\ \A i, j \in 1 .. Len(decls) :
           i < j /\ ~decls[i].read /\ ~decls[i].write => ~decls[j].read /\ ~decls[j].write
  BY CallbacksFirst
<1>2. PICK n \in Nat : n = Len(decls)
  BY <1>1, LenProperties
<1>3. PICK g : g = Layout!Globals(decls)
  OBVIOUS
<1>4. GlobalsGood(g) /\ GlobalsInOrder(g.var, n, decls)
  BY <1>1, <1>2, <1>3, GlobalsAreLaid, GlobalsAreInOrder
<1>5. DOMAIN g.var = 1 .. n
  BY <1>4, LenProperties DEF GlobalsGood, GlobalsInOrder
<1>6. ASSUME NEW i \in 1 .. n
      PROVE  /\ g.var[i].length \in Nat \ {0} /\ InInitialStack(g.var[i], g.initialstack)
             /\ Footprint(g.var[i]) = g.var[i].length * Layout!SizeOf(g.var[i].type)
  <2>1. InInitialStack(g.var[i], g.initialstack)
    BY <1>4, <1>5 DEF GlobalsGood, GlobalsInOrder
  <2>. QED
    BY <2>1 DEF InInitialStack, Declared, Footprint, Layout!SizeOf
<1>7. ASSUME NEW i \in 1 .. n, ~g.var[i].read, ~g.var[i].write
      PROVE  LET size == Layout!Bytes(g.var[i].length * Layout!SizeOf(g.var[i].type))
             IN /\ Layout!Bytes(g.var[i].offset) + size <= Layout!Bytes(g.initialstack)
                /\ \A j \in 1 .. n : j > i =>
                     ~Layout!Overlap(Layout!Bytes(g.var[i].offset), size,
                        Layout!Bytes(g.var[j].offset),
                        Layout!Bytes(g.var[j].length * Layout!SizeOf(g.var[i].type)))
  <2>1. Layout!SizeOf(g.var[i].type) \in {1, 2}
    BY DEF Layout!SizeOf
  <2>2. PICK z \in Nat \ {0} : z = g.var[i].length * Layout!SizeOf(g.var[i].type)
    BY <1>6, <2>1
  <2>3. PICK o \in Nat : o = g.var[i].offset /\ o + z <= g.initialstack
    BY <1>6, <1>7, <2>2 DEF InInitialStack
  <2>4. Layout!Bytes(o) + Layout!Bytes(z) <= Layout!Bytes(g.initialstack)
    BY <1>4, <2>3 DEF GlobalsGood, Layout!Bytes
  <2>5. ASSUME NEW j \in 1 .. n, j > i
        PROVE  ~Layout!Overlap(Layout!Bytes(o), Layout!Bytes(z), Layout!Bytes(g.var[j].offset),
                  Layout!Bytes(g.var[j].length * Layout!SizeOf(g.var[i].type)))
    <3>1. ~g.var[j].read /\ ~g.var[j].write
      BY <1>1, <1>2, <1>4, <1>7, <2>5 DEF GlobalsInOrder
    <3>2. PICK b \in Nat : b = g.var[j].offset
      BY <1>6, <3>1 DEF InInitialStack
    <3>3. o + z <= b
      BY <1>4, <1>6, <1>7, <2>2, <2>3, <2>5, <3>1, <3>2 DEF GlobalsInOrder
    <3>4. PICK y \in Nat \ {0} : y = g.var[j].length * Layout!SizeOf(g.var[i].type)
      BY <1>6, <2>1
    <3>. QED
      BY <3>2, <3>3, <3>4, LaterIsElsewhere
  <2>. QED
    BY <2>2, <2>3, <2>4, <2>5
<1>8. Layout!GlobalsVerified(g)
  BY <1>5, <1>6, <1>7 DEF Layout!GlobalsVerified
<1>. QED
  BY <1>3, <1>8

(* symbols_verify finds nothing wrong with what new_variable laid out,     *)
(* although it takes one global for another's type: with the callbacks     *)
(* declared first, nothing lies where the sizes it gets wrong would reach. *)
THEOREM VerificationNeverRefuses ==
  ASSUME NEW instructions, NEW globals \in Layout!GlobalDecls,
         NEW procs \in Seq(Layout!ProceduresOf(instructions))
  PROVE  Layout!SymbolsVerified(globals, procs)
<1>1. Layout!GlobalsVerified(Layout!Globals(globals))
  BY GlobalsAreVerified
<1>2. ASSUME NEW p \in DOMAIN procs
      PROVE  Layout!FrameVerified(Layout!FrameOf(p, procs[p].args, procs[p].locals),
                                  procs[p].args)
  <2>1. p \in Nat \ {0} /\ procs[p] \in Layout!ProceduresOf(instructions)
    BY LenProperties, ElementOfSeq
  <2>2. procs[p].args \in Nat /\ procs[p].locals \in Seq(Layout!Locals)
    BY <2>1 DEF Layout!ProceduresOf
  <2>. QED
    BY <2>1, <2>2, FrameIsVerified
<1>. QED
  BY <1>1, <1>2 DEF Layout!SymbolsVerified

-----------------------------------------------------------------------------
(* Whether memory suffices.                                                *)

(* A place in memory for every procedure, behind the globals and apart     *)
(* from those of the others.                                               *)
RoomForEach(q) ==
  \E room \in [DOMAIN q.proc -> Nat] :
    /\ \A p \in DOMAIN q.proc :
         /\ q.initialstack <= room[p]
         /\ room[p] + q.proc[p].stackneeded <= q.stacksize
    /\ \A p, r \in DOMAIN q.proc :
         p < r => room[p] + q.proc[p].stackneeded <= room[r]

(* Frames that follow each other from lo need no more memory than they do  *)
(* when each is put in a room of its own between lo and hi.                *)
LEMMA Packed ==
  ASSUME NEW d \in Nat \ {0}, NEW lo \in Nat, NEW hi \in Nat,
         NEW base \in [1 .. d -> Nat], NEW need \in [1 .. d -> Nat],
         NEW room \in [1 .. d -> Nat],
         base[1] = lo, \A n \in 1 .. (d - 1) : base[n + 1] = base[n] + need[n],
         \A n \in 1 .. d : lo <= room[n] /\ room[n] + need[n] <= hi,
         \A m, n \in 1 .. d : m # n =>
           room[m] + need[m] <= room[n] \/ room[n] + need[n] <= room[m]
  PROVE  base[d] + need[d] <= hi
<1>1. PICK top \in Nat : top = base[d] + need[d]
  OBVIOUS
<1>. DEFINE Cells == lo .. (top - 1)
            Rooms == lo .. (hi - 1)
            In(c, n) == base[n] <= c /\ c < base[n] + need[n]
<1>2. ASSUME NEW c \in Cells PROVE \E n \in 1 .. d : In(c, n)
  <2>. DEFINE S == {n \in 1 .. d : c < base[n] + need[n]}
  <2>1. d \in S
    BY <1>1
  <2>2. PICK n \in S : \A m \in S : n <= m
    <3>1. S \in SUBSET Nat
      OBVIOUS
    <3>2. S # {}
      BY <2>1
    <3>. HIDE DEF S
    <3>. QED
      BY <3>1, <3>2, LeastExists
  <2>3. CASE n = 1
    BY <2>2, <2>3
  <2>4. CASE n # 1
    <3>1. n - 1 \in 1 .. (d - 1) /\ n - 1 \in 1 .. d /\ n - 1 + 1 = n
      BY <2>2, <2>4
    <3>2. n - 1 \notin S
      BY <2>2, <3>1
    <3>3. PICK e \in Nat : e = base[n - 1] + need[n - 1]
      BY <3>1
    <3>4. ~ (c < e)
      BY <3>1, <3>2, <3>3
    <3>5. base[n] = e
      BY <3>1, <3>3
    <3>6. c \in Nat /\ e <= c
      BY <3>4
    <3>7. c < base[n] + need[n] /\ n \in 1 .. d
      BY <2>2
    <3>. QED
      BY <3>5, <3>6, <3>7
  <2>. QED
    BY <2>3, <2>4
<1>3. PICK at : at = [c \in Cells |-> CHOOSE n \in 1 .. d : In(c, n)]
  OBVIOUS
<1>4. \A c \in Cells : at[c] \in 1 .. d /\ In(c, at[c])
  <2>. HIDE DEF Cells, In
  <2>. QED
    BY <1>2, <1>3
<1>5. PICK f : f = [c \in Cells |-> room[at[c]] + (c - base[at[c]])]
  OBVIOUS
<1>6. ASSUME NEW c \in Cells
      PROVE  /\ f[c] \in Rooms
             /\ room[at[c]] <= f[c] /\ f[c] < room[at[c]] + need[at[c]]
  <2>1. PICK n \in 1 .. d : n = at[c] /\ In(c, n)
    BY <1>4
  <2>2. f[c] = room[n] + (c - base[n])
    BY <1>5, <2>1
  <2>3. PICK r \in Nat, k \in Nat, b \in Nat : r = room[n] /\ k = need[n] /\ b = base[n]
    OBVIOUS
  <2>4. lo <= r /\ r + k <= hi /\ b <= c /\ c < b + k /\ c \in Nat
    <3>1. lo <= r /\ r + k <= hi
      BY <2>3
    <3>2. In(c, n)
      BY <2>1
    <3>3. b <= c /\ c < b + k
      BY <2>3, <3>2
    <3>4. c \in Nat
      OBVIOUS
    <3>. QED
      BY <3>1, <3>3, <3>4
  <2>5. r + (c - b) \in Rooms /\ r <= r + (c - b) /\ r + (c - b) < r + k
    BY <2>4
  <2>. QED
    BY <2>1, <2>2, <2>3, <2>5
<1>7. ASSUME NEW b \in Cells, NEW c \in Cells, f[b] = f[c] PROVE b = c
  <2>1. PICK m \in 1 .. d, n \in 1 .. d : m = at[b] /\ n = at[c] /\ In(b, m) /\ In(c, n)
    BY <1>4
  <2>2. /\ f[b] = room[m] + (b - base[m]) /\ f[c] = room[n] + (c - base[n])
        /\ room[m] <= f[b] /\ f[b] < room[m] + need[m]
        /\ room[n] <= f[c] /\ f[c] < room[n] + need[n]
    BY <1>5, <1>6, <2>1
  <2>3. CASE m = n
    <3>1. PICK r \in Nat, k \in Nat : r = room[n] /\ k = base[n]
      OBVIOUS
    <3>2. f[b] = r + (b - k)
      BY <2>2, <2>3, <3>1
    <3>3. f[c] = r + (c - k)
      BY <2>2, <2>3, <3>1
    <3>4. r + (b - k) = r + (c - k)
      BY <1>7, <3>2, <3>3
    <3>5. b \in Int /\ c \in Int
      OBVIOUS
    <3>. QED
      BY <3>4, <3>5
  <2>4. CASE m # n
    <3>1. PICK v \in Nat : v = f[b] /\ v = f[c]
      <4>1. f[b] \in Nat
        BY <1>6
      <4>. QED
        BY <1>7, <4>1
    <3>2. PICK r \in Nat, k \in Nat, s \in Nat, l \in Nat :
            r = room[m] /\ k = need[m] /\ s = room[n] /\ l = need[n]
      OBVIOUS
    <3>3. r <= v /\ v < r + k /\ s <= v /\ v < s + l
      BY <2>2, <3>1, <3>2
    <3>4. r + k <= s \/ s + l <= r
      BY <2>4, <3>2
    <3>. QED
      BY <3>3, <3>4
  <2>. QED
    BY <2>3, <2>4
<1>8. f \in Injection(Cells, Rooms)
  <2>1. f \in [Cells -> Rooms]
    BY <1>5, <1>6
  <2>. HIDE DEF Cells, Rooms
  <2>. QED
    BY <1>7, <2>1 DEF Injection, IsInjective
<1>9. Cardinality(Cells) <= Cardinality(Rooms)
  <2>1. IsFiniteSet(Rooms)
    BY FS_Interval
  <2>. HIDE DEF Cells, Rooms
  <2>. QED
    BY <1>8, <2>1, FS_Injection
<1>10. lo <= top /\ lo <= hi
  <2>1. base[1] = lo /\ lo <= room[1] /\ room[1] + need[1] <= hi /\ 1 \in 1 .. d
    OBVIOUS
  <2>2. lo <= base[d]
    <3>. DEFINE S == {n \in 0 .. (d - 1) : lo <= base[n + 1]}
    <3>1. 0 \in S
      BY <2>1
    <3>2. ASSUME NEW n \in 0 .. (d - 1 - 1), n \in S PROVE n + 1 \in S
      <4>1. n + 1 \in 1 .. (d - 1) /\ n + 1 \in 1 .. d /\ n + 1 \in 0 .. (d - 1)
        OBVIOUS
      <4>2. base[n + 1 + 1] = base[n + 1] + need[n + 1]
        BY <4>1
      <4>3. PICK b \in Nat, k \in Nat : b = base[n + 1] /\ k = need[n + 1]
        BY <4>1
      <4>4. lo <= b
        BY <3>2, <4>3
      <4>5. lo <= b + k
        BY <4>4
      <4>6. base[n + 1 + 1] = b + k
        BY <4>2, <4>3
      <4>7. lo <= base[n + 1 + 1]
        BY <4>5, <4>6
      <4>. QED
        BY <4>1, <4>7
    <3>3. 0 .. (d - 1) \subseteq S
      <4>1. d - 1 \in Nat
        OBVIOUS
      <4>. HIDE DEF S
      <4>. QED
        BY <3>1, <3>2, <4>1, Inductive
    <3>4. d - 1 \in 0 .. (d - 1) /\ d - 1 + 1 = d
      OBVIOUS
    <3>5. d - 1 \in S
      BY <3>3, <3>4
    <3>. QED
      BY <3>4, <3>5
  <2>3. PICK r \in Nat, k \in Nat : r = room[1] /\ k = need[1]
    BY <2>1
  <2>4. lo <= hi
    BY <2>1, <2>3
  <2>5. lo <= top
    <3>1. PICK b \in Nat, l \in Nat : b = base[d] /\ l = need[d]
      OBVIOUS
    <3>. QED
      BY <1>1, <2>2, <3>1
  <2>. QED
    BY <2>4, <2>5
<1>11. /\ Cardinality(Cells) = IF lo > top - 1 THEN 0 ELSE top - 1 - lo + 1
       /\ Cardinality(Rooms) = IF lo > hi - 1 THEN 0 ELSE hi - 1 - lo + 1
  <2>1. lo \in Int /\ top - 1 \in Int /\ hi - 1 \in Int
    OBVIOUS
  <2>2. PICK u \in Int, v \in Int : u = top - 1 /\ v = hi - 1
    BY <2>1
  <2>3. /\ Cardinality(lo .. u) = IF lo > u THEN 0 ELSE u - lo + 1
        /\ Cardinality(lo .. v) = IF lo > v THEN 0 ELSE v - lo + 1
    BY <2>1, FS_Interval
  <2>. QED
    BY <2>2, <2>3
<1>12. Cardinality(Cells) = top - lo /\ Cardinality(Rooms) = hi - lo
  <2>. HIDE DEF Cells, Rooms
  <2>. QED
    BY <1>10, <1>11
<1>. QED
  <2>. HIDE DEF Cells, Rooms
  <2>. QED
    BY <1>1, <1>9, <1>10, <1>12

(* The frames there are, and one more. *)
LEMMA FramesArePacked ==
  ASSUME Controlled, status = "ACTIVE", RoomForEach(program), NEW p \in Procs,
         \A n \in 1 .. Depth : cstack[n].proc # p,
         \A m, n \in 1 .. Depth : m # n => cstack[m].proc # cstack[n].proc
  PROVE  sp + Procedures[p].stackneeded <= StackSize
<1>1. PICK depth \in Nat \ {0} : depth = Depth
  <2>1. Depth \in Nat
    BY LenProperties DEF Controlled, IInv, Grounded, Depth
  <2>2. Depth > 0
    BY DEF Controlled, IInv, StackDiscipline
  <2>. QED
    BY <2>1, <2>2
<1>2. /\ InitialStack \in Nat /\ StackSize \in Nat /\ sp \in Nat
      /\ \A r \in Procs : Procedures[r].stackneeded \in Nat
      /\ \A n \in 1 .. depth : cstack[n].proc \in Procs /\ cstack[n].base \in Nat
  <2>1. \A n \in 1 .. depth : cstack[n] \in Entries
    BY <1>1, ElementOfSeq DEF Controlled, IInv, Grounded, Depth
  <2>. QED
    BY <2>1, Verified DEF Controlled, IInv, Grounded, Entries
<1>3. /\ cstack[1].base = InitialStack
      /\ sp = cstack[depth].base + Procedures[cstack[depth].proc].stackneeded
      /\ \A n \in 1 .. (depth - 1) :
           cstack[n + 1].base = cstack[n].base + Procedures[cstack[n].proc].stackneeded
  BY <1>1 DEF Controlled, IInv, StackDiscipline, End
<1>4. PICK room \in [Procs -> Nat] :
        /\ \A r \in Procs : /\ InitialStack <= room[r]
                             /\ room[r] + Procedures[r].stackneeded <= StackSize
        /\ \A r, t \in Procs : r < t => room[r] + Procedures[r].stackneeded <= room[t]
  BY DEF RoomForEach, Procs, Procedures, InitialStack, StackSize
<1>5. \A r, t \in Procs : r # t => r < t \/ t < r
  <2>1. Procs \subseteq Nat
    BY ProgramsVerified DEF WellFormed, Procs, Procedures, Controlled, IInv, Grounded
  <2>. QED
    BY <2>1
<1>6. PICK d \in Nat \ {0} : d = depth + 1
  OBVIOUS
<1>7. PICK proc \in [1 .. d -> Procs] :
        proc = [n \in 1 .. d |-> IF n = d THEN p ELSE cstack[n].proc]
  <2>1. \A n \in 1 .. d : (IF n = d THEN p ELSE cstack[n].proc) \in Procs
    BY <1>2, <1>6
  <2>2. [n \in 1 .. d |-> IF n = d THEN p ELSE cstack[n].proc] \in [1 .. d -> Procs]
    BY <2>1
  <2>. QED
    BY <2>2
<1>8. PICK base \in [1 .. d -> Nat] :
        base = [n \in 1 .. d |-> IF n = d THEN sp ELSE cstack[n].base]
  <2>1. \A n \in 1 .. d : (IF n = d THEN sp ELSE cstack[n].base) \in Nat
    BY <1>2, <1>6
  <2>2. [n \in 1 .. d |-> IF n = d THEN sp ELSE cstack[n].base] \in [1 .. d -> Nat]
    BY <2>1
  <2>. QED
    BY <2>2
<1>9. PICK need \in [1 .. d -> Nat] :
        need = [n \in 1 .. d |-> Procedures[proc[n]].stackneeded]
  BY <1>2, <1>7
<1>10. PICK own \in [1 .. d -> Nat] : own = [n \in 1 .. d |-> room[proc[n]]]
  BY <1>4, <1>7
<1>11. base[1] = InitialStack
  BY <1>3, <1>6, <1>8
<1>12. ASSUME NEW n \in 1 .. (d - 1) PROVE base[n + 1] = base[n] + need[n]
  <2>1. /\ n \in 1 .. d /\ n + 1 \in 1 .. d /\ n # d /\ n \in 1 .. depth
    BY <1>6
  <2>2. base[n] = cstack[n].base /\ need[n] = Procedures[cstack[n].proc].stackneeded
    BY <1>7, <1>8, <1>9, <2>1
  <2>3. CASE n = depth
    BY <1>3, <1>6, <1>8, <2>1, <2>2, <2>3
  <2>4. CASE n # depth
    <3>1. n \in 1 .. (depth - 1) /\ n + 1 # d
      BY <1>6, <2>1, <2>4
    <3>2. base[n + 1] = cstack[n + 1].base
      BY <1>8, <2>1, <3>1
    <3>. QED
      BY <1>3, <2>2, <3>1, <3>2
  <2>. QED
    BY <2>3, <2>4
<1>13. \A n \in 1 .. d : InitialStack <= own[n] /\ own[n] + need[n] <= StackSize
  BY <1>4, <1>7, <1>9, <1>10
<1>14. ASSUME NEW m \in 1 .. d, NEW n \in 1 .. d, m # n
       PROVE  own[m] + need[m] <= own[n] \/ own[n] + need[n] <= own[m]
  <2>1. proc[m] # proc[n]
    <3>1. m # d => m \in 1 .. Depth /\ proc[m] = cstack[m].proc
      BY <1>1, <1>6, <1>7
    <3>2. n # d => n \in 1 .. Depth /\ proc[n] = cstack[n].proc
      BY <1>1, <1>6, <1>7
    <3>3. (m = d => proc[m] = p) /\ (n = d => proc[n] = p)
      BY <1>7
    <3>. QED
      BY <1>14, <3>1, <3>2, <3>3
  <2>2. proc[m] < proc[n] \/ proc[n] < proc[m]
    BY <1>5, <1>7, <2>1
  <2>3. proc[m] \in Procs /\ proc[n] \in Procs
    BY <1>7
  <2>. QED
    BY <1>4, <1>9, <1>10, <2>2, <2>3
<1>15. base[d] + need[d] <= StackSize
  BY <1>2, <1>11, <1>12, <1>13, <1>14, Packed
<1>16. base[d] = sp /\ need[d] = Procedures[p].stackneeded
  BY <1>6, <1>7, <1>8, <1>9
<1>. QED
  BY <1>15, <1>16

(* Every program with room for each of its procedures runs out of memory   *)
(* only by recursion.                                                      *)
LEMMA RoomSuffices ==
  ASSUME \A q \in Programs : RoomForEach(q)
  PROVE  Spec => []OnlyRecursionExhausts
<1>1. ASSUME Controlled PROVE OnlyRecursionExhausts
  <2>1. SUFFICES ASSUME NEW p \in Procs
                 PROVE  /\ InitialStack + Procedures[p].stackneeded <= StackSize
                        /\ /\ status = "ACTIVE"
                           /\ \A n \in 1 .. Depth : cstack[n].proc # p
                           /\ \A m, n \in 1 .. Depth :
                                m # n => cstack[m].proc # cstack[n].proc
                           => sp + Procedures[p].stackneeded <= StackSize
    BY DEF OnlyRecursionExhausts
  <2>2. program \in Programs /\ RoomForEach(program)
    BY <1>1 DEF Controlled, IInv, Grounded
  <2>3. InitialStack + Procedures[p].stackneeded <= StackSize
    <3>1. PICK room \in [Procs -> Nat] :
            /\ InitialStack <= room[p]
            /\ room[p] + Procedures[p].stackneeded <= StackSize
      BY <2>2 DEF RoomForEach, Procs, Procedures, InitialStack, StackSize
    <3>2. /\ InitialStack \in Nat /\ StackSize \in Nat
          /\ Procedures[p].stackneeded \in Nat /\ room[p] \in Nat
      BY <2>2, Verified
    <3>. QED
      BY <3>1, <3>2
  <2>. QED
    BY <1>1, <2>2, <2>3, FramesArePacked
<1>. QED
  BY <1>1, InitiallyControlled, StepControlled, PTL DEF Spec

LEMMA BareHasRoom ==
  ASSUME NEW globals \in Seq(Layout!Statics \cup Layout!Callbacks),
         NEW stack \in Nat, NEW callstack
  PROVE  LET q == Bare(globals, stack, callstack)
         IN q.initialstack <= q.stacksize /\ RoomForEach(q)
<1>1. PICK q : q = Bare(globals, stack, callstack)
  OBVIOUS
<1>2. /\ q.proc = <<>> /\ q.initialstack = Layout!Globals(globals).initialstack
      /\ q.stacksize = Layout!Globals(globals).initialstack + stack
  BY <1>1 DEF Bare
<1>3. q.initialstack \in Nat
  BY <1>2, GlobalsAreLaid DEF GlobalsGood
<1>4. DOMAIN q.proc = {}
  BY <1>2, EmptySeq
<1>5. RoomForEach(q)
  <2>1. [p \in DOMAIN q.proc |-> 0] \in [DOMAIN q.proc -> Nat]
    OBVIOUS
  <2>. QED
    BY <1>4, <2>1 DEF RoomForEach
<1>. QED
  BY <1>1, <1>2, <1>3, <1>5

LEMMA NextHasRoom ==
  ASSUME NEW instructions, NEW q, NEW k \in Nat, ProgramGood(q, k, instructions),
         NEW d \in Layout!ProceduresOf(instructions),
         q.initialstack <= q.stacksize, RoomForEach(q)
  PROVE  LET r == Layout!NewProcedure(q, k + 1, d)
         IN r.initialstack <= r.stacksize /\ RoomForEach(r)
<1>1. PICK r : r = Layout!NewProcedure(q, k + 1, d)
  OBVIOUS
<1>2. PICK f : f = Layout!FrameOf(k + 1, d.args, d.locals)
  OBVIOUS
<1>3. f.stackneeded \in Nat
  <2>1. k + 1 \in Nat \ {0} /\ d.args \in Nat /\ d.locals \in Seq(Layout!Locals)
    BY DEF Layout!ProceduresOf
  <2>2. FrameGood(f, k + 1, d.args)
    BY <1>2, <2>1, FrameIsLaid
  <2>. QED
    BY <2>2 DEF FrameGood
<1>4. PICK x : /\ r.proc = Append(q.proc, x) /\ x.stackneeded = f.stackneeded
               /\ r.initialstack = q.initialstack
               /\ r.stacksize = q.stacksize + f.stackneeded
  <2>1. q = [var |-> q.var, proc |-> q.proc, inst |-> q.inst,
             initialstack |-> q.initialstack, init |-> q.init,
             stacksize |-> q.stacksize, callstacksize |-> q.callstacksize]
    BY DEF ProgramGood
  <2>2. PICK x : x = [args |-> d.args, instruction |-> Len(q.inst) + 1,
                      last |-> Len(q.inst) + Len(d.code),
                      stackneeded |-> f.stackneeded, init |-> f.init]
    OBVIOUS
  <2>3. r = [var |-> q.var \o f.var, proc |-> Append(q.proc, x), inst |-> q.inst \o d.code,
             initialstack |-> q.initialstack, init |-> q.init,
             stacksize |-> q.stacksize + f.stackneeded,
             callstacksize |-> q.callstacksize]
    BY <1>1, <1>2, <2>1, <2>2 DEF Layout!NewProcedure
  <2>4. x.stackneeded = f.stackneeded
    BY <2>2
  <2>5. /\ r.proc = Append(q.proc, x) /\ r.initialstack = q.initialstack
        /\ r.stacksize = q.stacksize + f.stackneeded
    BY <2>3
  <2>. QED
    BY <2>4, <2>5
<1>5. /\ DOMAIN r.proc = 1 .. (k + 1) /\ DOMAIN q.proc = 1 .. k
      /\ r.proc[k + 1] = x /\ \A p \in 1 .. k : r.proc[p] = q.proc[p]
  <2>1. q.proc \in Seq(ProcedureRecords) /\ Len(q.proc) = k
    BY DEF ProgramGood
  <2>2. PICK S : q.proc \in Seq(S) /\ x \in S
    <3>1. q.proc \in Seq(ProcedureRecords \cup {x})
      BY <2>1, SeqDef
    <3>. QED
      BY <3>1
  <2>. QED
    BY <1>4, <2>1, <2>2, AppendProperties, LenProperties
<1>6. /\ q.initialstack \in Nat /\ q.stacksize \in Nat
      /\ \A p \in 1 .. k : q.proc[p].stackneeded \in Nat
  BY DEF ProgramGood, Framed
<1>7. PICK room \in [1 .. k -> Nat] :
        /\ \A p \in 1 .. k : /\ q.initialstack <= room[p]
                             /\ room[p] + q.proc[p].stackneeded <= q.stacksize
        /\ \A p, t \in 1 .. k : p < t => room[p] + q.proc[p].stackneeded <= room[t]
  BY <1>5 DEF RoomForEach
<1>8. PICK more \in [1 .. (k + 1) -> Nat] :
        more = [p \in 1 .. (k + 1) |-> IF p = k + 1 THEN q.stacksize ELSE room[p]]
  <2>1. \A p \in 1 .. (k + 1) : (IF p = k + 1 THEN q.stacksize ELSE room[p]) \in Nat
    BY <1>6
  <2>2. [p \in 1 .. (k + 1) |-> IF p = k + 1 THEN q.stacksize ELSE room[p]]
          \in [1 .. (k + 1) -> Nat]
    BY <2>1
  <2>. QED
    BY <2>2
<1>9. more[k + 1] = q.stacksize /\ \A p \in 1 .. k : more[p] = room[p]
  BY <1>8
<1>10. ASSUME NEW p \in 1 .. (k + 1)
       PROVE  /\ r.initialstack <= more[p]
              /\ more[p] + r.proc[p].stackneeded <= r.stacksize
  <2>1. CASE p = k + 1
    BY <1>3, <1>4, <1>5, <1>6, <1>9, <2>1
  <2>2. CASE p \in 1 .. k
    <3>1. more[p] = room[p] /\ r.proc[p] = q.proc[p]
      BY <1>5, <1>9, <2>2
    <3>2. PICK s \in Nat, l \in Nat, h \in Nat :
            s = room[p] /\ l = q.proc[p].stackneeded /\ h = q.stacksize
      BY <1>6, <2>2
    <3>3. q.initialstack <= s /\ s + l <= h
      BY <1>7, <2>2, <3>2
    <3>4. PICK e \in Nat : e = f.stackneeded
      BY <1>3
    <3>5. s + l <= h + e
      BY <3>3
    <3>. QED
      BY <1>4, <3>1, <3>2, <3>3, <3>4, <3>5
  <2>. QED
    BY <2>1, <2>2
<1>11. ASSUME NEW p \in 1 .. (k + 1), NEW t \in 1 .. (k + 1), p < t
       PROVE  more[p] + r.proc[p].stackneeded <= more[t]
  <2>1. p \in 1 .. k
    BY <1>11
  <2>2. CASE t = k + 1
    BY <1>5, <1>7, <1>9, <2>1, <2>2
  <2>3. CASE t \in 1 .. k
    BY <1>5, <1>7, <1>9, <1>11, <2>1, <2>3
  <2>. QED
    BY <2>2, <2>3
<1>12. RoomForEach(r)
  BY <1>5, <1>10, <1>11 DEF RoomForEach
<1>13. r.initialstack <= r.stacksize
  BY <1>3, <1>4, <1>6
<1>. QED
  BY <1>1, <1>12, <1>13

LEMMA LoadedHasRoom ==
  ASSUME NEW instructions, NEW globals \in Seq(Layout!Statics \cup Layout!Callbacks),
         NEW procs \in Seq(Layout!ProceduresOf(instructions)),
         NEW stack \in Nat, NEW callstack \in Nat \ {0}
  PROVE  RoomForEach(Layout!Load(globals, procs, stack, callstack))
<1>1. PICK n \in Nat : n = Len(procs)
  BY LenProperties
<1>2. PICK t : /\ t[0] = Bare(globals, stack, callstack)
               /\ \A k \in 1 .. n : t[k] = Layout!NewProcedure(t[k - 1], k, procs[k])
               /\ Layout!Load(globals, procs, stack, callstack) = t[n]
  <2>1. Len(procs) \in Nat
    BY LenProperties
  <2>2. \E t : /\ t[0] = Bare(globals, stack, callstack)
               /\ \A k \in 1 .. Len(procs) :
                    t[k] = Layout!NewProcedure(t[k - 1], k, procs[k])
               /\ Layout!Load(globals, procs, stack, callstack) = t[Len(procs)]
    BY <2>1, LoadedInTurns
  <2>. QED
    BY <1>1, <2>2
<1>. DEFINE Sufficient(q) == q.initialstack <= q.stacksize /\ RoomForEach(q)
            S == {k \in 0 .. n : ProgramGood(t[k], k, instructions) /\ Sufficient(t[k])}
<1>3. 0 \in S
  <2>1. ProgramGood(t[0], 0, instructions)
    BY <1>2, BareIsLaid
  <2>2. Sufficient(t[0])
    BY <1>2, BareHasRoom
  <2>. QED
    BY <2>1, <2>2
<1>4. ASSUME NEW k \in 0 .. (n - 1), k \in S PROVE k + 1 \in S
  <2>1. k + 1 \in 1 .. n /\ (k + 1) - 1 = k /\ k \in Nat
    OBVIOUS
  <2>2. t[k + 1] = Layout!NewProcedure(t[k], k + 1, procs[k + 1])
    BY <1>2, <2>1
  <2>3. procs[k + 1] \in Layout!ProceduresOf(instructions)
    BY <1>1, <2>1, ElementOfSeq
  <2>4. ProgramGood(t[k], k, instructions) /\ Sufficient(t[k])
    BY <1>4
  <2>5. ProgramGood(t[k + 1], k + 1, instructions)
    BY <2>1, <2>2, <2>3, <2>4, ProcedureIsLaid
  <2>6. Sufficient(t[k + 1])
    BY <2>1, <2>2, <2>3, <2>4, NextHasRoom
  <2>. QED
    BY <2>1, <2>5, <2>6
<1>5. 0 .. n \subseteq S
  <2>. HIDE DEF S
  <2>. QED
    BY <1>3, <1>4, Inductive
<1>6. n \in S
  BY <1>5
<1>. QED
  BY <1>2, <1>6

(* A program as the loader makes it, of some declarations. *)
IsLoaded(q) ==
  \E instructions : \E globals \in Seq(Layout!Statics \cup Layout!Callbacks) :
    \E procs \in Seq(Layout!ProceduresOf(instructions)), stack \in Nat,
       callstack \in Nat \ {0} :
      q = Layout!Load(globals, procs, stack, callstack)

(* For every program that the loader lays out, in every execution: no      *)
(* entry point finds memory too small, and a call finds it used up only    *)
(* when a procedure is called while it is being called (the sums of        *)
(* symbols_scan, and the test in call and crustyvm_begin).                 *)
THEOREM MemorySuffices ==
  ASSUME \A q \in Programs : IsLoaded(q)
  PROVE  Spec => []OnlyRecursionExhausts
<1>1. ASSUME NEW q \in Programs PROVE RoomForEach(q)
  <2>1. IsLoaded(q)
    OBVIOUS
  <2>2. PICK instructions :
          \E globals \in Seq(Layout!Statics \cup Layout!Callbacks) :
            \E procs \in Seq(Layout!ProceduresOf(instructions)), stack \in Nat,
               callstack \in Nat \ {0} :
              q = Layout!Load(globals, procs, stack, callstack)
    BY <2>1 DEF IsLoaded
  <2>3. PICK globals \in Seq(Layout!Statics \cup Layout!Callbacks) :
          \E procs \in Seq(Layout!ProceduresOf(instructions)), stack \in Nat,
             callstack \in Nat \ {0} :
            q = Layout!Load(globals, procs, stack, callstack)
    BY <2>2
  <2>4. PICK procs \in Seq(Layout!ProceduresOf(instructions)), stack \in Nat,
             callstack \in Nat \ {0} :
          q = Layout!Load(globals, procs, stack, callstack)
    BY <2>3
  <2>5. RoomForEach(Layout!Load(globals, procs, stack, callstack))
    BY LoadedHasRoom
  <2>. QED
    BY <2>4, <2>5
<1>. QED
  BY <1>1, RoomSuffices
=============================================================================
