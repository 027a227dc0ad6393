---------------------------- MODULE VMCallProofs ----------------------------
(***************************************************************************)
(* That the machine of src/crustyvm.c, with its stack and its addresses,   *)
(* implements the calls by reference of CallByReference.                   *)
(***************************************************************************)
EXTENDS VMExecProofs

-----------------------------------------------------------------------------
(* Where the elements of the variables are.  Frame 0 is that of globals.   *)

(* Whose variables are in a frame, and which cells the frame has. *)
Scope(n)  == IF n = 0 THEN 0 ELSE cstack[n].proc
Origin(n) == IF n = 0 THEN 0 ELSE End(n)
Extent(n) == IF n = 0 THEN 0 .. (InitialStack - 1) ELSE cstack[n].base .. (End(n) - 1)

(* Where the first element of a variable is, and the cells of an element;  *)
(* of an argument, the cell that holds its number.                         *)
Home(n, v) ==
  IF n = 0 THEN Var(v).offset
  ELSE IF IsArgument(v) THEN End(n) - ArgSize * Var(v).offset + 1
  ELSE End(n) - Var(v).offset

Spot(n, v, i) == Home(n, v) + i * Size(v)
Span(n, v, i) == Spot(n, v, i) .. (Spot(n, v, i) + Size(v) - 1)

LEMMA RunningFrame ==
  ASSUME Controlled, Ordered, NEW n \in 1 .. Running
  PROVE  /\ n \in Nat /\ n # 0 /\ n \in 1 .. Depth /\ Depth \in Nat /\ Running = Depth
         /\ program \in Programs /\ status = "ACTIVE"
         /\ cstack[n].proc \in Procs /\ cstack[n].base \in Nat /\ End(n) \in Nat
         /\ InitialStack \in Nat /\ InitialStack <= cstack[n].base
         /\ End(n) = cstack[n].base + Procedures[cstack[n].proc].stackneeded
         /\ Procedures[cstack[n].proc].stackneeded \in Nat
         /\ End(n) <= sp /\ sp \in Nat /\ sp <= StackSize /\ StackSize \in Nat
<1>1. status = "ACTIVE" /\ Running = Depth
  BY DEF Running
<1>2. /\ program \in Programs /\ Depth \in Nat /\ Depth > 0
      /\ \A k \in 1 .. Depth : cstack[k] \in Entries
  BY <1>1, Top
<1>3. n \in 1 .. Depth
  BY <1>1
<1>4. cstack[n].proc \in Procs /\ cstack[n].base \in Nat
  BY <1>2, <1>3 DEF Entries
<1>5. Procedures[cstack[n].proc].stackneeded \in Nat
  BY <1>2, <1>4, FrameHolds
<1>6. InitialStack <= cstack[n].base /\ End(n) <= sp
  BY <1>3 DEF Ordered
<1>7. sp \in Nat /\ sp <= StackSize
  BY <1>2 DEF Controlled, IInv, Grounded, StackDiscipline
<1>8. InitialStack \in Nat /\ StackSize \in Nat
  BY <1>2, Verified
<1>. QED
  BY <1>1, <1>2, <1>3, <1>4, <1>5, <1>6, <1>7, <1>8 DEF End

(* Every frame has a scope of its own kind: 0 for globals only. *)
LEMMA FrameScope ==
  ASSUME Controlled, Ordered, NEW n \in 0 .. Running
  PROVE  /\ n \in Nat /\ program \in Programs
         /\ Scope(n) \in Procs \cup {0} /\ (Scope(n) = 0 <=> n = 0)
<1>1. program \in Programs
  BY DEF Controlled, IInv, Grounded
<1>2. 0 \notin Procs
  BY <1>1, ProgramsVerified DEF WellFormed, Procs, Procedures
<1>3. CASE n = 0
  BY <1>1, <1>3 DEF Scope
<1>4. CASE n # 0
  <2>1. n \in 1 .. Running
    BY <1>4
  <2>2. cstack[n].proc \in Procs /\ n \in Nat
    BY <2>1, RunningFrame
  <2>. QED
    BY <1>1, <1>2, <1>4, <2>2 DEF Scope
<1>. QED
  BY <1>3, <1>4

(* Frames have no cell in common. *)
LEMMA ExtentsApart ==
  ASSUME Controlled, Ordered, NEW m \in 0 .. Running, NEW n \in 0 .. Running,
         NEW c, c \in Extent(m), c \in Extent(n)
  PROVE  m = n
<1>1. ASSUME NEW j \in 0 .. Running, NEW k \in 0 .. Running, j < k,
             c \in Extent(j), c \in Extent(k)
      PROVE  FALSE
  <2>1. k \in 1 .. Running
    BY <1>1
  <2>2. /\ cstack[k].base \in Nat /\ InitialStack <= cstack[k].base /\ InitialStack \in Nat
        /\ k \in 1 .. Depth /\ k # 0
    BY <2>1, RunningFrame
  <2>3. c \in Int /\ cstack[k].base <= c
    BY <1>1, <2>2, RunningFrame, <2>1 DEF Extent
  <2>4. CASE j = 0
    BY <1>1, <2>2, <2>3, <2>4 DEF Extent
  <2>5. CASE j # 0
    <3>1. j \in 1 .. Running
      BY <2>5
    <3>2. j \in 1 .. Depth /\ End(j) \in Nat /\ cstack[j].base \in Nat
      BY <3>1, RunningFrame
    <3>3. End(j) <= cstack[k].base
      BY <1>1, <2>2, <3>2 DEF Ordered
    <3>4. c <= End(j) - 1
      BY <1>1, <2>5, <3>2 DEF Extent
    <3>. QED
      BY <2>2, <2>3, <3>2, <3>3, <3>4
  <2>. QED
    BY <2>4, <2>5
<1>2. m \in Int /\ n \in Int
  BY FrameScope
<1>. QED
  BY <1>1, <1>2

(* What an owned variable is. *)
LEMMA OwnedLaid ==
  ASSUME Controlled, Ordered, NEW n \in 0 .. Running, NEW v \in Owned(Scope(n))
  PROVE  /\ v \in DOMAIN Variables /\ v \in Nat \ {0}
         /\ Var(v).length \in Nat /\ Var(v).offset \in Int
         /\ Size(v) \in {1, 2} /\ (Size(v) = 2 <=> IsFloat(v))
         /\ IsGlobal(v) <=> n = 0
         /\ Var(v).scope = Scope(n) /\ ~Var(v).read /\ ~Var(v).write
         /\ n = 0 => /\ Var(v).length > 0 /\ Var(v).offset >= 0
                     /\ Var(v).offset + Var(v).length * Size(v) <= InitialStack
         /\ n # 0 /\ IsArgument(v) =>
              Size(v) = 1 /\ Var(v).offset \in 1 .. Procedures[cstack[n].proc].args
         /\ n # 0 /\ ~IsArgument(v) =>
              /\ ArgSize * Procedures[cstack[n].proc].args
                    <= Var(v).offset - Var(v).length * Size(v)
              /\ Var(v).offset <= Procedures[cstack[n].proc].stackneeded
<1>1. /\ program \in Programs /\ (Scope(n) = 0 <=> n = 0)
  BY FrameScope
<1>2. v \in DOMAIN Variables /\ Var(v).scope = Scope(n) /\ ~Var(v).read /\ ~Var(v).write
  BY DEF Owned
<1>3. IsGlobal(v) <=> n = 0
  BY <1>1, <1>2 DEF IsGlobal
<1>4. n # 0 => Var(v).scope = cstack[n].proc
  BY <1>2 DEF Scope
<1>5. Size(v) = 2 <=> IsFloat(v)
  BY DEF Size
<1>. QED
  BY <1>1, <1>2, <1>3, <1>4, <1>5, VariablesLaid

LEMMA RoomHas ==
  ASSUME NEW v, Var(v).length \in Nat, NEW i \in Room(v)
  PROVE  /\ i \in Nat
         /\ IsArgument(v) => i = 0
         /\ ~IsArgument(v) => i \in 0 .. (Var(v).length - 1)
<1>1. CASE IsArgument(v)
  BY <1>1 DEF Room
<1>2. CASE ~IsArgument(v)
  BY <1>2 DEF Room
<1>. QED
  BY <1>1, <1>2

(* The element i of an array of elements of s cells at a. *)
LEMMA Strides ==
  ASSUME NEW i \in Nat, NEW j \in Nat, NEW s \in {1, 2}, NEW a \in Int, NEW c \in Int,
         c \in (a + i * s) .. (a + i * s + s - 1), c \in (a + j * s) .. (a + j * s + s - 1)
  PROVE  i = j
<1>1. CASE s = 1
  BY <1>1
<1>2. CASE s = 2
  BY <1>2
<1>. QED
  BY <1>1, <1>2

LEMMA StrideInside ==
  ASSUME NEW n \in Nat, NEW i \in 0 .. (n - 1), NEW s \in {1, 2}, NEW a \in Int, NEW c \in Int,
         c \in (a + i * s) .. (a + i * s + s - 1)
  PROVE  a <= c /\ c <= a + n * s - 1 /\ n * s \in Int
<1>1. CASE s = 1
  BY <1>1
<1>2. CASE s = 2
  BY <1>2
<1>. QED
  BY <1>1, <1>2

(* An element lies where its variable does, and in its frame. *)
LEMMA SpanPlaced ==
  ASSUME Controlled, Ordered, NEW n \in 0 .. Running, NEW v \in Owned(Scope(n)),
         NEW i \in Room(v), NEW c \in Span(n, v, i)
  PROVE  /\ c \in Int /\ c \in Extent(n) /\ c - Origin(n) \in Place(Var(v))
         /\ Home(n, v) \in Int /\ Origin(n) \in Int
<1>1. /\ v \in DOMAIN Variables
      /\ Var(v).length \in Nat /\ Var(v).offset \in Int
      /\ Size(v) \in {1, 2} /\ Var(v).scope = Scope(n)
      /\ Scope(n) = 0 <=> n = 0
      /\ Footprint(Var(v)) = Var(v).length * Size(v)
  BY OwnedLaid, FrameScope DEF Footprint, Size, IsFloat
<1>2. PICK l \in Nat : l = Var(v).length
  BY <1>1
<1>3. PICK o \in Int : o = Var(v).offset
  BY <1>1
<1>4. PICK s \in {1, 2} : s = Size(v)
  BY <1>1
<1>5. /\ i \in Nat
      /\ IsArgument(v) => i = 0
      /\ ~IsArgument(v) => i \in 0 .. (l - 1)
  BY <1>2, RoomHas
<1>6. CASE n = 0
  <2>1. l > 0 /\ o >= 0 /\ o + l * s <= InitialStack /\ InitialStack \in Nat
    BY <1>2, <1>3, <1>4, <1>6, OwnedLaid, FrameScope, Verified
  <2>2. i \in 0 .. (l - 1)
    BY <1>2, <1>5, <2>1 DEF IsArgument
  <2>3. c \in (o + i * s) .. (o + i * s + s - 1) /\ Home(n, v) = o /\ Origin(n) = 0
    BY <1>3, <1>4, <1>6 DEF Span, Spot, Home, Origin
  <2>4. c \in Int
    BY <1>3, <1>4, <1>5, <2>3
  <2>5. o <= c /\ c <= o + l * s - 1 /\ l * s \in Int
    BY <1>2, <2>2, <2>3, <2>4, StrideInside
  <2>6. Place(Var(v)) = o .. (o + l * s - 1)
    BY <1>1, <1>2, <1>3, <1>4, <1>6, <2>1 DEF Place
  <2>7. Extent(n) = 0 .. (InitialStack - 1)
    BY <1>6 DEF Extent
  <2>8. c - 0 = c
    BY <2>4
  <2>9. c \in o .. (o + l * s - 1) /\ c \in 0 .. (InitialStack - 1)
    BY <1>3, <2>1, <2>4, <2>5
  <2>. QED
    BY <2>3, <2>4, <2>6, <2>7, <2>8, <2>9
<1>7. CASE n # 0
  <2>1. n \in 1 .. Running
    BY <1>7
  <2>2. PICK e \in Nat : e = End(n)
    BY <2>1, RunningFrame
  <2>3. PICK b \in Nat : b = cstack[n].base
    BY <2>1, RunningFrame
  <2>4. PICK need \in Nat : need = Procedures[cstack[n].proc].stackneeded /\ e = b + need
    BY <2>1, <2>2, <2>3, RunningFrame
  <2>5. PICK args \in Nat : args = Procedures[cstack[n].proc].args /\ 4 * args <= need
    BY <2>1, <2>4, RunningFrame, FrameHolds DEF ArgSize
  <2>6. Extent(n) = b .. (e - 1) /\ Origin(n) = e
    BY <1>7, <2>2, <2>3 DEF Extent, Origin
  <2>7. CASE l = 0
    <3>1. s = 1 /\ o \in 1 .. args /\ i = 0
      BY <1>2, <1>3, <1>4, <1>5, <1>7, <2>5, <2>7, OwnedLaid DEF IsArgument
    <3>2. Home(n, v) = e - 4 * o + 1
      BY <1>2, <1>3, <1>7, <2>2, <2>7 DEF Home, IsArgument, ArgSize
    <3>3. Spot(n, v, i) = e - 4 * o + 1
      BY <1>3, <1>4, <2>2, <3>1, <3>2 DEF Spot
    <3>4. c = e - 4 * o + 1
      BY <1>3, <1>4, <2>2, <3>1, <3>3 DEF Span
    <3>5. Place(Var(v)) = (0 - 4 * o) .. (0 - 4 * o + 4 - 1)
      BY <1>1, <1>2, <1>3, <1>7, <2>7 DEF Place, ArgSize
    <3>6. c \in Int /\ c \in b .. (e - 1) /\ c - e \in (0 - 4 * o) .. (0 - 4 * o + 4 - 1)
      BY <2>4, <2>5, <3>1, <3>4
    <3>7. c \in Extent(n) /\ c - Origin(n) \in Place(Var(v))
      BY <2>6, <3>5, <3>6
    <3>. QED
      BY <2>6, <3>2, <3>4, <3>6, <3>7
  <2>8. CASE l # 0
    <3>1. 4 * args <= o - l * s /\ o <= need /\ i \in 0 .. (l - 1)
      BY <1>2, <1>3, <1>4, <1>5, <1>7, <2>4, <2>5, <2>8, OwnedLaid DEF IsArgument, ArgSize
    <3>2. Home(n, v) = e - o
      BY <1>2, <1>3, <1>7, <2>2, <2>8 DEF Home, IsArgument
    <3>3. c \in (e - o + i * s) .. (e - o + i * s + s - 1)
      BY <1>4, <3>2 DEF Span, Spot
    <3>4. c \in Int /\ e - o \in Int
      BY <1>3, <1>4, <1>5, <2>2, <3>3
    <3>5. e - o <= c /\ c <= e - o + l * s - 1 /\ l * s \in Int
      BY <1>2, <3>1, <3>3, <3>4, StrideInside
    <3>6. Place(Var(v)) = (0 - o) .. (0 - o + l * s - 1)
      BY <1>1, <1>2, <1>3, <1>4, <1>7, <2>8 DEF Place
    <3>7. PICK f \in Int : f = l * s
      BY <3>5
    <3>8. c \in b .. (e - 1) /\ c - e \in (0 - o) .. (0 - o + f - 1)
      BY <2>4, <2>5, <3>1, <3>4, <3>5, <3>7
    <3>9. c \in Extent(n) /\ c - Origin(n) \in Place(Var(v))
      BY <2>6, <3>6, <3>7, <3>8
    <3>. QED
      BY <2>6, <3>2, <3>4, <3>9
  <2>. QED
    BY <2>7, <2>8
<1>. QED
  BY <1>6, <1>7

(* No two elements that live have a cell in common. *)
LEMMA SpansApart ==
  ASSUME Controlled, Ordered,
         NEW m \in 0 .. Running, NEW u \in Owned(Scope(m)), NEW i \in Room(u),
         NEW n \in 0 .. Running, NEW v \in Owned(Scope(n)), NEW j \in Room(v),
         NEW c, c \in Span(m, u, i), c \in Span(n, v, j)
  PROVE  m = n /\ u = v /\ i = j
<1>1. /\ c \in Int /\ c \in Extent(m) /\ c - Origin(m) \in Place(Var(u))
      /\ Home(m, u) \in Int
  BY SpanPlaced
<1>2. c \in Extent(n) /\ c - Origin(n) \in Place(Var(v))
  BY SpanPlaced
<1>3. m = n
  BY <1>1, <1>2, ExtentsApart
<1>4. u = v
  <2>1. CellsOfItsOwn(program) /\ DOMAIN Variables = DOMAIN program.var
    BY FrameScope, ProgramsVerified DEF WellFormed, Variables
  <2>2. /\ u \in DOMAIN Variables /\ ~Var(u).read /\ ~Var(u).write /\ Var(u).scope = Scope(m)
        /\ v \in DOMAIN Variables /\ ~Var(v).read /\ ~Var(v).write /\ Var(v).scope = Scope(m)
    BY <1>3, OwnedLaid
  <2>3. u # v => Place(Var(u)) \cap Place(Var(v)) = {}
    BY <2>1, <2>2 DEF CellsOfItsOwn, Var, Variables
  <2>. QED
    BY <1>1, <1>2, <1>3, <2>3
<1>5. i = j
  <2>1. Size(u) \in {1, 2} /\ Var(u).length \in Nat
    BY OwnedLaid
  <2>2. i \in Nat /\ j \in Nat
    BY <1>4, <2>1, RoomHas
  <2>3. /\ c \in (Home(m, u) + i * Size(u)) .. (Home(m, u) + i * Size(u) + Size(u) - 1)
        /\ c \in (Home(m, u) + j * Size(u)) .. (Home(m, u) + j * Size(u) + Size(u) - 1)
    BY <1>3, <1>4 DEF Span, Spot
  <2>. QED
    BY <1>1, <2>1, <2>2, <2>3, Strides
<1>. QED
  BY <1>3, <1>4, <1>5

(* A frame with a local is not empty, so no other frame ends where it does. *)
LEMMA OwnerFound ==
  ASSUME Controlled, Ordered, NEW v \in DOMAIN Variables, Var(v).length > 0, ~IsGlobal(v),
         NEW n \in Nat, n - 1 <= Running, NEW j \in 1 .. (n - 1), NEW ptr,
         cstack[j].proc = Var(v).scope, ptr = End(j) - Var(v).offset
  PROVE  Owner(n, v, ptr) = j
<1>1. Running \in Int
  BY LenProperties DEF Running, Depth, Controlled, IInv, Grounded
<1>2. ASSUME NEW k \in 1 .. (n - 1), cstack[k].proc = Var(v).scope
      PROVE  /\ k \in 1 .. Running /\ k \in 1 .. Depth
             /\ End(k) \in Nat /\ cstack[k].base \in Nat /\ cstack[k].base < End(k)
  <2>1. k \in 1 .. Running
    BY <1>1
  <2>2. /\ program \in Programs /\ k \in 1 .. Depth
        /\ End(k) \in Nat /\ cstack[k].base \in Nat
        /\ End(k) = cstack[k].base + Procedures[cstack[k].proc].stackneeded
        /\ cstack[k].proc \in Procs
    BY <2>1, RunningFrame
  <2>3. PICK need \in Nat : need = Procedures[Var(v).scope].stackneeded
    BY <1>2, <2>2, FrameHolds
  <2>4. PICK o \in Int : o = Var(v).offset
    BY <2>2, VariablesLaid
  <2>5. PICK l \in Nat \ {0} : l = Var(v).length
    BY <2>2, VariablesLaid
  <2>6. PICK s \in {1, 2} : s = Size(v)
    BY <2>2, VariablesLaid
  <2>7. PICK args \in Nat : args = Procedures[Var(v).scope].args
    BY <1>2, <2>2, FrameHolds
  <2>8. 4 * args <= o - l * s /\ o <= need
    BY <2>2, <2>3, <2>4, <2>5, <2>6, <2>7, VariablesLaid DEF IsArgument, ArgSize
  <2>9. l * s > 0
    BY <2>5, <2>6
  <2>10. need > 0
    BY <2>3, <2>4, <2>5, <2>6, <2>7, <2>8, <2>9
  <2>. QED
    BY <1>2, <2>1, <2>2, <2>3, <2>10
<1>3. ASSUME NEW k \in 1 .. (n - 1), NEW h \in 1 .. (n - 1), k < h,
             cstack[k].proc = Var(v).scope, cstack[h].proc = Var(v).scope
      PROVE  End(k) < End(h)
  <2>1. End(k) <= cstack[h].base
    BY <1>2, <1>3 DEF Ordered
  <2>. QED
    BY <1>2, <1>3, <2>1
<1>4. Var(v).offset \in Int
  BY VariablesLaid DEF Controlled, IInv, Grounded
<1>5. ASSUME NEW k \in 1 .. (n - 1), cstack[k].proc = Var(v).scope,
             ptr = End(k) - Var(v).offset
      PROVE  k = j
  <2>1. End(k) \in Nat /\ End(j) \in Nat
    BY <1>2, <1>5
  <2>2. End(k) = End(j)
    BY <1>4, <1>5, <2>1
  <2>3. ~(k < j) /\ ~(j < k)
    BY <1>3, <1>5, <2>1, <2>2
  <2>. QED
    BY <2>3
<1>6. Owner(n, v, ptr) = CHOOSE k \in 1 .. (n - 1) :
         cstack[k].proc = Var(v).scope /\ ptr = End(k) - Var(v).offset
  BY DEF Owner
<1>. QED
  BY <1>5, <1>6

(* What a reference is to: an element that lives, in the frame of a        *)
(* procedure further down or of the one that resolved it.                  *)
LEMMA TargetLives ==
  ASSUME Controlled, Ordered, NEW n \in Nat \ {0}, n - 1 <= Running, NEW r, Refers(n, r),
         ~Var(r.val).read, ~Var(r.val).write
  PROVE  \E j \in 0 .. (n - 1) :
           /\ j \in 0 .. Running /\ r.val \in Owned(Scope(j)) /\ r.index \in Room(r.val)
           /\ ~IsArgument(r.val) /\ r.ptr = Home(j, r.val)
           /\ Element(r) = Span(j, r.val, r.index)
           /\ \A m \in Nat : n <= m /\ m - 1 <= Running => Owner(m, r.val, r.ptr) = j
<1>1. /\ r.val \in DOMAIN Variables /\ program \in Programs
      /\ Var(r.val).length \in Nat /\ Size(r.val) \in {1, 2} /\ Var(r.val).offset \in Int
  BY VariablesLaid DEF Refers, Controlled, IInv, Grounded
<1>2. PICK l \in Nat : l = Var(r.val).length
  BY <1>1
<1>3. r.index \in 0 .. (l - 1)
  BY <1>2 DEF Refers
<1>4. r.index \in Nat /\ l > 0
  BY <1>2, <1>3
<1>5. ~IsArgument(r.val) /\ r.index \in Room(r.val)
  BY <1>2, <1>3, <1>4 DEF IsArgument, Room
<1>6. Running \in Int
  BY LenProperties DEF Running, Depth, Controlled, IInv, Grounded
<1>7. ASSUME NEW j \in 0 .. Running, r.ptr = Home(j, r.val), r.ptr \in Int
      PROVE  Element(r) = Span(j, r.val, r.index)
  <2>1. PICK s \in {1, 2} : s = Size(r.val)
    BY <1>1
  <2>2. PICK i \in Nat : i = r.index
    BY <1>4
  <2>3. PICK q \in Int : q = r.ptr
    BY <1>7
  <2>4. q + (i + 1) * s - 1 = q + i * s + s - 1
    <3>1. CASE s = 1
      BY <3>1
    <3>2. CASE s = 2
      BY <3>2
    <3>. QED
      BY <3>1, <3>2
  <2>. QED
    BY <1>7, <2>1, <2>2, <2>3, <2>4 DEF Element, Span, Spot
<1>8. CASE IsGlobal(r.val)
  <2>1. r.val \in Owned(Scope(0)) /\ 0 \in 0 .. Running /\ 0 \in 0 .. (n - 1)
    <3>1. 0 <= Running
      BY LenProperties DEF Running, Depth, Controlled, IInv, Grounded
    <3>. QED
      BY <1>1, <1>6, <1>8, <3>1 DEF Owned, Scope, IsGlobal
  <2>2. r.ptr = Home(0, r.val) /\ r.ptr \in Int
    BY <1>1, <1>8 DEF Refers, Home
  <2>3. \A m : Owner(m, r.val, r.ptr) = 0
    BY <1>8 DEF Owner
  <2>. QED
    BY <1>5, <1>7, <2>1, <2>2, <2>3
<1>9. CASE ~IsGlobal(r.val)
  <2>1. PICK j \in 1 .. (n - 1) :
          cstack[j].proc = Var(r.val).scope /\ r.ptr = End(j) - Var(r.val).offset
    BY <1>9 DEF Refers
  <2>2. j \in 1 .. Running /\ j \in 0 .. Running /\ j \in 0 .. (n - 1) /\ j # 0
    BY <1>6
  <2>3. Scope(j) = Var(r.val).scope /\ r.ptr = Home(j, r.val)
    BY <1>5, <2>1, <2>2 DEF Scope, Home
  <2>4. r.val \in Owned(Scope(j))
    BY <1>1, <2>3 DEF Owned
  <2>5. r.ptr \in Int
    BY <1>1, <2>1, <2>2, RunningFrame
  <2>6. ASSUME NEW m \in Nat, n <= m, m - 1 <= Running
        PROVE  Owner(m, r.val, r.ptr) = j
    <3>1. j \in 1 .. (m - 1)
      BY <2>6
    <3>2. Var(r.val).length > 0
      BY <1>2, <1>4
    <3>. QED
      BY <1>1, <1>9, <2>1, <2>6, <3>1, <3>2, OwnerFound
  <2>. QED
    BY <1>5, <1>7, <2>2, <2>3, <2>4, <2>5, <2>6
<1>. QED
  BY <1>8, <1>9

-----------------------------------------------------------------------------
(* The state of CallByReference that the machine stands for.               *)

Elements(n, p) == UNION {{<<n, v, i>> : i \in Room(v)} : v \in Owned(p)}
Value(e)       == ValueOf(e[1], e[2], e[3])
Pairs          == {<<e, Value(e)>> : e \in Living}
InMemoryAll    == UNION {Owned(p) : p \in Procs \cup {0}}
Shapes         == [v \in InMemoryAll |-> [scope |-> Var(v).scope, length |-> Var(v).length]]
Arguments(p)   == {u \in Owned(p) : IsArgument(u)}
Frames         == [n \in 1 .. Running |->
                     [proc |-> cstack[n].proc,
                      refs |-> [v \in Arguments(cstack[n].proc) |-> Referred(n, v)]]]

LEMMA CallsOwned ==
  ASSUME NEW p \in Procs \cup {0}
  PROVE  Calls!Owned(p) = Owned(p)
BY DEF Calls!Owned, Owned

LEMMA CallsArguments ==
  ASSUME NEW p \in Procs \cup {0}
  PROVE  Calls!Args(p) = Arguments(p)
BY DEF Calls!Args, Calls!Owned, Owned, Arguments, IsArgument

LEMMA CallsElements ==
  ASSUME NEW n, NEW p \in Procs \cup {0}
  PROVE  Calls!Elements(n, p) = Elements(n, p)
<1>1. Calls!Owned(p) = Owned(p)
  BY CallsOwned
<1>2. ASSUME NEW v \in Owned(p) PROVE Calls!Room(v) = Room(v)
  BY DEF Calls!Room, Room, IsArgument, Owned
<1>. QED
  BY <1>1, <1>2 DEF Calls!Elements, Elements

LEMMA LivingElements == Living = UNION {Elements(n, Scope(n)) : n \in 0 .. Running}
BY DEF Living, Elements, Scope

LEMMA LivesWhere ==
  ASSUME NEW e
  PROVE  e \in Living <=>
           \E n \in 0 .. Running : \E v \in Owned(Scope(n)) : \E i \in Room(v) : e = <<n, v, i>>
BY DEF Living, Scope

(* What the procedure that runs can name. *)
LEMMA NamesGlobal ==
  ASSUME NEW n, NEW f, NEW v \in Owned(0), NEW i \in Room(v)
  PROVE  <<0, v, i>> \in Calls!Writable(n, f)
<1>1. <<0, v, i>> \in Elements(0, 0)
  BY DEF Elements
<1>2. Calls!Elements(0, 0) = Elements(0, 0)
  BY CallsElements
<1>. QED
  BY <1>1, <1>2 DEF Calls!Writable

LEMMA NamesOwn ==
  ASSUME NEW n, NEW f, f.proc \in Procs, NEW v \in Owned(f.proc), NEW i \in Room(v)
  PROVE  <<n, v, i>> \in Calls!Writable(n, f)
<1>1. <<n, v, i>> \in Elements(n, f.proc)
  BY DEF Elements
<1>2. Calls!Elements(n, f.proc) = Elements(n, f.proc)
  BY CallsElements
<1>. QED
  BY <1>1, <1>2 DEF Calls!Writable

LEMMA NamesPassed ==
  ASSUME NEW n, NEW f, NEW a \in DOMAIN f.refs, NEW j, NEW u \in InMemoryAll, u # 0, NEW i,
         f.refs[a] = <<j, u, i>>, NEW k \in i .. (Var(u).length - 1)
  PROVE  <<j, u, k>> \in Calls!Writable(n, f)
<1>1. <<j, u, i>> # <<0, 0, 0>>
  OBVIOUS
<1>2. a \in Calls!Referring(f)
  BY <1>1 DEF Calls!Referring, Calls!NoElement
<1>3. <<j, u, k>> \in Calls!Rest(f.refs[a])
  BY DEF Calls!Rest, InMemoryAll
<1>. QED
  BY <1>2, <1>3 DEF Calls!Writable

LEMMA FrameOnTop ==
  ASSUME Live, NEW f, f = Frames[Depth]
  PROVE  /\ f.proc = cstack[Depth].proc /\ f.proc \in Procs /\ f.proc = Scope(Depth)
         /\ DOMAIN f.refs = Arguments(f.proc)
         /\ \A v \in Arguments(f.proc) : f.refs[v] = Referred(Depth, v)
<1>1. /\ Depth \in Nat /\ Depth > 0 /\ Running = Depth /\ cstack[Depth].proc \in Procs
  BY Frame
<1>2. f = [proc |-> cstack[Depth].proc,
           refs |-> [v \in Arguments(cstack[Depth].proc) |-> Referred(Depth, v)]]
  BY <1>1 DEF Frames
<1>. QED
  BY <1>1, <1>2 DEF Scope

(* The reference r is to the element k of variable v of frame n, which the *)
(* procedure that runs can name.                                           *)
Denotes(r, n, v, k) ==
  /\ n \in 0 .. Depth /\ v \in Owned(Scope(n)) /\ k \in Room(v)
  /\ Element(r) = Span(n, v, k)
  /\ <<n, v, k>> \in Calls!Writable(Depth, Frames[Depth])

(* An operand that resolves to memory is to an element that the procedure  *)
(* can name; and if it is not the number an argument was given, that is    *)
(* what a reference kept in the next frame is to.                          *)
LEMMA ResolvesToNamed ==
  ASSUME Live, NEW o, ElementOf(program, cstack[Depth].proc, o),
         NEW i, i.status \in Statuses, i.value \in Int, NEW dest \in BOOLEAN,
         NEW r, r = At(o, i, dest), r.status = "ACTIVE", r.kind = "var", ~Wraps(o, r),
         ~Var(r.val).read, ~Var(r.val).write
  PROVE  \E n \in 0 .. Depth : \E v \in Owned(Scope(n)) : \E k \in Room(v) :
           /\ Denotes(r, n, v, k)
           /\ ~dest => /\ ~IsArgument(v) /\ r.val = v /\ r.index = k
                       /\ Owner(Depth + 1, r.val, r.ptr) = n
<1>1. /\ program \in Programs /\ Depth \in Nat /\ Depth > 0 /\ Running = Depth
      /\ cstack[Depth].proc \in Procs /\ sp = End(Depth) /\ sp \in Nat
      /\ Controlled /\ Ordered
  BY Frame DEF Live
<1>2. /\ o.val \in DOMAIN Variables
      /\ Var(o.val).scope \in {0, cstack[Depth].proc}
  BY DEF ElementOf, Nameable, Variables, Var
<1>3. PICK f : f = Frames[Depth]
  OBVIOUS
<1>4. /\ f.proc = cstack[Depth].proc /\ f.proc \in Procs /\ f.proc = Scope(Depth)
      /\ DOMAIN f.refs = Arguments(f.proc)
      /\ \A v \in Arguments(f.proc) : f.refs[v] = Referred(Depth, v)
  BY <1>3, FrameOnTop
<1>5. ASSUME Refers(Depth + 1, r)
      PROVE  \E j \in 0 .. Depth :
               /\ r.val \in Owned(Scope(j)) /\ r.index \in Room(r.val)
               /\ ~IsArgument(r.val) /\ Element(r) = Span(j, r.val, r.index)
               /\ Owner(Depth + 1, r.val, r.ptr) = j
  <2>1. PICK n \in Nat \ {0} : n = Depth + 1
    BY <1>1
  <2>2. n - 1 <= Running /\ n - 1 = Depth
    BY <1>1, <2>1
  <2>3. Refers(n, r)
    BY <1>5, <2>1
  <2>4. PICK j \in 0 .. (n - 1) :
           /\ j \in 0 .. Running /\ r.val \in Owned(Scope(j)) /\ r.index \in Room(r.val)
           /\ ~IsArgument(r.val) /\ r.ptr = Home(j, r.val)
           /\ Element(r) = Span(j, r.val, r.index)
           /\ \A m \in Nat : n <= m /\ m - 1 <= Running => Owner(m, r.val, r.ptr) = j
    BY <1>1, <2>2, <2>3, TargetLives
  <2>5. Owner(n, r.val, r.ptr) = j
    BY <2>1, <2>2, <2>4
  <2>. QED
    BY <2>1, <2>2, <2>4, <2>5
<1>6. CASE ~IsArgument(o.val)
  <2>1. r = IF i.value \in 0 .. (Var(o.val).length - 1)
              THEN RefTo(o.val, i.value, GetPtr(o.val))
              ELSE Unresolved("OUT_OF_RANGE")
    BY <1>6 DEF At, Unresolved
  <2>2. /\ i.value \in 0 .. (Var(o.val).length - 1)
        /\ r = [status |-> "ACTIVE", kind |-> "var", val |-> o.val,
                index |-> i.value, ptr |-> GetPtr(o.val)]
    BY <2>1 DEF RefTo, Unresolved
  <2>3. r.val = o.val /\ r.index = i.value /\ r.ptr = GetPtr(o.val)
    BY <2>2
  <2>4. Refers(Depth + 1, r)
    <3>1. CASE IsGlobal(o.val)
      BY <1>2, <2>2, <2>3, <3>1 DEF Refers, GetPtr
    <3>2. CASE ~IsGlobal(o.val)
      <4>1. Var(o.val).scope = cstack[Depth].proc
        BY <1>2, <3>2 DEF IsGlobal
      <4>2. r.ptr = End(Depth) - Var(o.val).offset
        BY <1>1, <2>3, <3>2 DEF GetPtr
      <4>3. Depth \in 1 .. (Depth + 1 - 1)
        BY <1>1
      <4>. QED
        BY <1>2, <2>2, <2>3, <3>2, <4>1, <4>2, <4>3 DEF Refers
    <3>. QED
      BY <3>1, <3>2
  <2>5. PICK j \in 0 .. Depth :
           /\ r.val \in Owned(Scope(j)) /\ r.index \in Room(r.val)
           /\ ~IsArgument(r.val) /\ Element(r) = Span(j, r.val, r.index)
           /\ Owner(Depth + 1, r.val, r.ptr) = j
    BY <1>5, <2>4
  <2>6. <<j, r.val, r.index>> \in Calls!Writable(Depth, f)
    <3>1. CASE j = 0
      BY <2>5, <3>1, NamesGlobal DEF Scope
    <3>2. CASE j # 0
      <4>1. ~IsGlobal(o.val)
        BY <1>1, <2>3, <2>5, <3>2, OwnedLaid
      <4>2. Var(o.val).scope = cstack[Depth].proc
        BY <1>2, <4>1 DEF IsGlobal
      <4>3. r.ptr = End(Depth) - Var(r.val).offset
        BY <1>1, <2>3, <4>1 DEF GetPtr
      <4>4. Var(r.val).length > 0
        BY <1>1, <1>2, <1>6, <2>3, VariablesLaid DEF IsArgument
      <4>5. j = Depth
        <5>1. PICK n \in Nat : n = Depth + 1
          BY <1>1
        <5>2. n - 1 <= Running /\ Depth \in 1 .. (n - 1)
          BY <1>1, <5>1
        <5>3. Owner(n, r.val, r.ptr) = Depth
          BY <1>1, <1>2, <2>3, <4>1, <4>2, <4>3, <4>4, <5>2, OwnerFound
        <5>. QED
          BY <2>5, <5>1, <5>3
      <4>. QED
        BY <1>4, <2>5, <4>5, NamesOwn
    <3>. QED
      BY <3>1, <3>2
  <2>. QED
    BY <1>3, <2>5, <2>6 DEF Denotes
<1>7. CASE IsArgument(o.val)
  <2>1. Var(o.val).scope = cstack[Depth].proc
    BY <1>1, <1>2, <1>7, VariablesLaid DEF IsGlobal, IsArgument
  <2>2. PICK a : a = Arg(o.val)
    OBVIOUS
  <2>3. /\ ~IsGlobal(o.val) /\ ~Var(o.val).read /\ ~Var(o.val).write /\ Size(o.val) = 1
        /\ Var(o.val).offset \in 1 .. Procedures[cstack[Depth].proc].args
        /\ ArgAt(Var(o.val).offset) = End(Depth) - ArgSize * Var(o.val).offset
        /\ ArgAt(Var(o.val).offset) \in Int
        /\ a.kind \in {"imm", "var"}
        /\ a.val \in Int /\ a.index \in Int /\ a.ptr \in Int
        /\ a.kind = "var" <=> SlotOf(Depth, Var(o.val).offset).kind = 1
        /\ a.kind = "var" => Refers(Depth, a) /\ Passed(a.val)
    BY <1>2, <1>7, <2>1, <2>2, ArgumentSlot
  <2>4. PICK index \in Int : index = Wrapped(i.value + a.index)
    <3>1. i.value + a.index \in Int
      BY <2>3
    <3>. QED
      BY <3>1, WrapsToInt
  <2>5. r = IF a.kind = "var"
              THEN IF i.value < 0 \/ Beyond(a.val, index)
                     THEN Unresolved("OUT_OF_RANGE") ELSE RefTo(a.val, index, a.ptr)
            ELSE IF i.value # 0 THEN Unresolved("OUT_OF_RANGE")
            ELSE IF dest THEN RefTo(o.val, 0, ArgAt(Var(o.val).offset) + 1)
            ELSE Immediate(a.val)
    BY <1>7, <2>2, <2>4 DEF At, Unresolved
  <2>6. r # Unresolved("OUT_OF_RANGE") /\ r # Immediate(a.val)
    BY DEF Unresolved, Immediate
  <2>7. o.val \in Owned(f.proc) /\ o.val \in Arguments(f.proc)
    BY <1>2, <1>4, <1>7, <2>1, <2>3 DEF Owned, Arguments
  <2>8. CASE a.kind = "var" /\ i.value >= 0 /\ ~Beyond(a.val, index) /\ r = RefTo(a.val, index, a.ptr)
    <3>1. Refers(Depth, a)
      BY <2>3, <2>8
    <3>2. PICK length \in Nat : length = Var(a.val).length
      BY <1>1, <3>1, VariablesLaid DEF Refers
    <3>3. r.val = a.val /\ r.index = index /\ r.ptr = a.ptr
      BY <2>8 DEF RefTo
    <3>4. index \in 0 .. (length - 1) /\ index \in a.index .. (length - 1)
      <4>1. a.index >= 0 /\ index <= length - 1
        BY <2>8, <3>1, <3>2 DEF Refers, Beyond
      <4>2. ~(index < a.index)
        BY <1>7, <2>2, <2>8, <3>3 DEF Wraps
      <4>. QED
        BY <2>3, <2>4, <3>2, <4>1, <4>2
    <3>5. Refers(Depth + 1, r)
      BY <1>1, <3>1, <3>2, <3>3, <3>4, RefersStill
    <3>6. PICK j \in 0 .. Depth :
             /\ r.val \in Owned(Scope(j)) /\ r.index \in Room(r.val)
             /\ ~IsArgument(r.val) /\ Element(r) = Span(j, r.val, r.index)
             /\ Owner(Depth + 1, r.val, r.ptr) = j
      BY <1>5, <3>5
    <3>7. Owner(Depth, a.val, a.ptr) = j
      <4>1. Depth \in Nat \ {0} /\ Depth - 1 <= Running /\ Depth <= Depth
            /\ Depth <= Depth + 1 /\ (Depth + 1) - 1 <= Running /\ Depth + 1 \in Nat
        BY <1>1
      <4>2. PICK h \in 0 .. (Depth - 1) :
              \A m \in Nat : Depth <= m /\ m - 1 <= Running => Owner(m, a.val, a.ptr) = h
        <5>1. ~Var(a.val).read /\ ~Var(a.val).write
          BY <3>3
        <5>. QED
          BY <1>1, <3>1, <4>1, <5>1, TargetLives
      <4>3. Owner(Depth, a.val, a.ptr) = h /\ Owner(Depth + 1, a.val, a.ptr) = h
        BY <4>1, <4>2
      <4>. QED
        BY <3>3, <3>6, <4>3
    <3>8. a.val \in InMemoryAll /\ a.val # 0
      <4>1. Scope(j) \in Procs \cup {0}
        BY <1>1, <3>6, FrameScope
      <4>2. a.val \in Nat \ {0}
        BY <1>1, <3>3, <3>6, OwnedLaid
      <4>. QED
        BY <3>3, <3>6, <4>1, <4>2 DEF InMemoryAll
    <3>9. f.refs[o.val] = <<j, a.val, a.index>>
      <4>1. PICK s : s = SlotOf(Depth, Var(o.val).offset)
        OBVIOUS
      <4>2. s.kind = 1
        BY <2>3, <2>8, <4>1
      <4>3. s.val = a.val /\ s.index = a.index /\ s.ptr = a.ptr
        BY <2>2, <2>3, <4>1 DEF SlotOf, Arg
      <4>4. Referred(Depth, o.val) = <<Owner(Depth, a.val, a.ptr), a.val, a.index>>
        BY <3>8, <4>1, <4>2, <4>3 DEF Referred, InMemoryAll
      <4>. QED
        BY <1>4, <2>7, <3>7, <4>4
    <3>10. <<j, a.val, index>> \in Calls!Writable(Depth, f)
      BY <1>4, <2>7, <3>2, <3>4, <3>8, <3>9, NamesPassed
    <3>. QED
      BY <1>3, <3>3, <3>6, <3>10 DEF Denotes
  <2>9. CASE a.kind = "imm" /\ dest /\ r = RefTo(o.val, 0, ArgAt(Var(o.val).offset) + 1)
    <3>1. r.val = o.val /\ r.index = 0 /\ r.ptr = ArgAt(Var(o.val).offset) + 1
      <4>1. r = [status |-> "ACTIVE", kind |-> "var", val |-> o.val, index |-> 0,
                 ptr |-> ArgAt(Var(o.val).offset) + 1]
        BY <2>9 DEF RefTo
      <4>. QED
        BY <4>1
    <3>2. 0 \in Room(o.val) /\ Depth \in 0 .. Depth /\ Depth # 0
      BY <1>1, <1>7 DEF Room
    <3>3. Home(Depth, o.val) = r.ptr /\ r.ptr \in Int
      BY <1>7, <2>3, <3>1, <3>2 DEF Home
    <3>4. Element(r) = Span(Depth, o.val, 0)
      BY <2>3, <3>1, <3>3 DEF Element, Span, Spot
    <3>5. <<Depth, o.val, 0>> \in Calls!Writable(Depth, f)
      BY <1>4, <2>7, <3>2, NamesOwn
    <3>6. Denotes(r, Depth, o.val, 0)
      BY <1>3, <1>4, <2>7, <3>2, <3>4, <3>5 DEF Denotes
    <3>. QED
      BY <1>4, <2>7, <2>9, <3>2, <3>6
  <2>. QED
    BY SMTT(60), <2>3, <2>4, <2>5, <2>6, <2>8, <2>9
<1>. QED
  BY <1>6, <1>7

-----------------------------------------------------------------------------
(* What a change of memory changes of that state.                          *)

LEMMA HomeIsInt ==
  ASSUME Controlled, Ordered, NEW n \in 0 .. Running, NEW v \in Owned(Scope(n))
  PROVE  Home(n, v) \in Int
<1>1. PICK o \in Int : o = Var(v).offset
  BY OwnedLaid
<1>2. CASE n = 0
  BY <1>1, <1>2 DEF Home
<1>3. CASE n # 0
  <2>1. n \in 1 .. Running
    BY <1>3
  <2>2. PICK e \in Nat : e = End(n)
    BY <2>1, RunningFrame
  <2>. QED
    BY <1>1, <1>3, <2>2 DEF Home, ArgSize
<1>. QED
  BY <1>2, <1>3

LEMMA ExtentInMemory ==
  ASSUME Controlled, Ordered, NEW n \in 0 .. Running, NEW c \in Extent(n),
         n = 0 => InitialStack <= StackSize
  PROVE  c \in Address
<1>1. CASE n = 0
  <2>1. InitialStack \in Nat /\ StackSize \in Nat
    BY FrameScope, Verified
  <2>. QED
    BY <1>1, <2>1 DEF Extent, Address
<1>2. CASE n # 0
  <2>1. n \in 1 .. Running
    BY <1>2
  <2>2. /\ cstack[n].base \in Nat /\ End(n) \in Nat
        /\ End(n) <= sp /\ sp \in Nat /\ sp <= StackSize /\ StackSize \in Nat
    BY <2>1, RunningFrame
  <2>. QED
    BY <1>2, <2>2 DEF Extent, Address
<1>. QED
  BY <1>1, <1>2

(* The first cell of an element. *)
LEMMA SpotInside ==
  ASSUME Controlled, Ordered, NEW n \in 0 .. Running, NEW v \in Owned(Scope(n)),
         NEW i \in Room(v)
  PROVE  /\ Spot(n, v, i) \in Span(n, v, i) /\ Spot(n, v, i) \in Extent(n)
         /\ Spot(n, v, i) \in Int
<1>1. PICK h \in Int : h = Home(n, v)
  BY HomeIsInt
<1>2. PICK s \in {1, 2} : s = Size(v)
  BY OwnedLaid
<1>3. i \in Nat
  BY OwnedLaid, RoomHas
<1>4. PICK c \in Int : c = Spot(n, v, i)
  <2>1. CASE s = 1
    BY <1>1, <1>2, <1>3, <2>1 DEF Spot
  <2>2. CASE s = 2
    BY <1>1, <1>2, <1>3, <2>2 DEF Spot
  <2>. QED
    BY <2>1, <2>2
<1>5. c \in Span(n, v, i)
  BY <1>2, <1>4 DEF Span
<1>. QED
  BY <1>4, <1>5, SpanPlaced

(* No element has the cell of a slot that says what the argument is. *)
LEMMA KindApart ==
  ASSUME Controlled, Ordered, NEW n \in 0 .. Running, NEW v \in Owned(Scope(n)),
         NEW i \in Room(v), NEW m \in 1 .. Running,
         NEW k \in 1 .. Procedures[cstack[m].proc].args
  PROVE  End(m) - ArgSize * k \notin Span(n, v, i)
<1>1. PICK c : c = End(m) - ArgSize * k
  OBVIOUS
<1>2. SUFFICES ASSUME c \in Span(n, v, i) PROVE FALSE
  BY <1>1
<1>3. /\ c \in Extent(n) /\ c - Origin(n) \in Place(Var(v))
  BY <1>2, SpanPlaced
<1>4. /\ m # 0 /\ m \in 0 .. Running /\ m \in 1 .. Depth /\ Depth \in Nat
      /\ cstack[m].proc \in Procs /\ program \in Programs
  BY RunningFrame
<1>5. PICK e \in Nat : e = End(m)
  BY RunningFrame
<1>6. PICK b \in Nat : b = cstack[m].base
  BY RunningFrame
<1>7. PICK args \in Nat : args = Procedures[cstack[m].proc].args
  BY <1>4, FrameHolds
<1>8. PICK kk \in 1 .. args : kk = k /\ c = e - 4 * kk
  BY <1>1, <1>5, <1>7 DEF ArgSize
<1>9. b <= e - 4 * kk /\ e - 4 * kk + 3 <= e - 1
  <2>1. Depth > 0
    BY <1>4
  <2>. QED
    BY <1>4, <1>5, <1>6, <1>7, <1>8, <2>1, SlotInside DEF ArgSize
<1>10. c \in Extent(m)
  BY <1>4, <1>5, <1>6, <1>8, <1>9 DEF Extent
<1>11. n = m
  BY <1>3, <1>4, <1>10, ExtentsApart
<1>12. PICK o \in Int : o = Var(v).offset
  BY OwnedLaid
<1>13. PICK l \in Nat : l = Var(v).length
  BY OwnedLaid
<1>14. PICK s \in {1, 2} : s = Size(v)
  BY OwnedLaid
<1>15. Home(n, v) \in Int /\ i \in Nat
  BY HomeIsInt, OwnedLaid, RoomHas
<1>16. CASE IsArgument(v)
  <2>1. i = 0 /\ s = 1 /\ Home(n, v) = e - 4 * o + 1
    BY <1>4, <1>5, <1>11, <1>12, <1>14, <1>16, OwnedLaid, RoomHas DEF Home, ArgSize
  <2>2. c = e - 4 * o + 1
    BY <1>2, <1>14, <1>15, <2>1 DEF Span, Spot
  <2>. QED
    BY <1>5, <1>8, <1>12, <2>2
<1>17. CASE ~IsArgument(v)
  <2>1. /\ i \in 0 .. (l - 1) /\ Home(n, v) = e - o
        /\ 4 * args <= o - l * s
    BY <1>4, <1>5, <1>7, <1>11, <1>12, <1>13, <1>14, <1>17, OwnedLaid, RoomHas
       DEF Home, ArgSize
  <2>2. c \in (e - o + i * s) .. (e - o + i * s + s - 1) /\ c \in Int
    BY <1>2, <1>5, <1>8, <1>14, <2>1 DEF Span, Spot
  <2>3. c <= e - o + l * s - 1 /\ l * s \in Int
    BY <1>5, <1>12, <1>13, <1>14, <2>1, <2>2, StrideInside
  <2>4. PICK f \in Int : f = l * s
    BY <2>3
  <2>. QED
    BY <1>5, <1>7, <1>8, <1>12, <2>1, <2>3, <2>4
<1>. QED
  BY <1>16, <1>17

(* The value of an element is in its first cell, unless it is an argument  *)
(* that is no number.                                                      *)
LEMMA ValueStays ==
  ASSUME NEW n, NEW v, NEW i, UNCHANGED program, n # 0 => cstack'[n] = cstack[n],
         IsArgument(v) => i = 0, n = 0 => ~IsArgument(v), Home(n, v) \in Int, Size(v) = 1 \/ ~IsArgument(v),
         mem'[Spot(n, v, i)] = mem[Spot(n, v, i)],
         n # 0 /\ IsArgument(v) =>
           mem'[End(n) - ArgSize * Var(v).offset] = mem[End(n) - ArgSize * Var(v).offset]
  PROVE  Value(<<n, v, i>>)' = Value(<<n, v, i>>)
<1>1. /\ Var(v)' = Var(v) /\ Size(v)' = Size(v) /\ IsArgument(v)' = IsArgument(v)
      /\ n # 0 => End(n)' = End(n)
  BY DEF Var, Variables, Size, IsFloat, IsArgument, End, Procedures
<1>2. Value(<<n, v, i>>) = ValueOf(n, v, i) /\ Value(<<n, v, i>>)' = ValueOf(n, v, i)'
  BY DEF Value
<1>3. CASE n = 0
  BY <1>1, <1>2, <1>3 DEF ValueOf, Spot, Home
<1>4. CASE n # 0 /\ ~IsArgument(v)
  BY <1>1, <1>2, <1>4 DEF ValueOf, Spot, Home
<1>5. CASE n # 0 /\ IsArgument(v)
  <2>1. PICK at : at = End(n) - ArgSize * Var(v).offset
    OBVIOUS
  <2>2. Spot(n, v, i) = at + 1
    <3>1. Home(n, v) = at + 1 /\ i = 0 /\ Size(v) = 1
      BY <1>5, <2>1 DEF Home
    <3>2. Home(n, v) + 0 * 1 = Home(n, v)
      OBVIOUS
    <3>. QED
      BY <3>1, <3>2 DEF Spot
  <2>3. /\ SlotOf(n, Var(v).offset).kind = mem[at]
        /\ SlotOf(n, Var(v).offset).val = mem[at + 1]
    BY <2>1 DEF SlotOf
  <2>4. /\ SlotOf(n, Var(v).offset)'.kind = mem'[at]
        /\ SlotOf(n, Var(v).offset)'.val = mem'[at + 1]
    BY <1>1, <1>5, <2>1 DEF SlotOf
  <2>5. ValueOf(n, v, i) = IF mem[at] = 0 THEN mem[at + 1] ELSE 0
    BY <1>5, <2>3 DEF ValueOf
  <2>6. ValueOf(n, v, i)' = IF mem'[at] = 0 THEN mem'[at + 1] ELSE 0
    BY <1>1, <1>5, <2>4 DEF ValueOf
  <2>. QED
    BY <1>2, <1>5, <2>1, <2>2, <2>5, <2>6
<1>. QED
  BY <1>3, <1>4, <1>5

(* Every slot says whether its argument is a number or a reference. *)
Kinds ==
  \A n \in 1 .. Running : \A k \in 1 .. Procedures[cstack[n].proc].args :
    SlotOf(n, k).kind \in {0, 1}

(* The frame of the variable that a reference of frame n is to stays, if   *)
(* the frames below do.                                                    *)
LEMMA OwnerStays ==
  ASSUME Controlled, Ordered, NEW n \in Nat \ {0}, n - 1 <= Running,
         NEW r, Refers(n, r), UNCHANGED program,
         \A j \in 1 .. (n - 1) : cstack'[j] = cstack[j]
  PROVE  Owner(n, r.val, r.ptr)' = Owner(n, r.val, r.ptr)
<1>1. Var(r.val)' = Var(r.val) /\ (IsGlobal(r.val)' <=> IsGlobal(r.val))
  BY DEF Var, Variables, IsGlobal
<1>2. CASE IsGlobal(r.val)
  BY <1>1, <1>2 DEF Owner
<1>3. CASE ~IsGlobal(r.val)
  <2>1. PICK j \in 1 .. (n - 1) :
          cstack[j].proc = Var(r.val).scope /\ r.ptr = End(j) - Var(r.val).offset
    BY <1>3 DEF Refers
  <2>2. Var(r.val).length > 0 /\ r.val \in DOMAIN Variables
    <3>1. r.val \in DOMAIN Variables /\ r.index \in 0 .. (Var(r.val).length - 1)
      BY DEF Refers
    <3>2. Var(r.val).length \in Nat
      BY <3>1, VariablesLaid DEF Controlled, IInv, Grounded
    <3>. QED
      BY <3>1, <3>2
  <2>3. Owner(n, r.val, r.ptr) = j
    BY <1>3, <2>1, <2>2, OwnerFound
  <2>4. \A i \in 1 .. (n - 1) : cstack'[i] = cstack[i] /\ End(i)' = End(i)
    BY DEF End, Procedures
  <2>5. Owner(n, r.val, r.ptr)' = CHOOSE i \in 1 .. (n - 1) :
          cstack'[i].proc = Var(r.val).scope /\ r.ptr = End(i)' - Var(r.val).offset
    BY <1>1, <1>3 DEF Owner
  <2>6. ASSUME NEW i \in 1 .. (n - 1), cstack'[i].proc = Var(r.val).scope,
               r.ptr = End(i)' - Var(r.val).offset
        PROVE  i = j
    <3>1. cstack[i].proc = Var(r.val).scope /\ r.ptr = End(i) - Var(r.val).offset
      BY <2>4, <2>6
    <3>2. Owner(n, r.val, r.ptr) = i
      BY <1>3, <2>2, <3>1, OwnerFound
    <3>. QED
      BY <2>3, <3>2
  <2>7. cstack'[j].proc = Var(r.val).scope /\ r.ptr = End(j)' - Var(r.val).offset
    BY <2>1, <2>4
  <2>8. Owner(n, r.val, r.ptr)' = j
    BY <2>5, <2>6, <2>7
  <2>. QED
    BY <2>3, <2>8
<1>. QED
  BY <1>2, <1>3

(* What an argument refers to, in terms of its slot. *)
LEMMA ReferredIs ==
  ASSUME NEW n, NEW a, NEW r, r = SlotOf(n, Var(a).offset)
  PROVE  Referred(n, a) = IF r.kind = 0 \/ r.val \notin InMemoryAll THEN <<0, 0, 0>>
                          ELSE <<Owner(n, r.val, r.ptr), r.val, r.index>>
BY DEF Referred, InMemoryAll

LEMMA ReferredNext ==
  ASSUME NEW n, NEW a, NEW r, r = SlotOf(n, Var(a).offset)', UNCHANGED program
  PROVE  Referred(n, a)' = IF r.kind = 0 \/ r.val \notin InMemoryAll THEN <<0, 0, 0>>
                           ELSE <<Owner(n, r.val, r.ptr)', r.val, r.index>>
<1>1. \A v : Var(v)' = Var(v)
  BY DEF Var, Variables
<1>2. InMemoryAll' = InMemoryAll
  BY <1>1 DEF InMemoryAll, Owned, Variables, Procs, Procedures
<1>3. InMemoryAll' = UNION {Owned(p)' : p \in Procs' \cup {0}}
  BY DEF InMemoryAll
<1>4. Referred(n, a)' = IF r.kind = 0 \/ r.val \notin InMemoryAll' THEN <<0, 0, 0>>
                        ELSE <<Owner(n, r.val, r.ptr)', r.val, r.index>>
  BY <1>1 DEF Referred, InMemoryAll
<1>. QED
  BY <1>2, <1>4

LEMMA ReferredStays ==
  ASSUME Controlled, Ordered, References, NEW n \in 1 .. Running,
         NEW a, NEW k \in 1 .. Procedures[cstack[n].proc].args, k = Var(a).offset,
         UNCHANGED program, \A j \in 1 .. n : cstack'[j] = cstack[j],
         SlotOf(n, k).kind \in {0, 1}, SlotOf(n, k)'.kind = SlotOf(n, k).kind,
         SlotOf(n, k).kind = 1 => SlotOf(n, k)' = SlotOf(n, k)
  PROVE  Referred(n, a)' = Referred(n, a)
<1>1. Var(a)' = Var(a)
  BY DEF Var, Variables
<1>2. PICK r : r = SlotOf(n, k)
  OBVIOUS
<1>3. PICK q : q = SlotOf(n, k)'
  OBVIOUS
<1>4. Referred(n, a) =
        IF r.kind = 0 \/ r.val \notin InMemoryAll THEN <<0, 0, 0>>
        ELSE <<Owner(n, r.val, r.ptr), r.val, r.index>>
  BY <1>2, ReferredIs
<1>5. Referred(n, a)' =
        IF q.kind = 0 \/ q.val \notin InMemoryAll THEN <<0, 0, 0>>
        ELSE <<Owner(n, q.val, q.ptr)', q.val, q.index>>
  <2>1. q = SlotOf(n, Var(a).offset)'
    BY <1>1, <1>3
  <2>. QED
    BY <2>1, ReferredNext
<1>6. CASE r.kind = 0
  BY <1>2, <1>3, <1>4, <1>5, <1>6
<1>7. CASE r.kind = 1
  <2>1. q = r /\ Refers(n, r)
    BY <1>2, <1>3, <1>7 DEF References
  <2>2. n \in Nat \ {0} /\ n - 1 <= Running
    BY RunningFrame
  <2>3. \A j \in 1 .. (n - 1) : cstack'[j] = cstack[j]
    BY <2>2
  <2>4. Owner(n, r.val, r.ptr)' = Owner(n, r.val, r.ptr)
    BY <2>1, <2>2, <2>3, OwnerStays
  <2>. QED
    BY <1>4, <1>5, <2>1, <2>4
<1>. QED
  BY <1>2, <1>6, <1>7

-----------------------------------------------------------------------------
(* Steps of CallByReference, told apart by what they leave of that state.  *)

LEMMA NamedNow == Calls!Named(Pairs) = Living
<1>1. ASSUME NEW x \in Living PROVE x \in Calls!Named(Pairs)
  <2>1. <<x, Value(x)>> \in Pairs
    BY <1>1 DEF Pairs
  <2>. QED
    BY <2>1 DEF Calls!Named
<1>2. ASSUME NEW x \in Calls!Named(Pairs) PROVE x \in Living
  <2>1. PICK p \in Pairs : x = p[1]
    BY DEF Calls!Named
  <2>. QED
    BY <2>1 DEF Pairs
<1>. QED
  BY <1>1, <1>2

LEMMA NamedNext == Calls!Named(Pairs') = Living'
<1>1. ASSUME NEW x \in Living' PROVE x \in Calls!Named(Pairs')
  <2>1. <<x, Value(x)'>> \in Pairs'
    BY <1>1 DEF Pairs
  <2>. QED
    BY <2>1 DEF Calls!Named
<1>2. ASSUME NEW x \in Calls!Named(Pairs') PROVE x \in Living'
  <2>1. PICK p \in Pairs' : x = p[1]
    BY DEF Calls!Named
  <2>. QED
    BY <2>1 DEF Pairs
<1>. QED
  BY <1>1, <1>2

LEMMA ShapesStay ==
  ASSUME UNCHANGED program
  PROVE  Shapes' = Shapes
BY DEF Shapes, InMemoryAll, Owned, Variables, Var, Procs, Procedures

(* The elements that live after a step are those of the frames after it. *)
LEMMA LiveNext ==
  ASSUME UNCHANGED program, \A n \in 1 .. Running' : cstack'[n].proc \in Procs,
         Running' \in Nat
  PROVE  Calls!Live(Frames') = Living'
<1>2. DOMAIN Frames' = 1 .. Running' /\ \A n \in 1 .. Running' : Frames'[n].proc = cstack'[n].proc
  BY DEF Frames
<1>3. \A n : \A p : Elements(n, p)' = Elements(n, p)
  BY DEF Elements, Owned, Room, IsArgument, Var, Variables
<1>4. Living' = UNION {Elements(n, IF n = 0 THEN 0 ELSE cstack'[n].proc) : n \in 0 .. Running'}
  <2>1. Living' = UNION {Elements(n, Scope(n))' : n \in 0 .. Running'}
    BY DEF Living, Elements, Scope
  <2>. QED
    BY <1>3, <2>1 DEF Scope
<1>5. Living' = Elements(0, 0) \cup UNION {Elements(n, cstack'[n].proc) : n \in 1 .. Running'}
  <2>1. 0 .. Running' = {0} \cup 1 .. Running' /\ 0 \notin 1 .. Running'
    OBVIOUS
  <2>. QED
    BY <1>4, <2>1
<1>6. /\ Calls!Elements(0, 0) = Elements(0, 0)
      /\ \A n \in 1 .. Running' : Calls!Elements(n, cstack'[n].proc) = Elements(n, cstack'[n].proc)
  BY CallsElements
<1>. QED
  BY <1>2, <1>5, <1>6 DEF Calls!Live

LEMMA LivingGlobals ==
  /\ Running = 0 => Living = Calls!Elements(0, 0) /\ Frames = <<>>
  /\ Running \in Nat => Elements(0, 0) \subseteq Living
<1>1. Calls!Elements(0, 0) = Elements(0, 0)
  BY CallsElements
<1>2. ASSUME Running = 0 PROVE Living = Elements(0, 0) /\ Frames = <<>>
  <2>1. 0 .. Running = {0} /\ 1 .. Running = {}
    BY <1>2
  <2>2. Living = Elements(0, Scope(0))
    BY <2>1, LivingElements
  <2>. QED
    BY <2>1, <2>2 DEF Scope, Frames
<1>3. ASSUME Running \in Nat PROVE Elements(0, 0) \subseteq Living
  <2>1. 0 \in 0 .. Running /\ Scope(0) = 0
    BY <1>3 DEF Scope
  <2>. QED
    BY <2>1, LivingElements
<1>. QED
  BY <1>1, <1>2, <1>3

(* The frames as a sequence. *)
LEMMA FramesSequence ==
  ASSUME Running \in Nat
  PROVE  /\ Len(Frames) = Running /\ DOMAIN Frames = 1 .. Running
         /\ Frames \in Seq({Frames[n] : n \in 1 .. Running})
         /\ Running > 0 => Frames # <<>>
<1>1. Frames \in [1 .. Running -> {Frames[n] : n \in 1 .. Running}]
  BY DEF Frames
<1>2. Len(Frames) = Running
  BY <1>1, LengthOfArguments
<1>3. Frames \in Seq({Frames[n] : n \in 1 .. Running})
  BY <1>1, SeqDef
<1>4. Running > 0 => Frames # <<>>
  BY <1>2
<1>. QED
  BY <1>1, <1>2, <1>3, <1>4

(* At most one element changed. *)
LEMMA WriteMaps ==
  ASSUME Live, UNCHANGED <<program, cstack, status>>, Frames' = Frames,
         NEW e \in Calls!Writable(Depth, Frames[Depth]),
         \A x \in Living : x # e => Value(x)' = Value(x)
  PROVE  Calls!Write /\ Shapes' = Shapes
<1>1. Depth \in Nat /\ Depth > 0 /\ Running = Depth
  BY Frame
<1>2. Living' = Living
  BY DEF Living, Owned, Room, IsArgument, Var, Variables, Running, Depth
<1>3. Frames # <<>> /\ Len(Frames) = Depth
  BY <1>1, FramesSequence
<1>4. Calls!Named(Pairs) = Living /\ Calls!Named(Pairs') = Living
  BY <1>2, NamedNow, NamedNext
<1>5. \A p \in Pairs' \ Pairs : p[1] = e
  <2>1. SUFFICES ASSUME NEW x \in Living, <<x, Value(x)'>> \notin Pairs PROVE x = e
    BY <1>2 DEF Pairs
  <2>2. Value(x)' # Value(x)
    BY <2>1 DEF Pairs
  <2>. QED
    BY <2>2
<1>6. Calls!Named(Pairs' \ Pairs) = {} \/ Calls!Named(Pairs' \ Pairs) = {e}
  BY <1>5 DEF Calls!Named
<1>7. Calls!Write
  BY <1>1, <1>3, <1>4, <1>6 DEF Calls!Write, Frames, Pairs, Value, Arguments
<1>. QED
  BY <1>7, ShapesStay

(* The run ended, and the globals are as they were. *)
LEMMA GlobalStays ==
  ASSUME Controlled, Ordered, UNCHANGED program,
         \A c \in 0 .. (InitialStack - 1) : mem'[c] = mem[c],
         NEW x \in Elements(0, 0)
  PROVE  Value(x)' = Value(x)
<1>1. PICK v \in Owned(0) : x \in {<<0, v, i>> : i \in Room(v)}
  BY DEF Elements
<1>5. PICK i \in Room(v) : x = <<0, v, i>>
  BY <1>1
<1>2. 0 \in 0 .. Running /\ Owned(Scope(0)) = Owned(0)
  BY LenProperties DEF Running, Depth, Controlled, IInv, Grounded, Scope
<1>3. /\ Spot(0, v, i) \in Extent(0) /\ Home(0, v) \in Int
      /\ ~IsArgument(v)
  BY <1>2, SpotInside, HomeIsInt, OwnedLaid DEF IsArgument
<1>4. mem'[Spot(0, v, i)] = mem[Spot(0, v, i)]
  BY <1>3 DEF Extent
<1>. QED
  BY <1>3, <1>4, <1>5, ValueStays

LEMMA StopMaps ==
  ASSUME Live, UNCHANGED program, status' # "ACTIVE",
         \A c \in 0 .. (InitialStack - 1) : mem'[c] = mem[c]
  PROVE  Calls!Stop /\ Shapes' = Shapes
<1>1. Depth \in Nat /\ Depth > 0 /\ Running = Depth
  BY Frame
<1>2. Running' = 0
  BY DEF Running
<1>3. Frames # <<>>
  BY <1>1, FramesSequence
<1>4. Frames' = <<>> /\ Living' = Elements(0, 0)
  <2>1. 0 .. Running' = {0} /\ 1 .. Running' = {}
    BY <1>2
  <2>2. \A n : \A p : Elements(n, p)' = Elements(n, p)
    BY DEF Elements, Owned, Room, IsArgument, Var, Variables
  <2>3. Living' = UNION {Elements(n, Scope(n))' : n \in 0 .. Running'}
    BY DEF Living, Elements, Scope
  <2>4. Living' = Elements(0, 0)
    BY <2>1, <2>2, <2>3 DEF Scope
  <2>. QED
    BY <2>1, <2>4 DEF Frames
<1>5. Calls!Elements(0, 0) = Elements(0, 0) /\ Elements(0, 0) \subseteq Living
  BY <1>1, CallsElements, LivingGlobals
<1>6. Calls!Named(Pairs') = Elements(0, 0)
  BY <1>4, NamedNext
<1>7. Pairs' \subseteq Pairs
  <2>1. SUFFICES ASSUME NEW x \in Living' PROVE <<x, Value(x)'>> \in Pairs
    BY DEF Pairs
  <2>2. Value(x)' = Value(x) /\ x \in Living
    BY <1>4, <1>5, <2>1, GlobalStays DEF Live
  <2>. QED
    BY <2>2 DEF Pairs
<1>8. Calls!Stop
  BY <1>3, <1>4, <1>5, <1>6, <1>7 DEF Calls!Stop, Frames, Pairs, Value, Arguments
<1>. QED
  BY <1>8, ShapesStay

(* A frame that stays on the call stack, and whose slots stay as far as    *)
(* they hold references, is the same frame.                                *)
SlotsStay(n) ==
  \A k \in 1 .. Procedures[cstack[n].proc].args :
    LET at == End(n) - ArgSize * k
    IN /\ mem'[at] = mem[at]
       /\ mem[at] = 1 => /\ mem'[at + 1] = mem[at + 1] /\ mem'[at + 2] = mem[at + 2]
                         /\ mem'[at + 3] = mem[at + 3]

LEMMA SlotStays ==
  ASSUME UNCHANGED program, NEW n, cstack'[n] = cstack[n], SlotsStay(n),
         NEW k \in 1 .. Procedures[cstack[n].proc].args
  PROVE  /\ SlotOf(n, k)'.kind = SlotOf(n, k).kind
         /\ SlotOf(n, k).kind = 1 => SlotOf(n, k)' = SlotOf(n, k)
<1>1. PICK at : at = End(n) - ArgSize * k
  OBVIOUS
<1>2. End(n)' = End(n)
  BY DEF End, Procedures
<1>3. SlotOf(n, k) = [kind |-> mem[at], val |-> mem[at + 1],
                      index |-> mem[at + 2], ptr |-> mem[at + 3]]
  BY <1>1 DEF SlotOf
<1>4. SlotOf(n, k)' = [kind |-> mem'[at], val |-> mem'[at + 1],
                       index |-> mem'[at + 2], ptr |-> mem'[at + 3]]
  BY <1>1, <1>2 DEF SlotOf
<1>5. /\ mem'[at] = mem[at]
      /\ mem[at] = 1 => /\ mem'[at + 1] = mem[at + 1] /\ mem'[at + 2] = mem[at + 2]
                        /\ mem'[at + 3] = mem[at + 3]
  BY <1>1 DEF SlotsStay
<1>. QED
  BY <1>3, <1>4, <1>5

LEMMA ArgumentOffset ==
  ASSUME Controlled, Ordered, NEW n \in 1 .. Running, NEW a \in Arguments(cstack[n].proc)
  PROVE  Var(a).offset \in 1 .. Procedures[cstack[n].proc].args
<1>1. n # 0 /\ n \in 0 .. Running /\ a \in Owned(Scope(n)) /\ IsArgument(a)
  BY RunningFrame DEF Arguments, Scope
<1>. QED
  BY <1>1, OwnedLaid

LEMMA FrameStays ==
  ASSUME Controlled, Ordered, References, Kinds, UNCHANGED program,
         NEW n \in 1 .. Running, n \in 1 .. Running',
         \A j \in 1 .. n : cstack'[j] = cstack[j], SlotsStay(n)
  PROVE  Frames'[n] = Frames[n]
<1>1. cstack'[n] = cstack[n]
  BY RunningFrame
<1>2. PICK p : p = cstack[n].proc
  OBVIOUS
<1>3. Arguments(p)' = Arguments(p)
  BY DEF Arguments, Owned, IsArgument, Var, Variables
<1>4. ASSUME NEW a \in Arguments(p) PROVE Referred(n, a)' = Referred(n, a)
  <2>1. PICK k \in 1 .. Procedures[cstack[n].proc].args : k = Var(a).offset
    BY <1>2, ArgumentOffset
  <2>2. /\ SlotOf(n, k)'.kind = SlotOf(n, k).kind
        /\ SlotOf(n, k).kind = 1 => SlotOf(n, k)' = SlotOf(n, k)
    BY <1>1, SlotStays
  <2>3. SlotOf(n, k).kind \in {0, 1}
    BY DEF Kinds
  <2>. QED
    BY <2>1, <2>2, <2>3, ReferredStays
<1>5. Frames[n] = [proc |-> p, refs |-> [a \in Arguments(p) |-> Referred(n, a)]]
  BY <1>2 DEF Frames
<1>6. Frames'[n] = [proc |-> p, refs |-> [a \in Arguments(p) |-> Referred(n, a)']]
  <2>1. Frames'[n] = [proc |-> cstack'[n].proc,
                      refs |-> [a \in Arguments(cstack[n].proc)' |-> Referred(n, a)']]
    BY <1>1 DEF Frames
  <2>. QED
    BY <1>1, <1>2, <1>3, <2>1 DEF Frames
<1>. QED
  BY <1>4, <1>5, <1>6

(* Storing a number through a reference changes the element that it is to, *)
(* and nothing else.                                                       *)
LEMMA StoreMaps ==
  ASSUME Live, Kinds, NEW o, Destination(program, cstack[Depth].proc, o),
         NEW r \in DestRefs(o), r.status = "ACTIVE", ~Wraps(o, r),
         ~Var(r.val).read, ~Var(r.val).write,
         NEW x \in Int, mem' = Stored(r, x), UNCHANGED <<program, cstack, status>>
  PROVE  Calls!Write /\ Shapes' = Shapes /\ Kinds'
<1>1. /\ program \in Programs /\ Depth \in Nat /\ Depth > 0 /\ Running = Depth
      /\ cstack[Depth].proc \in Procs /\ mem \in [Address -> Int]
      /\ Controlled /\ Ordered /\ References
      /\ sp \in Nat /\ sp <= StackSize /\ StackSize \in Nat
  BY Frame DEF Live, Sound
<1>2. ElementOf(program, cstack[Depth].proc, o)
  BY DEF Destination
<1>3. PICK i \in IndexOf(o) : r = At(o, i, TRUE)
  BY DEF DestRefs
<1>4. i.status \in Statuses /\ i.value \in Int
  BY <1>2, IndexesAreNumbers
<1>5. /\ r.kind = "var" /\ r.val \in DOMAIN Variables
      /\ r.index \in Int /\ r.ptr \in Int
      /\ OwnCell(r) \/ Refers(Depth + 1, r)
  BY DestinationResolves
<1>6. PICK n \in 0 .. Depth : \E v \in Owned(Scope(n)) : \E k \in Room(v) : Denotes(r, n, v, k)
  BY <1>2, <1>3, <1>4, <1>5, ResolvesToNamed
<1>7. PICK v \in Owned(Scope(n)) : \E k \in Room(v) : Denotes(r, n, v, k)
  BY <1>6
<1>8. PICK k \in Room(v) : Denotes(r, n, v, k)
  BY <1>7
<1>9. /\ n \in 0 .. Running /\ Element(r) = Span(n, v, k)
      /\ <<n, v, k>> \in Calls!Writable(Depth, Frames[Depth])
  BY <1>1, <1>8 DEF Denotes
<1>10. /\ mem' \in [Address -> Int] /\ Element(r) \subseteq Address /\ ~Outside(r)
       /\ \A m \in 1 .. Depth : \A j \in 1 .. Procedures[cstack[m].proc].args :
            mem'[End(m) - ArgSize * j] = 1 =>
              \A f \in 0 .. 3 : mem'[End(m) - ArgSize * j + f] = mem[End(m) - ArgSize * j + f]
  BY <1>5, StoredApart
<1>11. \A c \in Address : c \notin Element(r) => mem'[c] = mem[c]
  <2>1. r.ptr + r.index * Size(r.val) \in Element(r)
    <3>1. Size(r.val) \in {1, 2}
      BY <1>1, <1>5, VariablesLaid
    <3>2. CASE Size(r.val) = 1
      BY <1>5, <3>2 DEF Element
    <3>3. CASE Size(r.val) = 2
      BY <1>5, <3>3 DEF Element
    <3>. QED
      BY <3>1, <3>2, <3>3
  <2>. QED
    BY <2>1 DEF Stored
<1>12. ASSUME NEW m \in 1 .. Running, NEW j \in 1 .. Procedures[cstack[m].proc].args
       PROVE  mem'[End(m) - ArgSize * j] = mem[End(m) - ArgSize * j]
  <2>1. End(m) - ArgSize * j \notin Element(r)
    BY <1>1, <1>9, KindApart
  <2>2. End(m) - ArgSize * j \in Address
    <3>1. /\ End(m) \in Nat /\ j \in Nat
          /\ \A f \in 0 .. 3 : End(m) - ArgSize * j + f \in Address
      BY <1>1, SlotInside
    <3>2. End(m) - ArgSize * j + 0 = End(m) - ArgSize * j
      BY <3>1 DEF ArgSize
    <3>. QED
      BY <3>1, <3>2
  <2>. QED
    BY <1>11, <2>1, <2>2
<1>13. ASSUME NEW m \in 1 .. Running PROVE SlotsStay(m)
  <2>1. ASSUME NEW j \in 1 .. Procedures[cstack[m].proc].args, NEW at,
               at = End(m) - ArgSize * j
        PROVE  /\ mem'[at] = mem[at]
               /\ mem[at] = 1 => /\ mem'[at + 1] = mem[at + 1] /\ mem'[at + 2] = mem[at + 2]
                                 /\ mem'[at + 3] = mem[at + 3]
    <3>1. mem'[at] = mem[at]
      BY <1>12, <2>1
    <3>2. mem'[at] = 1 => \A f \in 0 .. 3 : mem'[at + f] = mem[at + f]
      BY <1>1, <1>10, <2>1
    <3>. QED
      BY <3>1, <3>2
  <2>. QED
    BY <2>1 DEF SlotsStay
<1>14. Running' = Running
  BY DEF Running, Depth
<1>15. Frames' = Frames
  <2>1. ASSUME NEW m \in 1 .. Running PROVE Frames'[m] = Frames[m]
    BY <1>1, <1>13, <1>14, FrameStays
  <2>2. /\ Frames = [m \in 1 .. Running |-> Frames[m]]
        /\ Frames' = [m \in 1 .. Running' |-> Frames'[m]]
    BY DEF Frames
  <2>. QED
    BY <1>14, <2>1, <2>2
<1>16. ASSUME NEW e \in Living, e # <<n, v, k>> PROVE Value(e)' = Value(e)
  <2>1. PICK m \in 0 .. Running : \E u \in Owned(Scope(m)) : \E j \in Room(u) : e = <<m, u, j>>
    BY LivesWhere
  <2>2. PICK u \in Owned(Scope(m)) : \E j \in Room(u) : e = <<m, u, j>>
    BY <2>1
  <2>3. PICK j \in Room(u) : e = <<m, u, j>>
    BY <2>2
  <2>4. Spot(m, u, j) \in Span(m, u, j) /\ Spot(m, u, j) \in Extent(m)
    BY <1>1, SpotInside
  <2>5. Spot(m, u, j) \notin Element(r)
    BY <1>1, <1>9, <1>16, <2>3, <2>4, SpansApart
  <2>6. InitialStack <= StackSize
    <3>1. 1 \in 1 .. Running
      BY <1>1
    <3>2. /\ cstack[1].base \in Nat /\ InitialStack \in Nat /\ End(1) \in Nat
          /\ InitialStack <= cstack[1].base /\ End(1) <= sp
          /\ End(1) = cstack[1].base + Procedures[cstack[1].proc].stackneeded
          /\ Procedures[cstack[1].proc].stackneeded \in Nat
      BY <1>1, <3>1, RunningFrame
    <3>. QED
      BY <1>1, <3>2
  <2>7. Spot(m, u, j) \in Address
    BY <1>1, <2>4, <2>6, ExtentInMemory
  <2>8. mem'[Spot(m, u, j)] = mem[Spot(m, u, j)]
    BY <1>11, <2>5, <2>7
  <2>9. /\ IsArgument(u) => j = 0
        /\ m = 0 => ~IsArgument(u)
        /\ Home(m, u) \in Int
        /\ Size(u) = 1 \/ ~IsArgument(u)
        /\ m # 0 /\ IsArgument(u) => Var(u).offset \in 1 .. Procedures[cstack[m].proc].args
    BY <1>1, OwnedLaid, RoomHas, HomeIsInt DEF IsArgument
  <2>10. ASSUME m # 0, IsArgument(u)
         PROVE  mem'[End(m) - ArgSize * Var(u).offset] = mem[End(m) - ArgSize * Var(u).offset]
    <3>1. m \in 1 .. Running
      BY <2>10
    <3>. QED
      BY <1>12, <2>9, <2>10, <3>1
  <2>. QED
    BY <2>3, <2>8, <2>9, <2>10, ValueStays
<1>17. Calls!Write /\ Shapes' = Shapes
  BY <1>9, <1>15, <1>16, WriteMaps
<1>18. Kinds'
  <2>1. ASSUME NEW m \in 1 .. Running, NEW j \in 1 .. Procedures[cstack[m].proc].args
        PROVE  SlotOf(m, j)'.kind \in {0, 1}
    BY <1>13, SlotStays DEF Kinds
  <2>. QED
    BY <1>14, <2>1 DEF Kinds, Procedures
<1>. QED
  BY <1>17, <1>18

-----------------------------------------------------------------------------
(* The steps of the machine.                                               *)

(* What a step of the machine is to CallByReference: one of its steps, or  *)
(* none.                                                                   *)
Follows ==
  /\ Shapes' = Shapes /\ Kinds'
  /\ \/ Calls!Reset \/ Calls!Start \/ Calls!Write \/ Calls!Call \/ Calls!Return \/ Calls!Stop
     \/ Pairs' = Pairs /\ Frames' = Frames

LEMMA NoKinds ==
  ASSUME status' # "ACTIVE"
  PROVE  Kinds'
<1>1. Running' = 0 /\ 1 .. 0 = {}
  BY DEF Running
<1>. QED
  BY <1>1 DEF Kinds

(* What changes no memory, nor the call stack, goes unnoticed.             *)
LEMMA QuietFollows ==
  ASSUME Live, Kinds, UNCHANGED <<program, cstack, status, mem>>
  PROVE  Follows
<1>1. Controlled /\ Ordered /\ References /\ Running \in Nat
  BY Frame DEF Live, Sound
<1>2. Running' = Running
  BY DEF Running, Depth
<1>3. \A n : \A k : SlotOf(n, k)' = SlotOf(n, k)
  BY DEF SlotOf, End, Procedures
<1>4. Living' = Living
  BY DEF Living, Owned, Room, IsArgument, Var, Variables, Running, Depth
<1>5. \A n : \A v : \A i : ValueOf(n, v, i)' = ValueOf(n, v, i)
  BY <1>3 DEF ValueOf, IsArgument, Var, Variables, Size, IsFloat, End, Procedures
<1>6. Pairs' = Pairs
  <2>1. \A e : Value(e)' = Value(e)
    BY <1>5 DEF Value
  <2>. QED
    BY <1>4, <2>1 DEF Pairs
<1>7. Frames' = Frames
  <2>1. ASSUME NEW n \in 1 .. Running PROVE Frames'[n] = Frames[n]
    <3>1. SlotsStay(n) /\ n \in 1 .. Running'
      BY <1>2 DEF SlotsStay
    <3>. QED
      BY <1>1, <3>1, FrameStays
  <2>2. /\ Frames = [n \in 1 .. Running |-> Frames[n]]
        /\ Frames' = [n \in 1 .. Running' |-> Frames'[n]]
    BY DEF Frames
  <2>. QED
    BY <1>2, <2>1, <2>2
<1>8. Kinds'
  BY <1>2, <1>3 DEF Kinds, Procedures
<1>. QED
  BY <1>6, <1>7, <1>8, ShapesStay DEF Follows

(* What ends a run and leaves the globals alone stops the calls.           *)
LEMMA EndFollows ==
  ASSUME Live, UNCHANGED <<program, mem>>, status' # "ACTIVE"
  PROVE  Follows
BY StopMaps, NoKinds DEF Follows

LEMMA FailFollows ==
  ASSUME Live, NEW s, s # "ACTIVE", Fail(s)
  PROVE  Follows
BY EndFollows DEF Fail

LEMMA StoreFollows ==
  ASSUME Live, Kinds, NEW o, Destination(program, cstack[Depth].proc, o),
         NEW r \in DestRefs(o), r.status = "ACTIVE", ~Wraps(o, r), ~Var(r.val).write,
         "read_only" \notin faults', Writing(r) \subseteq faults',
         NEW x \in Int, mem' = Stored(r, x), UNCHANGED <<program, cstack, status>>
  PROVE  Follows
<1>1. ~Var(r.val).read
  BY DestinationIsWritten
<1>. QED
  BY <1>1, StoreMaps DEF Follows

(* Outside a run there are only globals, and they may change.              *)
LEMMA IdleFollows ==
  ASSUME UNCHANGED program, status # "ACTIVE", status' # "ACTIVE"
  PROVE  Follows
<1>1. Running = 0 /\ Running' = 0
  BY DEF Running
<1>2. Frames = <<>> /\ Frames' = <<>>
  BY <1>1 DEF Frames
<1>3. Calls!Elements(0, 0) = Elements(0, 0)
  BY CallsElements
<1>4. Living' = Elements(0, 0)
  <2>1. 0 .. Running' = {0}
    BY <1>1
  <2>2. \A n : \A p : Elements(n, p)' = Elements(n, p)
    BY DEF Elements, Owned, Room, IsArgument, Var, Variables
  <2>3. Living' = UNION {Elements(n, Scope(n))' : n \in 0 .. Running'}
    BY DEF Living, Elements, Scope
  <2>. QED
    BY <2>1, <2>2, <2>3 DEF Scope
<1>5. Calls!Named(Pairs') = Calls!Elements(0, 0)
  BY <1>3, <1>4, NamedNext
<1>6. Calls!Reset
  BY <1>2, <1>5 DEF Calls!Reset, Frames, Pairs, Value, Arguments
<1>. QED
  BY <1>6, ShapesStay, NoKinds DEF Follows

(* What an instruction refers to while no sum of indexes has wrapped.      *)
LEMMA NoneWrapped ==
  ASSUME NEW d, NEW s, Operands(d, s) \subseteq faults', "wrapped" \notin faults'
  PROVE  ~Wraps(Inst.dest, d) /\ ~Wraps(Inst.src, s)
BY DEF Operands, Wrapping

LEMMA MoveFollows ==
  ASSUME Live, Kinds, Move, Clean'
  PROVE  Follows
<1>1. Inst.op = "move"
  BY DEF Move
<1>2. /\ Destination(program, cstack[Depth].proc, Inst.dest)
      /\ Source(program, cstack[Depth].proc, Inst.src)
  BY <1>1, Executing DEF Live, Checked, Jumps, Arithmetic, Bitwise, Shifts
<1>3. PICK d \in DestRefs(Inst.dest), s \in SrcRefs(Inst.src) :
        IF First(d, s) # "ACTIVE" THEN Fail(First(d, s))
        ELSE IF Var(d.val).write THEN MoveToCallback(d, s)
        ELSE MoveToMemory(d, s)
  BY DEF Move
<1>4. CASE First(d, s) # "ACTIVE"
  BY <1>3, <1>4, FailFollows
<1>5. CASE First(d, s) = "ACTIVE" /\ Var(d.val).write
  <2>1. MoveToCallback(d, s)
    BY <1>3, <1>5
  <2>2. \/ Fail("CALLBACK_FAILED")
        \/ UNCHANGED <<program, cstack, status, mem>>
    BY <2>1 DEF MoveToCallback
  <2>. QED
    BY <2>2, FailFollows, QuietFollows
<1>6. CASE First(d, s) = "ACTIVE" /\ ~Var(d.val).write
  <2>1. d.status = "ACTIVE" /\ s.val \in Int
    BY <1>2, <1>6, SourceResolves DEF First
  <2>2. PICK x \in Fetched(s) :
          IF x.status # "ACTIVE" THEN Fail(x.status)
          ELSE /\ mem' = Stored(d, x.value)
               /\ faults' = faults \cup Operands(d, s) \cup Reading(s) \cup Writing(d)
               /\ UNCHANGED <<program, cstack, status>>
    BY <1>3, <1>6 DEF MoveToMemory
  <2>3. x.value \in Int
    BY <2>1, FetchesNumbers
  <2>4. CASE x.status # "ACTIVE"
    BY <2>2, <2>4, FailFollows
  <2>5. CASE x.status = "ACTIVE"
    <3>1. /\ mem' = Stored(d, x.value) /\ UNCHANGED <<program, cstack, status>>
          /\ Operands(d, s) \subseteq faults' /\ Writing(d) \subseteq faults'
      BY <2>2, <2>5
    <3>2. "read_only" \notin faults' /\ ~Wraps(Inst.dest, d)
      BY <3>1, NoneWrapped DEF Clean
    <3>. QED
      BY <1>2, <1>6, <2>1, <2>3, <3>1, <3>2, StoreFollows
  <2>. QED
    BY <2>4, <2>5
<1>. QED
  BY <1>4, <1>5, <1>6

LEMMA OperationFollows ==
  ASSUME Live, Kinds, Operation, Clean'
  PROVE  Follows
<1>1. Inst.op \in Arithmetic \cup Bitwise \cup Shifts
  BY DEF Operation
<1>2. /\ Destination(program, cstack[Depth].proc, Inst.dest)
      /\ Source(program, cstack[Depth].proc, Inst.src)
  BY <1>1, Executing DEF Live, Checked, Jumps, Arithmetic, Bitwise, Shifts
<1>3. PICK d \in DestRefs(Inst.dest), s \in SrcRefs(Inst.src) :
        IF First(d, s) # "ACTIVE" THEN Fail(First(d, s))
        ELSE IF Var(d.val).write THEN Fail("INVALID_INSTRUCTION")
        ELSE \E x \in Fetched(s), y \in Fetched(d) :
               IF First(x, y) # "ACTIVE" THEN Fail(First(x, y))
               ELSE IF Rejected(d, s) THEN Fail("INVALID_INSTRUCTION")
               ELSE \E r \in Computed(Inst.op, y.value, x.value) :
                      LET kept   == Float(d) /\ Inst.op \in Bitwise
                          stored == IF kept THEN y.value ELSE r
                      IN /\ mem' = Stored(d, stored)
                         /\ faults' = faults \cup Operands(d, s) \cup Reading(s) \cup Reading(d) \cup Writing(d)
                         /\ UNCHANGED <<program, cstack, status>>
  BY DEF Operation
<1>4. CASE First(d, s) # "ACTIVE"
  BY <1>3, <1>4, FailFollows
<1>5. CASE First(d, s) = "ACTIVE" /\ Var(d.val).write
  BY <1>3, <1>5, FailFollows
<1>6. CASE First(d, s) = "ACTIVE" /\ ~Var(d.val).write
  <2>1. d.status = "ACTIVE" /\ s.val \in Int
    BY <1>2, <1>6, SourceResolves DEF First
  <2>2. d.val \in Int
    <3>1. d.val \in DOMAIN Variables
      BY <1>2, <2>1, DestinationResolves
    <3>. QED
      BY <3>1, Frame, VariablesLaid
  <2>3. PICK x \in Fetched(s), y \in Fetched(d) :
          IF First(x, y) # "ACTIVE" THEN Fail(First(x, y))
          ELSE IF Rejected(d, s) THEN Fail("INVALID_INSTRUCTION")
          ELSE \E r \in Computed(Inst.op, y.value, x.value) :
                 LET kept   == Float(d) /\ Inst.op \in Bitwise
                     stored == IF kept THEN y.value ELSE r
                 IN /\ mem' = Stored(d, stored)
                    /\ faults' = faults \cup Operands(d, s) \cup Reading(s) \cup Reading(d) \cup Writing(d)
                    /\ UNCHANGED <<program, cstack, status>>
    BY <1>3, <1>6
  <2>4. x.value \in Int /\ y.value \in Int
    BY <2>1, <2>2, FetchesNumbers
  <2>5. CASE First(x, y) # "ACTIVE"
    BY <2>3, <2>5, FailFollows
  <2>6. CASE First(x, y) = "ACTIVE" /\ Rejected(d, s)
    BY <2>3, <2>6, FailFollows
  <2>7. CASE First(x, y) = "ACTIVE" /\ ~Rejected(d, s)
    <3>1. PICK r, kept, stored :
            /\ r \in Computed(Inst.op, y.value, x.value)
            /\ stored = IF kept THEN y.value ELSE r
            /\ mem' = Stored(d, stored)
            /\ faults' = faults \cup Operands(d, s) \cup Reading(s) \cup Reading(d) \cup Writing(d)
            /\ UNCHANGED <<program, cstack, status>>
      BY <2>3, <2>7
    <3>2. stored \in Int
      BY <2>4, <3>1, ComputedIsNumber
    <3>3. Operands(d, s) \subseteq faults' /\ Writing(d) \subseteq faults'
      BY <3>1
    <3>4. "read_only" \notin faults' /\ ~Wraps(Inst.dest, d)
      BY <3>3, NoneWrapped DEF Clean
    <3>. QED
      BY <1>2, <1>6, <2>1, <3>1, <3>2, <3>3, <3>4, StoreFollows
  <2>. QED
    BY <2>5, <2>6, <2>7
<1>. QED
  BY <1>4, <1>5, <1>6

LEMMA CmpFollows ==
  ASSUME Live, Kinds, Cmp
  PROVE  Follows
<1>1. \/ \E s : s # "ACTIVE" /\ Fail(s)
      \/ UNCHANGED <<program, cstack, status, mem>>
  BY DEF Cmp
<1>. QED
  BY <1>1, FailFollows, QuietFollows

LEMMA JumpFollows ==
  ASSUME Live, Kinds, Jump \/ JumpIf \/ RetLast
  PROVE  Follows
<1>1. /\ UNCHANGED <<program, cstack, mem>>
      /\ status' \in {status, "READY"}
  BY DEF Jump, JumpIf, RetLast
<1>2. CASE status' = status
  BY <1>1, <1>2, QuietFollows
<1>3. CASE status' = "READY"
  BY <1>1, <1>3, EndFollows
<1>. QED
  BY <1>1, <1>2, <1>3

-----------------------------------------------------------------------------
(* Calls and returns.                                                      *)

(* What is below the stack pointer is all that lives.                      *)
LEMMA ExtentBelow ==
  ASSUME Live, NEW n \in 0 .. Running, NEW c \in Extent(n)
  PROVE  c \in Address /\ c < sp
<1>1. /\ program \in Programs /\ Depth \in Nat /\ Depth > 0 /\ Running = Depth
      /\ Controlled /\ Ordered /\ sp \in Nat /\ sp <= StackSize /\ StackSize \in Nat
  BY Frame DEF Live
<1>2. InitialStack \in Nat /\ InitialStack <= sp
  <2>1. 1 \in 1 .. Running
    BY <1>1
  <2>2. /\ cstack[1].base \in Nat /\ InitialStack \in Nat /\ End(1) \in Nat
        /\ InitialStack <= cstack[1].base /\ End(1) <= sp
        /\ End(1) = cstack[1].base + Procedures[cstack[1].proc].stackneeded
        /\ Procedures[cstack[1].proc].stackneeded \in Nat
    BY <1>1, <2>1, RunningFrame
  <2>. QED
    BY <1>1, <2>2
<1>3. CASE n = 0
  BY <1>1, <1>2, <1>3 DEF Extent, Address
<1>4. CASE n # 0
  <2>1. n \in 1 .. Running
    BY <1>4
  <2>2. cstack[n].base \in Nat /\ End(n) \in Nat /\ End(n) <= sp
    BY <1>1, <2>1, RunningFrame
  <2>. QED
    BY <1>1, <1>4, <2>2 DEF Extent, Address
<1>. QED
  BY <1>3, <1>4

LEMMA SlotBelow ==
  ASSUME Live, NEW n \in 1 .. Running, NEW k \in 1 .. Procedures[cstack[n].proc].args,
         NEW at, at = End(n) - ArgSize * k
  PROVE  /\ at \in Address /\ at + 1 \in Address /\ at + 2 \in Address /\ at + 3 \in Address
         /\ at < sp /\ at + 1 < sp /\ at + 2 < sp /\ at + 3 < sp
<1>1. /\ Depth > 0 /\ Running = Depth /\ Controlled /\ Ordered /\ sp \in Nat
  BY Frame DEF Live
<1>2. n \in 1 .. Depth
  BY <1>1
<1>3. /\ End(n) \in Nat /\ k \in Nat /\ End(n) <= sp
      /\ End(n) - ArgSize * k + 3 <= End(n) - 1
      /\ \A f \in 0 .. 3 : End(n) - ArgSize * k + f \in Address
  BY <1>1, <1>2, SlotInside
<1>4. at \in Int
  BY <1>3 DEF ArgSize
<1>5. PICK top \in Nat : top = End(n) /\ at + 3 <= top - 1 /\ top <= sp
  BY <1>3
<1>6. at + 0 = at /\ at + 3 < sp /\ at < sp /\ at + 1 < sp /\ at + 2 < sp
  BY <1>1, <1>4, <1>5
<1>7. at + 0 \in Address /\ at + 1 \in Address /\ at + 2 \in Address /\ at + 3 \in Address
  BY <1>3
<1>. QED
  BY <1>6, <1>7

LEMMA SlotsKept ==
  ASSUME Live, \A a \in Address : a < sp => mem'[a] = mem[a], NEW n \in 1 .. Running
  PROVE  SlotsStay(n)
<1>1. ASSUME NEW k \in 1 .. Procedures[cstack[n].proc].args, NEW at,
             at = End(n) - ArgSize * k
      PROVE  /\ mem'[at] = mem[at] /\ mem'[at + 1] = mem[at + 1]
             /\ mem'[at + 2] = mem[at + 2] /\ mem'[at + 3] = mem[at + 3]
  BY <1>1, SlotBelow
<1>. QED
  BY <1>1 DEF SlotsStay

LEMMA ValuesKept ==
  ASSUME Live, UNCHANGED program, \A a \in Address : a < sp => mem'[a] = mem[a],
         NEW m \in 0 .. Running, m # 0 => cstack'[m] = cstack[m],
         NEW u \in Owned(Scope(m)), NEW j \in Room(u)
  PROVE  Value(<<m, u, j>>)' = Value(<<m, u, j>>)
<1>1. Controlled /\ Ordered
  BY DEF Live
<1>2. mem'[Spot(m, u, j)] = mem[Spot(m, u, j)]
  BY <1>1, SpotInside, ExtentBelow
<1>3. /\ IsArgument(u) => j = 0
      /\ m = 0 => ~IsArgument(u)
      /\ Home(m, u) \in Int
      /\ Size(u) = 1 \/ ~IsArgument(u)
      /\ m # 0 /\ IsArgument(u) => Var(u).offset \in 1 .. Procedures[cstack[m].proc].args
  BY <1>1, OwnedLaid, RoomHas, HomeIsInt DEF IsArgument
<1>4. ASSUME m # 0, IsArgument(u)
      PROVE  mem'[End(m) - ArgSize * Var(u).offset] = mem[End(m) - ArgSize * Var(u).offset]
  <2>1. m \in 1 .. Running
    BY <1>4
  <2>2. PICK at : at = End(m) - ArgSize * Var(u).offset
    OBVIOUS
  <2>3. at \in Address /\ at < sp
    BY <1>3, <1>4, <2>1, <2>2, SlotBelow
  <2>. QED
    BY <2>2, <2>3
<1>. QED
  BY <1>2, <1>3, <1>4, ValueStays

(* The frame that a call pushes, and what its slots hold.                  *)
LEMMA CallPushes ==
  ASSUME Live, Inst.op = "call", NEW refs \in ArgRefs(Inst.args),
         ~Overflows(Inst.proc, sp), Push(Inst.proc, refs, sp, ip + 1), UNCHANGED program,
         NEW d \in Nat, d = Depth, NEW p, p = Inst.proc,
         NEW args \in Nat, args = Procedures[p].args
  PROVE  /\ p \in Procs /\ DOMAIN Inst.args = 1 .. args
         /\ \A k \in 1 .. args :
              /\ Source(program, cstack[Depth].proc, Inst.args[k])
              /\ refs[k] \in SrcRefs(Inst.args[k])
         /\ DOMAIN refs = 1 .. args
         /\ status' = "ACTIVE" /\ Running' = d + 1
         /\ \A n \in 1 .. d : cstack'[n] = cstack[n]
         /\ cstack'[d + 1].proc = p
         /\ \A a \in Address : a < sp => mem'[a] = mem[a]
         /\ \A k \in 1 .. args : \A r : r = SlotOf(d + 1, k)' =>
              /\ r.kind = (IF refs[k].kind = "var" THEN 1 ELSE 0)
              /\ r.val = refs[k].val /\ r.index = refs[k].index /\ r.ptr = refs[k].ptr
<1>2. /\ program \in Programs /\ Depth \in Nat /\ Depth > 0 /\ Running = Depth
      /\ sp \in Nat /\ sp <= StackSize /\ StackSize \in Nat
      /\ mem \in [Address -> Int] /\ cstack \in Seq(Entries)
      /\ ip \in DOMAIN Code /\ ip \in Nat
  BY Frame, Top DEF Live
<1>3. p \in Procs
  BY <1>2, Verified DEF Inst
<1>6. /\ DOMAIN Inst.args = 1 .. args
      /\ \A k \in 1 .. args : Source(program, cstack[Depth].proc, Inst.args[k])
  BY Executing DEF Live, Checked, Jumps, Arithmetic, Bitwise, Shifts, Procs, Procedures
<1>7. /\ refs \in [1 .. args -> UNION {SrcRefs(Inst.args[i]) : i \in DOMAIN Inst.args}]
      /\ \A k \in 1 .. args : refs[k] \in SrcRefs(Inst.args[k])
  BY <1>6 DEF ArgRefs
<1>8. \A k \in 1 .. args :
        refs[k].val \in Int /\ refs[k].index \in Int /\ refs[k].ptr \in Int
  BY <1>6, <1>7, SourceResolves
<1>9. Len(refs) = args
  BY <1>7, LengthOfArguments
<1>. DEFINE e == [ip |-> ip + 1, proc |-> p, base |-> sp]
<1>10. /\ cstack' = Append(cstack, e)
       /\ status' = "ACTIVE"
       /\ mem' = WithFrame(p, sp, refs, args)
  BY <1>9 DEF Push
<1>11. PICK need \in Nat : need = Procedures[p].stackneeded /\ 4 * args <= need
  BY <1>2, <1>3, FrameHolds DEF ArgSize
<1>12. sp + need <= StackSize
  <2>1. ~(sp + need > StackSize)
    BY <1>11 DEF Overflows
  <2>. QED
    BY <1>2, <1>11, <2>1
<1>13. /\ mem' \in [Address -> Int]
       /\ \A a \in Address : a < sp => mem'[a] = mem[a]
       /\ \A k \in 1 .. args : \A f \in 0 .. 3 :
            LET a == sp + Procedures[p].stackneeded - ArgSize * k + f
            IN a \in Address /\ a >= sp => mem'[a] = Slot(refs[k])[f + 1]
  <2>1. /\ program \in Programs /\ mem \in [Address -> Int] /\ p \in Procs /\ sp \in Nat
        /\ mem' = WithFrame(p, sp, refs, args)
    BY <1>2, <1>3, <1>10
  <2>. HIDE DEF e
  <2>. QED
    BY <1>8, <2>1, FrameFilled
<1>14. e \in Entries
  BY <1>2, <1>3 DEF Entries
<1>15. /\ Len(cstack') = d + 1 /\ cstack'[d + 1] = e
       /\ \A n \in 1 .. d : cstack'[n] = cstack[n]
  BY <1>2, <1>10, <1>14, AppendProperties DEF Depth
<1>16. Running' = d + 1
  BY <1>10, <1>15 DEF Depth, Running
<1>17. ASSUME NEW k \in 1 .. args, NEW r, r = SlotOf(d + 1, k)'
       PROVE  /\ r.kind = (IF refs[k].kind = "var" THEN 1 ELSE 0)
              /\ r.val = refs[k].val /\ r.index = refs[k].index /\ r.ptr = refs[k].ptr
  <2>1. PICK at \in Int : at = sp + need - ArgSize * k
    BY <1>2, <1>11 DEF ArgSize
  <2>2. sp <= at /\ at + 3 <= sp + need - 1
    BY <1>2, <1>11, <2>1, SlotStart
  <2>3. at + 0 = at /\ \A f \in 0 .. 3 : at + f \in Address /\ at + f >= sp
    <3>1. PICK low \in Nat : low = sp
      BY <1>2
    <3>2. PICK high \in Nat : high = sp + need
      BY <1>2, <1>11
    <3>3. /\ at + 0 = at
          /\ \A f \in 0 .. 3 : at + f \in Address /\ low <= at + f /\ at + f < high
      <4>1. low <= at /\ at + 3 <= high - 1 /\ high <= StackSize
        BY <1>12, <2>2, <3>1, <3>2
      <4>. QED
        BY <1>2, <4>1, FourCells
    <3>4. ASSUME NEW f \in 0 .. 3 PROVE at + f >= sp
      BY <3>1, <3>3, <3>4
    <3>. QED
      BY <3>3, <3>4
  <2>4. \A f \in 0 .. 3 : mem'[at + f] = Slot(refs[k])[f + 1]
    BY <1>11, <1>13, <2>1, <2>3
  <2>5. /\ mem'[at] = (IF refs[k].kind = "var" THEN 1 ELSE 0)
        /\ mem'[at + 1] = refs[k].val /\ mem'[at + 2] = refs[k].index
        /\ mem'[at + 3] = refs[k].ptr
    BY <2>3, <2>4 DEF Slot
  <2>6. SlotOf(d + 1, k)' = [kind |-> mem'[at], val |-> mem'[at + 1],
                             index |-> mem'[at + 2], ptr |-> mem'[at + 3]]
    <3>1. ASSUME NEW n, n = d + 1
          PROVE  SlotOf(n, k)' = [kind |-> mem'[End(n)' - ArgSize * k],
                                  val |-> mem'[End(n)' - ArgSize * k + 1],
                                  index |-> mem'[End(n)' - ArgSize * k + 2],
                                  ptr |-> mem'[End(n)' - ArgSize * k + 3]]
      BY DEF SlotOf
    <3>2. PICK n : n = d + 1
      OBVIOUS
    <3>3. End(n)' - ArgSize * k = at
      <4>1. End(n)' = cstack'[n].base + Procedures'[cstack'[n].proc].stackneeded
        BY DEF End
      <4>2. End(n)' = sp + need
        BY <1>11, <1>15, <3>2, <4>1 DEF Procedures
      <4>3. PICK e1 : e1 = End(n)' /\ e1 = sp + need
        BY <4>2
      <4>4. e1 - ArgSize * k = at
        BY <1>2, <2>1, <4>3 DEF ArgSize
      <4>. QED
        BY <4>3, <4>4
    <3>4. SlotOf(n, k)' = [kind |-> mem'[at], val |-> mem'[at + 1],
                           index |-> mem'[at + 2], ptr |-> mem'[at + 3]]
      BY <3>1, <3>2, <3>3
    <3>. QED
      BY <3>2, <3>4
  <2>. QED
    BY <1>17, <2>5, <2>6
<1>18. DOMAIN refs = 1 .. args
  BY <1>7
<1>. QED
  BY SMTT(60), <1>3, <1>6, <1>7, <1>10, <1>13, <1>15, <1>16, <1>17, <1>18

(* What an argument of the new frame refers to is an element that the      *)
(* caller can pass on.                                                     *)
LEMMA PassesOn ==
  ASSUME Live, UNCHANGED program, NEW d \in Nat, d = Depth,
         \A n \in 1 .. d : cstack'[n] = cstack[n],
         NEW o, Source(program, cstack[Depth].proc, o), NEW ref \in SrcRefs(o),
         ref.status = "ACTIVE", ~Wraps(o, ref),
         NEW a, NEW r, r = SlotOf(d + 1, Var(a).offset)',
         r.kind = (IF ref.kind = "var" THEN 1 ELSE 0),
         r.val = ref.val, r.index = ref.index, r.ptr = ref.ptr,
         Referred(d + 1, a)' # <<0, 0, 0>>
  PROVE  Referred(d + 1, a)' \in Calls!Passable(Depth, Frames[Depth])
<1>1. /\ program \in Programs /\ Depth \in Nat /\ Depth > 0 /\ Running = Depth
      /\ Controlled /\ Ordered /\ cstack[Depth].proc \in Procs
  BY Frame DEF Live
<1>2. PICK n \in Nat \ {0} : n = d + 1 /\ n - 1 = d
  OBVIOUS
<1>3. Referred(n, a)' = IF r.kind = 0 \/ r.val \notin InMemoryAll THEN <<0, 0, 0>>
                        ELSE <<Owner(n, r.val, r.ptr)', r.val, r.index>>
  BY <1>2, ReferredNext
<1>4. /\ Referred(n, a)' # <<0, 0, 0>>
      /\ r.kind # 0 /\ r.val \in InMemoryAll
      /\ Referred(n, a)' = <<Owner(n, r.val, r.ptr)', r.val, r.index>>
  BY <1>2, <1>3
<1>5. /\ ref.kind = "var" /\ Refers(Depth + 1, ref) /\ o.kind = "var"
      /\ ref.val \in InMemoryAll
  BY <1>4, SourceResolves
<1>6. ~Var(ref.val).read /\ ~Var(ref.val).write
  BY <1>5 DEF InMemoryAll, Owned
<1>7. ElementOf(program, cstack[Depth].proc, o)
  BY <1>5 DEF Source
<1>8. PICK i \in IndexOf(o) : ref = At(o, i, FALSE)
  BY <1>5 DEF SrcRefs
<1>9. i.status \in Statuses /\ i.value \in Int
  BY <1>7, IndexesAreNumbers
<1>10. PICK m \in 0 .. Depth : \E v \in Owned(Scope(m)) : \E k \in Room(v) :
          /\ Denotes(ref, m, v, k)
          /\ ~IsArgument(v) /\ ref.val = v /\ ref.index = k
          /\ Owner(Depth + 1, ref.val, ref.ptr) = m
  <2>1. PICK dest \in BOOLEAN : dest = FALSE
    OBVIOUS
  <2>2. ~dest /\ ref = At(o, i, dest)
    BY <1>8, <2>1
  <2>. QED
    BY <1>5, <1>6, <1>7, <1>9, <2>2, ResolvesToNamed
<1>11. PICK v \in Owned(Scope(m)) : \E k \in Room(v) :
          /\ Denotes(ref, m, v, k)
          /\ ~IsArgument(v) /\ ref.val = v /\ ref.index = k
          /\ Owner(Depth + 1, ref.val, ref.ptr) = m
  BY <1>10
<1>12. PICK k \in Room(v) :
          /\ Denotes(ref, m, v, k)
          /\ ~IsArgument(v) /\ ref.val = v /\ ref.index = k
          /\ Owner(Depth + 1, ref.val, ref.ptr) = m
  BY <1>11
<1>13. Owner(n, ref.val, ref.ptr)' = Owner(n, ref.val, ref.ptr)
  <2>1. Refers(n, ref) /\ n - 1 <= Running
    BY <1>1, <1>2, <1>5
  <2>2. \A j \in 1 .. (n - 1) : cstack'[j] = cstack[j]
    BY <1>2
  <2>. QED
    BY <1>1, <2>1, <2>2, OwnerStays
<1>14. Referred(n, a)' = <<m, v, k>>
  <2>1. Owner(n, r.val, r.ptr)' = Owner(n, ref.val, ref.ptr)'
    OBVIOUS
  <2>2. Owner(n, ref.val, ref.ptr) = m
    BY <1>2, <1>12
  <2>. QED
    BY <1>4, <1>12, <1>13, <2>1, <2>2
<1>15. <<m, v, k>> \in Calls!Writable(Depth, Frames[Depth])
  BY <1>12 DEF Denotes
<1>16. <<m, v, k>> \notin {<<Depth, b, 0>> : b \in Calls!Args(Frames[Depth].proc)}
  <2>1. Frames[Depth].proc \in Procs
    BY FrameOnTop
  <2>2. Calls!Args(Frames[Depth].proc) = Arguments(Frames[Depth].proc)
    BY <2>1, CallsArguments
  <2>. QED
    BY <1>12, <2>2 DEF Arguments
<1>. QED
  BY <1>2, <1>14, <1>15, <1>16 DEF Calls!Passable

(* A call that succeeds: the frames that there are and what lives stays,   *)
(* and a frame is added.                                                   *)
LEMMA PushFollows ==
  ASSUME Live, Kinds, Inst.op = "call", NEW refs \in ArgRefs(Inst.args),
         Failing(refs) = {}, \A k \in DOMAIN refs : ~Wraps(Inst.args[k], refs[k]),
         ~Overflows(Inst.proc, sp),
         Push(Inst.proc, refs, sp, ip + 1), UNCHANGED program
  PROVE  Follows
<1>1. /\ program \in Programs /\ Depth \in Nat /\ Depth > 0 /\ Running = Depth
      /\ Controlled /\ Ordered /\ References
  BY Frame DEF Live, Sound
<1>2. PICK d \in Nat : d = Depth
  BY <1>1
<1>3. PICK p : p = Inst.proc
  OBVIOUS
<1>4. PICK args \in Nat : args = Procedures[p].args
  <2>1. p \in Procs
    BY <1>1, <1>3, Top, Verified DEF Inst, Live
  <2>. QED
    BY <1>1, <2>1, FrameHolds
<1>5. /\ p \in Procs /\ DOMAIN Inst.args = 1 .. args
      /\ \A k \in 1 .. args :
           /\ Source(program, cstack[Depth].proc, Inst.args[k])
           /\ refs[k] \in SrcRefs(Inst.args[k])
      /\ DOMAIN refs = 1 .. args
      /\ status' = "ACTIVE" /\ Running' = d + 1
      /\ \A n \in 1 .. d : cstack'[n] = cstack[n]
      /\ cstack'[d + 1].proc = p
      /\ \A a \in Address : a < sp => mem'[a] = mem[a]
      /\ \A k \in 1 .. args : \A r : r = SlotOf(d + 1, k)' =>
           /\ r.kind = (IF refs[k].kind = "var" THEN 1 ELSE 0)
           /\ r.val = refs[k].val /\ r.index = refs[k].index /\ r.ptr = refs[k].ptr
  BY SMTT(60), <1>2, <1>3, <1>4, CallPushes
<1>6. ASSUME NEW n \in 1 .. d PROVE Frames'[n] = Frames[n]
  <2>1. n \in 1 .. Running /\ n \in 1 .. Running'
    BY <1>1, <1>2, <1>5
  <2>2. SlotsStay(n)
    BY <1>5, <2>1, SlotsKept
  <2>3. \A j \in 1 .. n : cstack'[j] = cstack[j]
    BY <1>5
  <2>. QED
    BY <1>1, <2>1, <2>2, <2>3, FrameStays
<1>7. /\ Len(Frames) = d /\ Frames # <<>> /\ \A n \in 1 .. d : Frames[n] \in {Frames[i] : i \in 1 .. d}
  BY <1>1, <1>2, FramesSequence
<1>8. DOMAIN Frames' = 1 .. (d + 1) /\ Len(Frames') = d + 1
  <2>1. Frames' \in [1 .. Running' -> {Frames'[n] : n \in 1 .. Running'}]
    BY DEF Frames
  <2>2. Frames' \in [1 .. (d + 1) -> {Frames'[n] : n \in 1 .. (d + 1)}] /\ d + 1 \in Nat
    BY <1>5, <2>1
  <2>. QED
    BY <2>2, LengthOfArguments
<1>9. SubSeq(Frames', 1, Len(Frames)) = Frames
  <2>1. PICK S : S = {Frames[i] : i \in 1 .. d}
    OBVIOUS
  <2>2. Frames \in Seq(S)
    BY <1>1, <1>2, <2>1, FramesSequence
  <2>3. \A i \in 1 .. d : Frames'[i] \in S
    BY <1>6, <2>1
  <2>4. PICK t : t = SubSeq(Frames', 1, d)
    OBVIOUS
  <2>5. /\ t \in Seq(S) /\ Len(t) = d
        /\ \A i \in 1 .. d : t[i] = Frames'[i]
    <3>1. /\ SubSeq(Frames', 1, d) \in Seq(S)
          /\ Len(SubSeq(Frames', 1, d)) = IF 1 <= d THEN d - 1 + 1 ELSE 0
          /\ \A i \in 1 .. d - 1 + 1 : SubSeq(Frames', 1, d)[i] = Frames'[1 + i - 1]
      BY <2>3, SubSeqProperties
    <3>2. \A i \in 1 .. d : i \in 1 .. (d - 1 + 1) /\ 1 + i - 1 = i
      OBVIOUS
    <3>3. 1 <= d /\ d - 1 + 1 = d
      BY <1>1, <1>2
    <3>. QED
      BY <2>4, <3>1, <3>2, <3>3
  <2>6. \A i \in 1 .. Len(t) : t[i] = Frames[i]
    BY <1>6, <2>5
  <2>7. t = Frames
    BY <1>7, <2>2, <2>5, <2>6, SeqEqual
  <2>. QED
    BY <1>7, <2>4, <2>7
<1>10. PICK f : f = Frames'[d + 1]
  OBVIOUS
<1>11. f = [proc |-> p, refs |-> [v \in Arguments(p)' |-> Referred(d + 1, v)']]
  <2>1. \A n \in 1 .. Running' :
          Frames'[n] = [proc |-> cstack'[n].proc,
                        refs |-> [v \in Arguments(cstack[n].proc)' |-> Referred(n, v)']]
    BY DEF Frames
  <2>2. d + 1 \in 1 .. Running'
    BY <1>5
  <2>3. \A q : Arguments(q)' = Arguments(q)
    BY DEF Arguments, Owned, IsArgument, Var, Variables
  <2>. QED
    BY <1>5, <1>10, <2>1, <2>2, <2>3
<1>12. Arguments(p)' = Arguments(p) /\ Calls!Args(p) = Arguments(p)
  BY <1>5, CallsArguments DEF Arguments, Owned, IsArgument, Var, Variables
<1>13. f.proc = p /\ DOMAIN f.refs = Calls!Args(f.proc)
  BY <1>11, <1>12
<1>14. ASSUME NEW a \in Calls!Referring(f)
       PROVE  f.refs[a] \in Calls!Passable(Depth, Frames[Depth])
  <2>1. a \in Arguments(p) /\ f.refs[a] = Referred(d + 1, a)' /\ f.refs[a] # <<0, 0, 0>>
    BY <1>11, <1>12 DEF Calls!Referring, Calls!NoElement
  <2>2. Var(a).offset \in 1 .. args
    <3>1. /\ a \in DOMAIN Variables /\ Var(a).scope = p /\ IsArgument(a)
          /\ 0 \notin Procs
      BY <1>1, <2>1, ProgramsVerified DEF Arguments, Owned, WellFormed, Procs, Procedures
    <3>. QED
      BY <1>1, <1>4, <1>5, <3>1, VariablesLaid DEF IsGlobal, IsArgument
  <2>3. PICK k \in 1 .. args : k = Var(a).offset
    BY <2>2
  <2>4. PICK r : r = SlotOf(d + 1, k)'
    OBVIOUS
  <2>5. PICK ref \in SrcRefs(Inst.args[k]) : ref = refs[k]
    BY <1>5
  <2>6. ref.status = "ACTIVE"
    BY <1>5, <2>5 DEF Failing
  <2>7. /\ r.kind = (IF ref.kind = "var" THEN 1 ELSE 0)
        /\ r.val = ref.val /\ r.index = ref.index /\ r.ptr = ref.ptr
    BY <1>5, <2>4, <2>5
  <2>8. r = SlotOf(d + 1, Var(a).offset)'
    <3>1. Var(a)' = Var(a)
      BY DEF Var, Variables
    <3>. QED
      BY <2>3, <2>4, <3>1
  <2>9. Source(program, cstack[Depth].proc, Inst.args[k])
    BY <1>5
  <2>10. Referred(d + 1, a)' # <<0, 0, 0>>
    BY <2>1
  <2>11. \A n \in 1 .. d : cstack'[n] = cstack[n]
    BY <1>5
  <2>12. PICK o : o = Inst.args[k]
    OBVIOUS
  <2>13. Source(program, cstack[Depth].proc, o) /\ ref \in SrcRefs(o) /\ ~Wraps(o, ref)
    BY <1>5, <2>5, <2>9, <2>12
  <2>14. Referred(d + 1, a)' \in Calls!Passable(Depth, Frames[Depth])
    BY <1>2, <2>6, <2>7, <2>8, <2>10, <2>11, <2>13, PassesOn
  <2>. QED
    BY <2>1, <2>14
<1>15. ASSUME NEW n \in 1 .. Running' PROVE cstack'[n].proc \in Procs
  <2>1. CASE n \in 1 .. d
    <3>1. n \in 1 .. Running
      BY <1>1, <1>2, <2>1
    <3>. QED
      BY <1>1, <1>5, <2>1, <3>1, RunningFrame
  <2>2. CASE n = d + 1
    BY <1>5, <2>2
  <2>. QED
    BY <1>5, <2>1, <2>2
<1>16. Calls!Live(Frames') = Living'
  BY <1>5, <1>15, LiveNext
<1>17. Calls!Named(Pairs') = Calls!Live(Frames')
  BY <1>16, NamedNext
<1>18. ASSUME NEW x \in Living PROVE x \in Living' /\ Value(x)' = Value(x)
  <2>1. PICK m \in 0 .. Running : \E u \in Owned(Scope(m)) : \E j \in Room(u) : x = <<m, u, j>>
    BY LivesWhere
  <2>2. PICK u \in Owned(Scope(m)) : \E j \in Room(u) : x = <<m, u, j>>
    BY <2>1
  <2>3. PICK j \in Room(u) : x = <<m, u, j>>
    BY <2>2
  <2>4. m # 0 => cstack'[m] = cstack[m]
    BY <1>1, <1>2, <1>5
  <2>5. Value(x)' = Value(x)
    BY <1>5, <2>3, <2>4, ValuesKept
  <2>6. x \in Living'
    <3>1. m \in 0 .. Running' /\ u \in Owned(IF m = 0 THEN 0 ELSE cstack'[m].proc)
      BY <1>1, <1>2, <1>5, <2>4 DEF Scope
    <3>2. /\ \A q : Owned(q)' = Owned(q)
          /\ \A v : Room(v)' = Room(v)
      BY DEF Owned, Room, IsArgument, Var, Variables
    <3>3. Living' = UNION {UNION {{<<n, v, i>> : i \in Room(v)} :
                             v \in Owned(IF n = 0 THEN 0 ELSE cstack'[n].proc)} :
                           n \in 0 .. Running'}
      BY <3>2 DEF Living
    <3>. QED
      BY <2>3, <3>1, <3>3
  <2>. QED
    BY <2>5, <2>6
<1>19. Pairs \subseteq Pairs'
  <2>1. SUFFICES ASSUME NEW x \in Living PROVE <<x, Value(x)>> \in Pairs'
    BY DEF Pairs
  <2>2. x \in Living' /\ Value(x)' = Value(x)
    BY <1>18
  <2>3. <<x, Value(x)'>> \in Pairs'
    BY <2>2 DEF Pairs
  <2>. QED
    BY <2>2, <2>3
<1>20. Calls!Call
  <2>1. Len(Frames') = Len(Frames) + 1
    BY <1>7, <1>8
  <2>2. /\ DOMAIN f.refs = Calls!Args(f.proc)
        /\ \A a \in Calls!Referring(f) :
             f.refs[a] \in Calls!Passable(Len(Frames), Frames[Len(Frames)])
    BY <1>2, <1>7, <1>13, <1>14
  <2>3. f = Frames'[Len(Frames')]
    BY <1>8, <1>10
  <2>. QED
    BY <1>7, <1>9, <1>17, <1>19, <2>1, <2>2, <2>3
       DEF Calls!Call, Frames, Pairs, Value, Arguments
<1>21. Kinds'
  <2>1. ASSUME NEW n \in 1 .. (d + 1), NEW k \in 1 .. Procedures[cstack'[n].proc].args
        PROVE  SlotOf(n, k)'.kind \in {0, 1}
    <3>1. CASE n \in 1 .. d
      <4>1. n \in 1 .. Running
        BY <1>1, <1>2, <3>1
      <4>2. SlotsStay(n) /\ cstack'[n] = cstack[n]
        BY <1>5, <3>1, <4>1, SlotsKept
      <4>3. SlotOf(n, k)'.kind = SlotOf(n, k).kind
        BY <4>1, <4>2, SlotStays
      <4>. QED
        BY <4>1, <4>2, <4>3 DEF Kinds
    <3>2. CASE n = d + 1
      <4>1. k \in 1 .. args
        BY <1>4, <1>5, <3>2
      <4>2. PICK r : r = SlotOf(d + 1, k)'
        OBVIOUS
      <4>. QED
        BY <1>5, <3>2, <4>1, <4>2
    <3>. QED
      BY <3>1, <3>2
  <2>. QED
    BY <1>5, <2>1 DEF Kinds, Procedures
<1>. QED
  BY <1>20, <1>21, ShapesStay DEF Follows

LEMMA CallFollows ==
  ASSUME Live, Kinds, Call, "wrapped" \notin faults'
  PROVE  Follows
<1>1. Inst.op = "call" /\ status = "ACTIVE"
  BY DEF Call
<1>2. CASE Overflows(Inst.proc, sp)
  <2>1. Fail("STACK_OVERFLOW")
    BY <1>2 DEF Call
  <2>. QED
    BY <2>1, FailFollows
<1>3. CASE ~Overflows(Inst.proc, sp)
  <2>1. PICK refs \in ArgRefs(Inst.args) :
          IF Failing(refs) = {}
            THEN /\ Push(Inst.proc, refs, sp, ip + 1)
                 /\ faults' = faults \cup
                      UNION {Wrapping(Inst.args[k], refs[k]) : k \in DOMAIN refs}
                 /\ UNCHANGED <<program, result, last>>
            ELSE \E i \in Failing(refs) :
                   /\ \A j \in Failing(refs) : i <= j
                   /\ status' = refs[i].status
                   /\ mem' = WithFrame(Inst.proc, sp, refs, i - 1)
                   /\ UNCHANGED <<program, cstack, sp, ip, result, last, faults>>
    BY <1>3 DEF Call
  <2>2. CASE Failing(refs) = {}
    <3>1. \A k \in DOMAIN refs : Wrapping(Inst.args[k], refs[k]) \subseteq faults'
      BY <2>1, <2>2
    <3>2. \A k \in DOMAIN refs : ~Wraps(Inst.args[k], refs[k])
      BY <3>1 DEF Wrapping
    <3>. QED
      BY <1>1, <1>3, <2>1, <2>2, <3>2, PushFollows
  <2>3. CASE Failing(refs) # {}
    <3>1. PICK i \in Failing(refs) :
            /\ status' = refs[i].status
            /\ mem' = WithFrame(Inst.proc, sp, refs, i - 1)
            /\ UNCHANGED program
      BY <2>1, <2>3
    <3>2. /\ program \in Programs /\ sp \in Nat /\ mem \in [Address -> Int]
          /\ Depth \in Nat /\ Depth > 0 /\ Running = Depth
      BY Frame DEF Live
    <3>3. PICK p \in Procs : p = Inst.proc
      BY <1>1, <3>2, Top, Verified DEF Inst, Live
    <3>4. PICK args \in Nat : args = Procedures[p].args
      BY <3>2, FrameHolds
    <3>5. /\ DOMAIN Inst.args = 1 .. args
          /\ \A k \in 1 .. args : Source(program, cstack[Depth].proc, Inst.args[k])
      BY <1>1, <3>3, <3>4, Executing
         DEF Live, Checked, Jumps, Arithmetic, Bitwise, Shifts, Procs, Procedures
    <3>6. /\ DOMAIN refs = 1 .. args
          /\ \A k \in 1 .. args : refs[k] \in SrcRefs(Inst.args[k])
      BY <3>5 DEF ArgRefs
    <3>7. \A k \in 1 .. args :
            refs[k].val \in Int /\ refs[k].index \in Int /\ refs[k].ptr \in Int
      BY <3>5, <3>6, SourceResolves
    <3>8. i \in 1 .. args /\ refs[i].status # "ACTIVE"
      BY <3>6 DEF Failing
    <3>9. PICK n \in Nat : n = i - 1 /\ \A k \in 1 .. n : k \in 1 .. args
      BY <3>8
    <3>10. /\ mem' \in [Address -> Int]
           /\ \A a \in Address : a < sp => mem'[a] = mem[a]
      <4>1. \A k \in 1 .. n :
              refs[k].val \in Int /\ refs[k].index \in Int /\ refs[k].ptr \in Int
        BY <3>7, <3>9
      <4>2. mem' = WithFrame(p, sp, refs, n)
        BY <3>1, <3>3, <3>9
      <4>3. /\ program \in Programs /\ p \in Procs /\ n \in Nat
            /\ sp \in Nat /\ mem \in [Address -> Int]
        BY <3>2
      <4>4. /\ mem' \in [Address -> Int]
            /\ \A a \in Address : a < sp => mem'[a] = mem[a]
            /\ \A k \in 1 .. n : \A f \in 0 .. 3 :
                 LET a == sp + Procedures[p].stackneeded - ArgSize * k + f
                 IN a \in Address /\ a >= sp => mem'[a] = Slot(refs[k])[f + 1]
        BY <4>1, <4>2, <4>3, FrameFilled
      <4>. QED
        BY <4>4
    <3>11. ASSUME NEW c \in 0 .. (InitialStack - 1) PROVE mem'[c] = mem[c]
      <4>1. 0 \in 0 .. Running /\ c \in Extent(0)
        BY <3>2 DEF Extent
      <4>2. c \in Address /\ c < sp
        BY <4>1, ExtentBelow
      <4>. QED
        BY <3>10, <4>2
    <3>12. status' # "ACTIVE"
      BY <3>1, <3>8
    <3>. QED
      BY <3>1, <3>11, <3>12, StopMaps, NoKinds DEF Follows
  <2>. QED
    BY <2>2, <2>3
<1>. QED
  BY <1>2, <1>3

(* A return takes the frame on top, and all that lives in it.              *)
LEMMA RetFollows ==
  ASSUME Live, Kinds, Ret
  PROVE  Follows
<1>1. /\ program \in Programs /\ Depth \in Nat /\ Depth > 0 /\ Running = Depth
      /\ Controlled /\ Ordered /\ References
  BY Frame DEF Live, Sound
<1>2. PICK d \in Nat : d = Depth
  BY <1>1
<1>3. /\ d > 1 /\ cstack \in Seq(Entries) /\ Running = d /\ status = "ACTIVE"
      /\ \A n \in 1 .. d : cstack[n] \in Entries
  BY <1>1, <1>2, Top DEF Ret, Depth, Live
<1>4. /\ cstack' = SubSeq(cstack, 1, d - 1)
      /\ UNCHANGED <<program, mem, status>>
  BY <1>2 DEF Ret, Depth
<1>5. /\ Len(cstack') = d - 1
      /\ \A n \in 1 .. (d - 1) : cstack'[n] = cstack[n]
  BY <1>2, <1>3, <1>4, SubSeqProperties DEF Depth
<1>6. PICK e \in Nat : e = d - 1 /\ e >= 1
  BY <1>3
<1>7. Running' = e
  BY <1>3, <1>4, <1>5, <1>6 DEF Running, Depth
<1>8. \A a \in Address : a < sp => mem'[a] = mem[a]
  BY <1>4
<1>9. ASSUME NEW n \in 1 .. e
      PROVE  /\ n \in 1 .. Running /\ n \in 1 .. Running'
             /\ SlotsStay(n) /\ cstack'[n] = cstack[n] /\ Frames'[n] = Frames[n]
  <2>1. n \in 1 .. Running /\ n \in 1 .. Running'
    BY <1>3, <1>6, <1>7
  <2>2. SlotsStay(n)
    BY <1>8, <2>1, SlotsKept
  <2>3. cstack'[n] = cstack[n] /\ \A j \in 1 .. n : cstack'[j] = cstack[j]
    BY <1>5, <1>6
  <2>4. Frames'[n] = Frames[n]
    BY <1>1, <1>4, <2>1, <2>2, <2>3, FrameStays
  <2>. QED
    BY <2>1, <2>2, <2>3, <2>4
<1>10. Len(Frames) = d
  BY <1>1, <1>2, FramesSequence
<1>11. Frames' = SubSeq(Frames, 1, e)
  <2>1. PICK S : S = {Frames[n] : n \in 1 .. e}
    OBVIOUS
  <2>2. \A i \in 1 .. e : Frames[i] \in S
    BY <2>1
  <2>3. PICK t : t = SubSeq(Frames, 1, e)
    OBVIOUS
  <2>4. /\ t \in Seq(S) /\ Len(t) = e
        /\ \A i \in 1 .. e : t[i] = Frames[i]
    <3>1. /\ SubSeq(Frames, 1, e) \in Seq(S)
          /\ Len(SubSeq(Frames, 1, e)) = IF 1 <= e THEN e - 1 + 1 ELSE 0
          /\ \A i \in 1 .. e - 1 + 1 : SubSeq(Frames, 1, e)[i] = Frames[1 + i - 1]
      BY <2>2, SubSeqProperties
    <3>2. \A i \in 1 .. e : i \in 1 .. (e - 1 + 1) /\ 1 + i - 1 = i
      OBVIOUS
    <3>3. 1 <= e /\ e - 1 + 1 = e
      BY <1>6
    <3>. QED
      BY <2>3, <3>1, <3>2, <3>3
  <2>5. Frames' = [n \in 1 .. e |-> Frames'[n]]
    <3>1. Frames' = [n \in 1 .. Running' |-> Frames'[n]]
      BY DEF Frames
    <3>. QED
      BY <1>7, <3>1
  <2>6. Frames' \in [1 .. e -> S]
    BY <1>9, <2>2, <2>5
  <2>7. Len(Frames') = e /\ Frames' \in Seq(S)
    BY <2>6, LengthOfArguments, SeqDef
  <2>8. \A i \in 1 .. Len(t) : t[i] = Frames'[i]
    BY <1>9, <2>4
  <2>9. t = Frames'
    BY <2>4, <2>7, <2>8, SeqEqual
  <2>. QED
    BY <2>3, <2>9
<1>12. ASSUME NEW n \in 1 .. Running' PROVE cstack'[n].proc \in Procs
  <2>1. n \in 1 .. e
    BY <1>7
  <2>. QED
    BY <1>1, <1>9, <2>1, RunningFrame
<1>13. Calls!Live(Frames') = Living' /\ Calls!Named(Pairs') = Living'
  BY <1>4, <1>6, <1>7, <1>12, LiveNext, NamedNext
<1>14. Pairs' \subseteq Pairs
  <2>1. SUFFICES ASSUME NEW x \in Living' PROVE <<x, Value(x)'>> \in Pairs
    BY DEF Pairs
  <2>2. /\ \A q : Owned(q)' = Owned(q)
        /\ \A v : Room(v)' = Room(v)
    BY <1>4 DEF Owned, Room, IsArgument, Var, Variables
  <2>3. Living' = UNION {UNION {{<<n, v, i>> : i \in Room(v)} :
                           v \in Owned(IF n = 0 THEN 0 ELSE cstack'[n].proc)} :
                         n \in 0 .. e}
    BY <1>7, <2>2 DEF Living
  <2>4. PICK m \in 0 .. e : \E u \in Owned(IF m = 0 THEN 0 ELSE cstack'[m].proc) :
          \E j \in Room(u) : x = <<m, u, j>>
    BY <2>3
  <2>5. m # 0 => m \in 1 .. e
    OBVIOUS
  <2>6. m \in 0 .. Running /\ m # 0 => cstack'[m] = cstack[m]
    BY <1>9, <2>5
  <2>7. m \in 0 .. Running
    BY <1>3, <1>6
  <2>8. PICK u \in Owned(Scope(m)) : \E j \in Room(u) : x = <<m, u, j>>
    BY <2>4, <2>6, <2>7 DEF Scope
  <2>9. PICK j \in Room(u) : x = <<m, u, j>>
    BY <2>8
  <2>10. Value(x)' = Value(x)
    BY <1>4, <1>8, <2>6, <2>7, <2>9, ValuesKept
  <2>11. x \in Living
    BY <2>7, <2>9, LivesWhere
  <2>. QED
    BY <2>10, <2>11 DEF Pairs
<1>15. Calls!Return
  <2>1. Len(Frames) > 1 /\ Len(Frames) - 1 = e
    BY <1>3, <1>6, <1>10
  <2>2. Frames' = SubSeq(Frames, 1, Len(Frames) - 1)
    BY <1>11, <2>1
  <2>3. Calls!Named(Pairs') = Calls!Live(Frames')
    BY <1>13
  <2>. QED
    BY <1>14, <2>1, <2>2, <2>3 DEF Calls!Return, Frames, Pairs, Value, Arguments
<1>16. Kinds'
  <2>1. ASSUME NEW n \in 1 .. e, NEW k \in 1 .. Procedures[cstack'[n].proc].args
        PROVE  SlotOf(n, k)'.kind \in {0, 1}
    <3>1. SlotOf(n, k)'.kind = SlotOf(n, k).kind
      BY <1>4, <1>9, SlotStays
    <3>. QED
      BY <1>9, <3>1 DEF Kinds
  <2>. QED
    BY <1>4, <1>7, <2>1 DEF Kinds, Procedures
<1>. QED
  BY <1>4, <1>15, <1>16, ShapesStay DEF Follows

-----------------------------------------------------------------------------
(* crustyvm_reset and crustyvm_begin.                                      *)

LEMMA ResetFollows ==
  ASSUME Reset
  PROVE  Follows
<1>1. UNCHANGED program /\ status # "ACTIVE" /\ status' # "ACTIVE"
  BY DEF Reset
<1>. QED
  BY <1>1, IdleFollows

(* The procedure that is begun has no arguments, and its frame is beyond   *)
(* the globals.                                                            *)
LEMMA BeginFollows ==
  ASSUME Controlled, Ordered, Sound, NEW p \in Procs \cup {0}, Begin(p)
  PROVE  Follows
<1>1. /\ program \in Programs /\ UNCHANGED program /\ status # "ACTIVE"
      /\ InitialStack \in Nat /\ StackSize \in Nat /\ mem \in [Address -> Int]
  BY Verified DEF Controlled, IInv, Grounded, Begin, Sound, Typed
<1>2. CASE ~(p # 0 /\ Procedures[p].args = 0
             /\ InitialStack + Procedures[p].stackneeded <= StackSize)
  <2>1. status' \in {"STACK_OVERFLOW", "NO_PROC"}
    BY <1>2 DEF Begin
  <2>. QED
    BY <1>1, <2>1, IdleFollows
<1>3. CASE p # 0 /\ Procedures[p].args = 0
           /\ InitialStack + Procedures[p].stackneeded <= StackSize
  <2>1. /\ cstack' = <<[ip |-> 0, proc |-> p, base |-> InitialStack]>>
        /\ mem' = WithFrame(p, InitialStack, <<>>, 0)
        /\ status' = "ACTIVE"
    BY <1>3 DEF Begin
  <2>2. p \in Procs
    BY <1>3
  <2>3. Running' = 1 /\ cstack'[1].proc = p
    BY <2>1 DEF Depth, Running
  <2>4. ASSUME NEW c \in 0 .. (InitialStack - 1) PROVE mem'[c] = mem[c]
    <3>1. PICK need \in Nat : need = Procedures[p].stackneeded
      BY <1>1, <2>2, FrameHolds
    <3>2. c \in Address /\ c < InitialStack
      BY <1>1, <1>3, <3>1 DEF Address
    <3>3. \A a \in Address : a < InitialStack => mem'[a] = mem[a]
      BY <1>1, <2>1, <2>2, FrameFilled
    <3>. QED
      BY <3>2, <3>3
  <2>5. Running = 0 /\ Frames = <<>> /\ Living = Calls!Elements(0, 0)
    BY <1>1, LivingGlobals DEF Running
  <2>6. Arguments(p)' = {}
    <3>1. Arguments(p)' = Arguments(p)
      BY <1>1 DEF Arguments, Owned, IsArgument, Var, Variables
    <3>2. ASSUME NEW a \in Arguments(p) PROVE FALSE
      <4>1. /\ a \in DOMAIN Variables /\ Var(a).scope = p /\ IsArgument(a)
        BY <3>2 DEF Arguments, Owned
      <4>2. Var(a).offset \in 1 .. Procedures[p].args
        BY <1>1, <1>3, <2>2, <4>1, VariablesLaid DEF IsGlobal, IsArgument
      <4>. QED
        BY <1>3, <4>2
    <3>. QED
      BY <3>1, <3>2
  <2>7. /\ Len(Frames') = 1 /\ DOMAIN Frames'[1].refs = {}
    <3>1. Frames' \in [1 .. Running' -> {Frames'[n] : n \in 1 .. Running'}]
      BY DEF Frames
    <3>2. Len(Frames') = 1
      BY <2>3, <3>1, LengthOfArguments
    <3>3. \A n \in 1 .. Running' :
            Frames'[n] = [proc |-> cstack'[n].proc,
                          refs |-> [v \in Arguments(cstack[n].proc)' |-> Referred(n, v)']]
      BY DEF Frames
    <3>4. 1 \in 1 .. Running'
      BY <2>3
    <3>5. \A q : Arguments(q)' = Arguments(q)
      BY <1>1 DEF Arguments, Owned, IsArgument, Var, Variables
    <3>6. Frames'[1] = [proc |-> p, refs |-> [v \in Arguments(p)' |-> Referred(1, v)']]
      BY <2>3, <3>3, <3>4, <3>5
    <3>. QED
      BY <2>6, <3>2, <3>6
  <2>8. Calls!Live(Frames') = Living' /\ Calls!Named(Pairs') = Living'
    <3>1. \A n \in 1 .. Running' : cstack'[n].proc \in Procs
      BY <2>2, <2>3
    <3>. QED
      BY <1>1, <2>3, <3>1, LiveNext, NamedNext
  <2>9. Pairs \subseteq Pairs'
    <3>1. SUFFICES ASSUME NEW x \in Living PROVE <<x, Value(x)>> \in Pairs'
      BY DEF Pairs
    <3>2. Calls!Elements(0, 0) = Elements(0, 0)
      BY CallsElements
    <3>3. Value(x)' = Value(x)
      BY <1>1, <2>4, <2>5, <3>1, <3>2, GlobalStays
    <3>4. x \in Living'
      <4>1. /\ \A q : Owned(q)' = Owned(q)
            /\ \A v : Room(v)' = Room(v)
        BY <1>1 DEF Owned, Room, IsArgument, Var, Variables
      <4>2. Living' = UNION {UNION {{<<n, v, i>> : i \in Room(v)} :
                               v \in Owned(IF n = 0 THEN 0 ELSE cstack'[n].proc)} :
                             n \in 0 .. Running'}
        BY <4>1 DEF Living
      <4>3. 0 \in 0 .. Running'
        BY <2>3
      <4>4. PICK v \in Owned(0) : x \in {<<0, v, i>> : i \in Room(v)}
        BY <2>5, <3>2 DEF Elements
      <4>. QED
        BY <4>2, <4>3, <4>4
    <3>5. <<x, Value(x)'>> \in Pairs'
      BY <3>4 DEF Pairs
    <3>. QED
      BY <3>3, <3>5
  <2>10. Calls!Start
    <3>1. Calls!Named(Pairs') = Calls!Live(Frames')
      BY <2>8
    <3>. QED
      BY <2>5, <2>7, <2>9, <3>1 DEF Calls!Start, Frames, Pairs, Value, Arguments
  <2>11. Kinds'
    <3>1. Procedures'[cstack'[1].proc].args = 0
      BY <1>1, <1>3, <2>3 DEF Procedures
    <3>2. \A n \in 1 .. Running' : n = 1
      BY <2>3
    <3>. QED
      BY <3>1, <3>2 DEF Kinds
  <2>. QED
    BY <1>1, <2>10, <2>11, ShapesStay DEF Follows
<1>. QED
  BY <1>2, <1>3

-----------------------------------------------------------------------------
(* The refinement.                                                         *)

LEMMA StepFollows ==
  ASSUME Controlled, Ordered, Sound, Kinds, [Next]_vars, Clean'
  PROVE  Follows
<1>1. ASSUME status = "ACTIVE" PROVE Live
  BY <1>1 DEF Live
<1>2. CASE Move
  BY <1>1, <1>2, MoveFollows DEF Move
<1>3. CASE Operation
  BY <1>1, <1>3, OperationFollows DEF Operation
<1>4. CASE Cmp
  BY <1>1, <1>4, CmpFollows DEF Cmp
<1>5. CASE Jump \/ JumpIf \/ RetLast
  BY <1>1, <1>5, JumpFollows DEF Jump, JumpIf, RetLast
<1>6. CASE Call
  BY <1>1, <1>6, CallFollows DEF Call, Clean
<1>7. CASE Ret
  BY <1>1, <1>7, RetFollows DEF Ret
<1>8. CASE Reset
  BY <1>8, ResetFollows
<1>9. CASE \E p \in Procs \cup {0} : Begin(p)
  BY <1>9, BeginFollows
<1>10. CASE UNCHANGED vars
  <2>1. UNCHANGED <<program, cstack, status, mem>>
    BY <1>10 DEF vars
  <2>2. CASE status = "ACTIVE"
    BY <1>1, <2>1, <2>2, QuietFollows
  <2>3. CASE status # "ACTIVE"
    BY <2>1, <2>3, IdleFollows
  <2>. QED
    BY <2>2, <2>3
<1>. QED
  BY <1>2, <1>3, <1>4, <1>5, <1>6, <1>7, <1>8, <1>9, <1>10 DEF Next

LEMMA StartsAsCalls == Init => Calls!Init /\ Kinds
<1>. SUFFICES ASSUME Init PROVE Calls!Init /\ Kinds
  OBVIOUS
<1>1. Running = 0
  BY DEF Init, Running
<1>2. Living = Calls!Elements(0, 0) /\ Frames = <<>>
  BY <1>1, LivingGlobals
<1>3. Calls!Named(Pairs) = Calls!Elements(0, 0)
  BY <1>2, NamedNow
<1>4. Calls!Init
  BY <1>2, <1>3 DEF Calls!Init, Frames, Pairs, Value, Arguments
<1>5. Kinds
  <2>1. 1 .. Running = {}
    BY <1>1
  <2>. QED
    BY <2>1 DEF Kinds
<1>. QED
  BY <1>4, <1>5

LEMMA StepRefines == Follows => [Calls!Next]_(Calls!vars)
<1>. SUFFICES ASSUME Follows PROVE [Calls!Next]_(Calls!vars)
  OBVIOUS
<1>1. CASE \/ Calls!Reset \/ Calls!Start \/ Calls!Write \/ Calls!Call
           \/ Calls!Return \/ Calls!Stop
  <2>1. Shapes' = Shapes
    BY DEF Follows
  <2>. QED
    BY <1>1, <2>1 DEF Calls!Next, Shapes, InMemoryAll
<1>2. CASE Pairs' = Pairs /\ Frames' = Frames
  <2>1. Shapes' = Shapes
    BY DEF Follows
  <2>. QED
    BY <1>2, <2>1 DEF Calls!vars, Shapes, InMemoryAll, Pairs, Frames, Value, Arguments
<1>. QED
  BY <1>1, <1>2 DEF Follows

(* As long as nothing was stored into a variable that cannot be written    *)
(* and no sum of indexes has wrapped, the state of the machine is that of  *)
(* CallByReference.                                                        *)
Mapped == Kept /\ (Clean => Kinds)

LEMMA StepMapped == Mapped /\ [Next]_vars => Mapped'
<1>. SUFFICES ASSUME Mapped, [Next]_vars PROVE Mapped'
  OBVIOUS
<1>1. Kept'
  BY StepKept DEF Mapped
<1>2. ASSUME Clean' PROVE Kinds'
  <2>1. Clean
    BY <1>2, FaultsStay DEF Clean
  <2>2. Follows
    BY <1>2, <2>1, StepFollows DEF Mapped, Kept
  <2>. QED
    BY <2>2 DEF Follows
<1>. QED
  BY <1>1, <1>2 DEF Mapped

(* The machine with its call stack, its slots and its addresses does what  *)
(* calls by reference do, whatever the program and the width of its ints,  *)
(* as long as it does not store into a read callback that it was passed    *)
(* (which update_dest_ref lets it do) and no sum of an index and of the    *)
(* element passed wraps (which update_src_ref and update_dest_ref accept). *)
THEOREM CallsImplemented == Spec /\ []Clean => ImplementsCalls
<1>1. Init => Mapped
  BY InitiallyKept, StartsAsCalls DEF Mapped
<1>2. Mapped /\ [Next]_vars => Mapped'
  BY StepMapped
<1>3. Init => Calls!Init
  BY StartsAsCalls
<1>4. Mapped /\ [Next]_vars /\ Clean /\ Clean' => [Calls!Next]_(Calls!vars)
  BY StepFollows, StepRefines DEF Mapped, Kept
<1>. QED
  BY <1>1, <1>2, <1>3, <1>4, PTL DEF Spec, ImplementsCalls, Calls!Spec

(* So a program none of whose calls passes a read callback that cannot be  *)
(* written implements calls by reference as long as no such sum wraps.     *)
THEOREM CallsImplementedWhenPassed ==
  Spec /\ PassesWritable(program) /\ []("wrapped" \notin faults) => ImplementsCalls
<1>. DEFINE W == "wrapped" \notin faults
            R == "read_only" \notin faults
            T == TypeOK /\ ReferencesLive /\ InRange
<1>1. Spec /\ PassesWritable(program) => [](W => T /\ R)
  BY WritableWhenPassed
<1>2. W /\ R => Clean
  BY DEF Clean
<1>3. Spec /\ PassesWritable(program) /\ []W => []Clean
  <2>. HIDE DEF W, R, T
  <2>. QED
    BY <1>1, <1>2, PTL
<1>. QED
  BY <1>3, CallsImplemented, PTL
=============================================================================
