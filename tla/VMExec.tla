------------------------------- MODULE VMExec -------------------------------
(***************************************************************************)
(* The execution of a loaded program by src/crustyvm.c: crustyvm_reset,    *)
(* crustyvm_begin, and crustyvm_step with the resolution of references     *)
(* (update_src_ref, update_dest_ref) and the calls it is built from.       *)
(*                                                                         *)
(* Memory is a sequence of cells of four bytes.  Globals come first, then  *)
(* one frame per procedure that is being called: its locals, and at its    *)
(* end one slot of four cells per argument, which says whether the         *)
(* argument is an immediate or refers to an element of a variable, and     *)
(* where in memory that variable is.  A float is a whole number in the     *)
(* first of its two cells.  Instructions take one place each.              *)
(***************************************************************************)
EXTENDS Integers, Sequences

CONSTANTS
  Programs,        \* programs as crustyvm_new makes them; see VMLayout
  CallbackValues,  \* the values the read callbacks return
  Word             \* 2^32 in the code: an int wraps; 0: ints never wrap

Jumps == {"jump", "jumpn", "jumpz", "jumpl", "jumpg"}

(* The arithmetic instructions, and those on integers only: bitwise and    *)
(* shifts.                                                                 *)
Arithmetic == {"add", "sub", "mul", "div", "mod"}
Bitwise    == {"and", "or", "xor"}
Shifts     == {"shr", "shl"}

ArgSize == 4

-----------------------------------------------------------------------------
(* What the loader makes certain of before a program is run.               *)

Footprint(x) == x.length * (IF x.type = "FLOAT" THEN 2 ELSE 1)

(* new_variable and symbols_verify: a global is not empty and lies in the  *)
(* initial stack, unless it is a callback, whose offset is never set; an   *)
(* argument has a slot of its procedure's, and a local lies in its frame   *)
(* below the slots.                                                        *)
Laid(q, x) ==
  /\ x.length \in Nat /\ x.offset \in Int /\ {x.read, x.write} \subseteq BOOLEAN
  /\ \/ /\ x.scope = 0 /\ x.length > 0
        /\ \/ x.read \/ x.write
           \/ x.offset \in Nat /\ x.offset + Footprint(x) <= q.initialstack
     \/ /\ x.scope \in DOMAIN q.proc /\ ~x.read /\ ~x.write
        /\ \/ /\ x.length = 0 /\ x.type # "FLOAT"
              /\ x.offset \in 1 .. q.proc[x.scope].args
           \/ /\ x.length > 0
              /\ ArgSize * q.proc[x.scope].args <= x.offset - Footprint(x)
              /\ x.offset <= q.proc[x.scope].stackneeded

(* Where a variable that has memory lies: a global counts from the start   *)
(* of memory, a local and the slot of an argument from the end of a frame. *)
Place(x) ==
  LET first == IF x.scope = 0 THEN x.offset
               ELSE IF x.length = 0 THEN 0 - ArgSize * x.offset ELSE 0 - x.offset
      size  == IF x.length = 0 THEN ArgSize ELSE Footprint(x)
  IN first .. (first + size - 1)

(* new_variable: each variable has cells of its own.                       *)
CellsOfItsOwn(q) ==
  \A v, w \in {u \in DOMAIN q.var : ~q.var[u].read /\ ~q.var[u].write} :
    v # w /\ q.var[v].scope = q.var[w].scope
      => Place(q.var[v]) \cap Place(q.var[w]) = {}

(* populate_var and check_move_arg: what an instruction of procedure p can *)
(* name, and which callbacks it can read or write.                         *)
Nameable(q, p, v) == v \in DOMAIN q.var /\ q.var[v].scope \in {0, p}
Readable(x) == x.write => x.read
Writable(x) == x.read => x.write

ElementOf(q, p, o) ==
  /\ Nameable(q, p, o.val)
  /\ \/ o.indexkind = "imm" /\ o.index \in Int
     \/ /\ o.indexkind = "var"
        /\ Nameable(q, p, o.index) /\ Readable(q.var[o.index])

Destination(q, p, o) ==
  o.kind = "var" /\ ElementOf(q, p, o) /\ Writable(q.var[o.val])

Source(q, p, o) ==
  \/ o.kind = "imm" /\ o.val \in Int
  \/ o.kind = "len" /\ Nameable(q, p, o.val)
  \/ o.kind = "var" /\ ElementOf(q, p, o) /\ Readable(q.var[o.val])

(* check_instruction, and the number of arguments, which codegen checks.   *)
Checked(q, p, x) ==
  \/ x.op = "ret"
  \/ x.op \in Jumps /\ x.to \in q.proc[p].instruction .. q.proc[p].last
  \/ x.op = "cmp" /\ Source(q, p, x.dest) /\ Source(q, p, x.src)
  \/ /\ x.op \in {"move"} \cup Arithmetic \cup Bitwise \cup Shifts
     /\ Destination(q, p, x.dest) /\ Source(q, p, x.src)
  \/ /\ x.op = "call" /\ x.proc \in DOMAIN q.proc
     /\ DOMAIN x.args = 1 .. q.proc[x.proc].args
     /\ \A k \in DOMAIN x.args : Source(q, p, x.args[k])

(* symbols_scan and codeverify: a procedure has room for its arguments,    *)
(* ends at its first ret, and there is no code but that of procedures.     *)
ProcedureOk(q, p) ==
  LET x == q.proc[p]
  IN /\ x.args \in Nat /\ x.stackneeded \in Nat /\ ArgSize * x.args <= x.stackneeded
     /\ x.init \in [1 .. x.stackneeded -> Int]
     /\ x.instruction \in Nat /\ x.last \in Nat /\ x.instruction <= x.last
     /\ \A i \in x.instruction .. x.last :
          /\ i \in DOMAIN q.inst
          /\ q.inst[i].op = "ret" <=> i = x.last
          /\ Checked(q, p, q.inst[i])

WellFormed(q) ==
  /\ q.initialstack \in Nat /\ q.stacksize \in Nat /\ q.callstacksize \in Nat \ {0}
  /\ q.init \in [1 .. q.initialstack -> Int]
  /\ DOMAIN q.var \subseteq Nat \ {0} /\ DOMAIN q.proc \subseteq Nat \ {0}
  /\ \A v \in DOMAIN q.var : Laid(q, q.var[v])
  /\ CellsOfItsOwn(q)
  /\ \A p \in DOMAIN q.proc : ProcedureOk(q, p)
  /\ \A i \in DOMAIN q.inst :
       \E p \in DOMAIN q.proc : i \in q.proc[p].instruction .. q.proc[p].last

ASSUME ProgramsVerified == \A q \in Programs : WellFormed(q)
ASSUME NumbersAreNumbers == Word \in Nat /\ CallbackValues \subseteq Int

VARIABLES
  program,         \* the program that was loaded
  mem,             \* stack, the VM's memory
  cstack,          \* the call stack; csp is its length
  sp, ip,
  resulttype, intresult, floatresult, status,
  last,            \* history: the value last written, passed on or compared
  faults           \* history: what an access to memory must not do, and
                   \* whether the sum of two indexes has wrapped

(* The parts of the program. *)
Variables     == program.var
Procedures    == program.proc
Code          == program.inst
InitialStack  == program.initialstack
InitialCells  == program.init
StackSize     == program.stacksize
CallStackSize == program.callstacksize

result == <<resulttype, intresult, floatresult>>
vars   == <<program, mem, cstack, sp, ip, result, status, last, faults>>

Var(v)         == Variables[v]
Procs          == DOMAIN Procedures
Inst           == Code[ip]
IsArgument(v)  == Var(v).length = 0
IsGlobal(v)    == Var(v).scope = 0
IsFloat(v)     == Var(v).type = "FLOAT"
Size(v)        == IF IsFloat(v) THEN 2 ELSE 1
Address        == 0 .. (StackSize - 1)
Cell(a)        == IF a \in Address THEN mem[a] ELSE 0

(* Conversion of a number to an int. *)
Wrapped(x) == IF Word = 0 THEN x ELSE ((x + Word \div 2) % Word) - Word \div 2

-----------------------------------------------------------------------------
(* References.  An outcome carries the status it leaves: "ACTIVE" when it  *)
(* succeeds.                                                               *)

Good(x) == [status |-> "ACTIVE", value |-> x]
Bad(s)  == [status |-> s, value |-> 0]

RefTo(v, index, ptr) ==
  [status |-> "ACTIVE", kind |-> "var", val |-> v, index |-> index, ptr |-> ptr]
Immediate(n) ==
  [status |-> "ACTIVE", kind |-> "imm", val |-> n, index |-> 0, ptr |-> 0]
Unresolved(s) ==
  [status |-> s, kind |-> "none", val |-> 0, index |-> 0, ptr |-> 0]

(* read_var: a callback's value, or what is in memory. *)
ReadVar(v, ptr, index) ==
  IF Var(v).read
    THEN {Good(x) : x \in CallbackValues} \cup {Bad("CALLBACK_FAILED")}
    ELSE {Good(Cell(ptr + index * Size(v)))}

(* STACK_ARG and GET_PTR, in the frame that ends at sp. *)
ArgAt(k) == sp - ArgSize * k
Arg(v) ==
  LET at == ArgAt(Var(v).offset)
  IN [kind |-> IF mem[at] = 1 THEN "var" ELSE "imm",
      val |-> mem[at + 1], index |-> mem[at + 2], ptr |-> mem[at + 3]]
FaultyPtr(v) == IF IsGlobal(v) THEN Var(v).offset ELSE sp + Var(v).offset
GetPtr(v) == IF IsGlobal(v) THEN Var(v).offset ELSE sp - Var(v).offset

(* The index an operand is taken at: a number, or the value of a variable, *)
(* which may be an argument.                                               *)
IndexOf(o) ==
  IF o.indexkind = "imm" THEN {Good(o.index)}
  ELSE IF ~IsArgument(o.index)
    THEN IF IsFloat(o.index) THEN {Bad("FLOAT_INDEX")}
         ELSE ReadVar(o.index, GetPtr(o.index), 0)
  ELSE LET a == Arg(o.index)
       IN IF a.kind = "imm" THEN {Good(a.val)}
          ELSE IF IsFloat(a.val) THEN {Bad("FLOAT_INDEX")}
          ELSE ReadVar(a.val, a.ptr, a.index)

(* The index into the variable that an argument refers to, from the index  *)
(* i into the argument, is it too large?                                   *)
FaultyBeyond(v, index) == index > Var(v).length    \* off by one
Beyond(v, index) == index > Var(v).length - 1

(* Operand o at the index i: what it refers to.  An argument that is an    *)
(* immediate is a number to read, and as a destination the cell of its     *)
(* slot that holds the number.                                             *)
FaultyAt(o, i, dest) ==         \* the element passed is not added
  IF i.status # "ACTIVE" THEN Unresolved(i.status)
  ELSE IF IsArgument(o.val) /\ Arg(o.val).kind = "var"
    THEN IF i.value \in 0 .. (Var(Arg(o.val).val).length - 1)
           THEN RefTo(Arg(o.val).val, i.value, Arg(o.val).ptr)
           ELSE Unresolved("OUT_OF_RANGE")
  ELSE IF IsArgument(o.val)
    THEN IF dest THEN RefTo(o.val, 0, ArgAt(Var(o.val).offset) + 1)
                 ELSE Immediate(Arg(o.val).val)
  ELSE IF i.value \in 0 .. (Var(o.val).length - 1)
    THEN RefTo(o.val, i.value, GetPtr(o.val))
  ELSE Unresolved("OUT_OF_RANGE")

At(o, i, dest) ==
  IF i.status # "ACTIVE" THEN Unresolved(i.status)
  ELSE IF ~IsArgument(o.val)
    THEN IF i.value \in 0 .. (Var(o.val).length - 1)
           THEN RefTo(o.val, i.value, GetPtr(o.val))
           ELSE Unresolved("OUT_OF_RANGE")
  ELSE LET a     == Arg(o.val)
           index == Wrapped(i.value + a.index)
       IN IF a.kind = "var"
            THEN IF i.value < 0 \/ Beyond(a.val, index)
                   THEN Unresolved("OUT_OF_RANGE") ELSE RefTo(a.val, index, a.ptr)
          ELSE IF i.value # 0 THEN Unresolved("OUT_OF_RANGE")
          ELSE IF dest THEN RefTo(o.val, 0, ArgAt(Var(o.val).offset) + 1)
          ELSE Immediate(a.val)

(* The length of a variable; of an argument, what is left from its element. *)
LengthOf(v) ==
  IF ~IsArgument(v) THEN Var(v).length
  ELSE IF Arg(v).kind = "var" THEN Var(Arg(v).val).length - Arg(v).index ELSE 1

SrcRefs(o) ==
  CASE o.kind = "imm" -> {Immediate(o.val)}
    [] o.kind = "len" -> {Immediate(LengthOf(o.val))}
    [] o.kind = "var" -> {At(o, i, FALSE) : i \in IndexOf(o)}

DestRefs(o) == {At(o, i, TRUE) : i \in IndexOf(o)}

(* fetch_val *)
Fetched(r) == IF r.kind = "var" THEN ReadVar(r.val, r.ptr, r.index) ELSE {Good(r.val)}

(* The first of two outcomes that failed, "ACTIVE" if neither did. *)
First(d, s) == IF d.status # "ACTIVE" THEN d.status ELSE s.status

InMemory(r) == r.kind = "var" /\ ~Var(r.val).read
Float(r)    == r.kind = "var" /\ IsFloat(r.val)

(* The cells of the element that r refers to. *)
Element(r) == (r.ptr + r.index * Size(r.val)) .. (r.ptr + (r.index + 1) * Size(r.val) - 1)

Room(v) == 0 .. (IF IsArgument(v) THEN 0 ELSE Var(v).length - 1)

(* What reading or writing the element r refers to must not do: leave the  *)
(* variable or the memory, or store into what has no memory.               *)
Outside(r) == r.index \notin Room(r.val) \/ ~(Element(r) \subseteq Address)
Reading(r) == IF InMemory(r) /\ Outside(r) THEN {"out_of_range"} ELSE {}
Writing(r) ==
  (IF Outside(r) THEN {"out_of_range"} ELSE {})
    \cup (IF Var(r.val).read THEN {"read_only"} ELSE {})

(* What the operand o refers to lies before the element it was passed: the *)
(* sum of that element and of an index that is not negative has wrapped.   *)
Wraps(o, r) ==
  /\ r.kind = "var" /\ IsArgument(o.val)
  /\ Arg(o.val).kind = "var" /\ r.index < Arg(o.val).index
Wrapping(o, r) == IF Wraps(o, r) THEN {"wrapped"} ELSE {}
Operands(d, s) == Wrapping(Inst.dest, d) \cup Wrapping(Inst.src, s)

(* store_result and write_var *)
Stored(r, x) ==
  [a \in Address |-> IF a = r.ptr + r.index * Size(r.val) THEN x
                     ELSE IF a \in Element(r) THEN 0 ELSE mem[a]]

-----------------------------------------------------------------------------
(* The program has been loaded and crustyvm_reset called; sp, csp, ip and  *)
(* the result are set by crustyvm_begin before they are used.              *)
Initialized(m) == [a \in Address |-> IF a < InitialStack
                                   THEN InitialCells[a + 1] ELSE m[a]]

Init ==
  /\ program \in Programs
  /\ mem = Initialized([a \in Address |-> 0])
  /\ cstack = <<>> /\ sp = 0 /\ ip = 0
  /\ resulttype = "INT" /\ intresult = 0 /\ floatresult = 0
  /\ status = "READY"
  /\ last = 0 /\ faults = {}

(* crustyvm_reset *)
Reset ==
  /\ status # "ACTIVE"
  /\ mem' = Initialized(mem)
  /\ status' = "READY"
  /\ UNCHANGED <<program, cstack, sp, ip, result, last, faults>>

(* A step that fails changes nothing that is looked at again. *)
Fail(s) ==
  /\ status' = s
  /\ UNCHANGED <<program, mem, cstack, sp, ip, result, last, faults>>

-----------------------------------------------------------------------------
(* call: the new frame is initialized, then the arguments are resolved in  *)
(* the caller's frame, one after the other, until one fails.               *)

Slot(r) == <<IF r.kind = "var" THEN 1 ELSE 0, r.val, r.index, r.ptr>>

(* Memory with the frame of p from base on and the first n slots filled. *)
WithFrame(p, base, refs, n) ==
  LET need == Procedures[p].stackneeded
      k(a) == (base + need - a + ArgSize - 1) \div ArgSize
  IN [a \in Address |->
        IF a \notin base .. (base + need - 1) THEN mem[a]
        ELSE IF k(a) <= n THEN Slot(refs[k(a)])[a - (base + need - ArgSize * k(a)) + 1]
        ELSE Procedures[p].init[a - base + 1]]

ArgRefs(args) ==
  {refs \in [DOMAIN args -> UNION {SrcRefs(args[i]) : i \in DOMAIN args}] :
     \A i \in DOMAIN args : refs[i] \in SrcRefs(args[i])}

Failing(refs) == {i \in DOMAIN refs : refs[i].status # "ACTIVE"}

(* The frame of p is pushed at base; base is kept in the call stack for    *)
(* the properties only.                                                    *)
FaultyPush(p, refs, base, ret) ==          \* the return goes to the call again
  /\ cstack' = Append(cstack, [ip |-> ret - 1, proc |-> p, base |-> base])
  /\ sp' = base + Procedures[p].stackneeded
  /\ ip' = Procedures[p].instruction
  /\ status' = "ACTIVE"
  /\ mem' = WithFrame(p, base, refs, Len(refs))

Push(p, refs, base, ret) ==
  /\ cstack' = Append(cstack, [ip |-> ret, proc |-> p, base |-> base])
  /\ sp' = base + Procedures[p].stackneeded
  /\ ip' = Procedures[p].instruction
  /\ status' = "ACTIVE"
  /\ mem' = WithFrame(p, base, refs, Len(refs))

FaultyOverflows(p, base) == base + Procedures[p].stackneeded > StackSize
Overflows(p, base) ==
  \/ Len(cstack) = CallStackSize
  \/ base + Procedures[p].stackneeded > StackSize

Call ==
  /\ status = "ACTIVE" /\ Inst.op = "call"
  /\ IF Overflows(Inst.proc, sp) THEN Fail("STACK_OVERFLOW")
     ELSE \E refs \in ArgRefs(Inst.args) :
            IF Failing(refs) = {}
              THEN /\ Push(Inst.proc, refs, sp, ip + 1)
                   /\ faults' = faults \cup
                        UNION {Wrapping(Inst.args[k], refs[k]) : k \in DOMAIN refs}
                   /\ UNCHANGED <<program, result, last>>
              ELSE \E i \in Failing(refs) :
                     /\ \A j \in Failing(refs) : i <= j
                     /\ status' = refs[i].status
                     /\ mem' = WithFrame(Inst.proc, sp, refs, i - 1)
                     /\ UNCHANGED <<program, cstack, sp, ip, result, last, faults>>

Ret ==
  /\ status = "ACTIVE" /\ Inst.op = "ret" /\ Len(cstack) > 1
  /\ ip' = cstack[Len(cstack)].ip
  /\ sp' = sp - Procedures[cstack[Len(cstack)].proc].stackneeded
  /\ cstack' = SubSeq(cstack, 1, Len(cstack) - 1)
  /\ UNCHANGED <<program, mem, result, status, last, faults>>

FaultyRetLast ==                           \* goes on at the return address
  /\ status = "ACTIVE" /\ Inst.op = "ret" /\ Len(cstack) = 1
  /\ ip' = cstack[1].ip
  /\ UNCHANGED <<program, mem, cstack, sp, result, status, last, faults>>

(* The return from the initial call ends the run and pops nothing. *)
RetLast ==
  /\ status = "ACTIVE" /\ Inst.op = "ret" /\ Len(cstack) = 1
  /\ status' = "READY"
  /\ UNCHANGED <<program, mem, cstack, sp, ip, result, last, faults>>

(* crustyvm_begin, with p = 0 for a name that is no procedure's. *)
Begin(p) ==
  /\ status = "READY"
  /\ resulttype' = "INT" /\ intresult' = 0 /\ floatresult' = 0 /\ last' = 0
  /\ UNCHANGED <<program, faults>>
  /\ IF p # 0 /\ Procedures[p].args = 0
          /\ InitialStack + Procedures[p].stackneeded <= StackSize
       THEN /\ cstack' = <<[ip |-> 0, proc |-> p, base |-> InitialStack]>>
            /\ sp' = InitialStack + Procedures[p].stackneeded
            /\ ip' = Procedures[p].instruction
            /\ mem' = WithFrame(p, InitialStack, <<>>, 0)
            /\ status' = "ACTIVE"
       ELSE /\ cstack' = <<>> /\ sp' = InitialStack /\ ip' = 0
            /\ status' = IF p # 0 /\ Procedures[p].args = 0
                           THEN "STACK_OVERFLOW" ELSE "NO_PROC"
            /\ UNCHANGED mem

-----------------------------------------------------------------------------
(* crustyvm_step, instruction by instruction.                              *)

(* move to a variable in memory: the result's type is set only when the    *)
(* types of the two sides differ.                                          *)
MoveToMemory(d, s) ==
  \E x \in Fetched(s) :
    IF x.status # "ACTIVE" THEN Fail(x.status)
    ELSE /\ intresult'   = IF Float(s) /\ Float(d) THEN intresult ELSE x.value
         /\ floatresult' = IF Float(s) \/ Float(d) THEN x.value ELSE floatresult
         /\ resulttype'  = IF Float(s) = Float(d) THEN resulttype
                           ELSE IF Float(d) THEN "FLOAT" ELSE "INT"
         /\ mem' = Stored(d, x.value)
         /\ last' = x.value
         /\ faults' = faults \cup Operands(d, s) \cup Reading(s) \cup Writing(d)
         /\ ip' = ip + 1
         /\ UNCHANGED <<program, cstack, sp, status>>

(* move to a write callback.  A float in memory is taken for a four byte   *)
(* float, the low half of a small whole double: 0.  An immediate is passed *)
(* on without becoming the result.                                         *)
MoveToCallback(d, s) ==
  \/ Fail("CALLBACK_FAILED")
  \/ /\ s.kind = "imm"
     /\ last' = s.val
     /\ faults' = faults \cup Operands(d, s)
     /\ ip' = ip + 1
     /\ UNCHANGED <<program, mem, cstack, sp, result, status>>
  \/ /\ s.kind = "var"
     /\ \E x \in {y \in Fetched(s) : y.status = "ACTIVE"} :
          /\ last' = x.value
          /\ intresult'   = IF Float(s) THEN intresult ELSE x.value
          /\ floatresult' = IF ~Float(s) THEN floatresult
                            ELSE IF InMemory(s) THEN 0 ELSE x.value
          /\ resulttype'  = IF Float(s) THEN "FLOAT" ELSE "INT"
     /\ faults' = faults \cup Operands(d, s) \cup Reading(s)
     /\ ip' = ip + 1
     /\ UNCHANGED <<program, mem, cstack, sp, status>>

Move ==
  /\ status = "ACTIVE" /\ Inst.op = "move"
  /\ \E d \in DestRefs(Inst.dest), s \in SrcRefs(Inst.src) :
       IF First(d, s) # "ACTIVE" THEN Fail(First(d, s))
       ELSE IF Var(d.val).write THEN MoveToCallback(d, s)
       ELSE MoveToMemory(d, s)

(* The results an operation on y and x can have: sums and differences are  *)
(* computed, the others are left open.                                     *)
Computed(op, y, x) ==
  CASE op = "add" -> {Wrapped(y + x)}
    [] op = "sub" -> {Wrapped(y - x)}
    [] OTHER -> {0, y, x}

(* The bitwise instructions accept an immediate for a float destination,   *)
(* and then store the float back as it was.                                *)
Rejected(d, s) ==
  \/ Var(d.val).write
  \/ Inst.op \in Bitwise /\ s.kind = "var" /\ (Float(s) \/ Float(d))
  \/ Inst.op \in Shifts /\ Float(d)

Operation ==
  /\ status = "ACTIVE" /\ Inst.op \in Arithmetic \cup Bitwise \cup Shifts
  /\ \E d \in DestRefs(Inst.dest), s \in SrcRefs(Inst.src) :
       IF First(d, s) # "ACTIVE" THEN Fail(First(d, s))
       ELSE IF Var(d.val).write THEN Fail("INVALID_INSTRUCTION")
       ELSE \E x \in Fetched(s), y \in Fetched(d) :
              IF First(x, y) # "ACTIVE" THEN Fail(First(x, y))
              ELSE IF Rejected(d, s) THEN Fail("INVALID_INSTRUCTION")
              ELSE \E r \in Computed(Inst.op, y.value, x.value) :
                     LET kept   == Float(d) /\ Inst.op \in Bitwise
                         stored == IF kept THEN y.value ELSE r
                     IN /\ intresult'   = IF Float(d) /\ ~kept THEN intresult ELSE r
                        /\ floatresult' = IF Float(d) THEN stored ELSE floatresult
                        /\ resulttype'  = IF Float(d) /\ ~kept THEN "FLOAT" ELSE "INT"
                        /\ mem' = Stored(d, stored)
                        /\ last' = stored
                        /\ faults' = faults \cup Operands(d, s)
                                       \cup Reading(s) \cup Reading(d) \cup Writing(d)
                        /\ ip' = ip + 1
                        /\ UNCHANGED <<program, cstack, sp, status>>

(* cmp: both sides are sources.  Comparing an immediate with an int leaves *)
(* the result's type as it was.                                            *)
Cmp ==
  /\ status = "ACTIVE" /\ Inst.op = "cmp"
  /\ \E d \in SrcRefs(Inst.dest), s \in SrcRefs(Inst.src) :
       IF First(d, s) # "ACTIVE" THEN Fail(First(d, s))
       ELSE \E x \in Fetched(s), y \in Fetched(d) :
              IF First(x, y) # "ACTIVE" THEN Fail(First(x, y))
              ELSE LET float == Float(s) \/ Float(d)
                       less  == IF float THEN y.value - x.value
                                ELSE Wrapped(y.value - x.value)
                   IN /\ intresult'   = IF ~float THEN less
                                        ELSE IF Float(d) THEN intresult ELSE y.value
                      /\ floatresult' = IF float THEN less ELSE floatresult
                      /\ resulttype'  = IF float THEN "FLOAT"
                                        ELSE IF s.kind = "var" /\ d.kind = "imm"
                                          THEN resulttype ELSE "INT"
                      /\ last' = less
                      /\ faults' = faults \cup Operands(d, s) \cup Reading(s) \cup Reading(d)
                      /\ ip' = ip + 1
                      /\ UNCHANGED <<program, mem, cstack, sp, status>>

(* jump: a jump to itself ends the run. *)
Jump ==
  /\ status = "ACTIVE" /\ Inst.op = "jump"
  /\ IF Inst.to = ip THEN status' = "READY" /\ UNCHANGED ip
                     ELSE ip' = Inst.to /\ UNCHANGED status
  /\ UNCHANGED <<program, mem, cstack, sp, result, last, faults>>

(* The number a conditional jump looks at. *)
Judged == IF resulttype = "INT" THEN intresult ELSE floatresult

Taken ==
  CASE Inst.op = "jumpn" -> Judged # 0
    [] Inst.op = "jumpz" -> Judged = 0
    [] Inst.op = "jumpl" -> Judged < 0
    [] Inst.op = "jumpg" -> Judged > 0

JumpIf ==
  /\ status = "ACTIVE" /\ Inst.op \in {"jumpn", "jumpz", "jumpl", "jumpg"}
  /\ ip' = IF Taken THEN Inst.to ELSE ip + 1
  /\ UNCHANGED <<program, mem, cstack, sp, result, status, last, faults>>

Next ==
  \/ Move \/ Operation \/ Cmp \/ Jump \/ JumpIf \/ Call \/ Ret \/ RetLast
  \/ Reset
  \/ \E p \in Procs \cup {0} : Begin(p)

Spec == Init /\ [][Next]_vars

-----------------------------------------------------------------------------
(* Properties.                                                             *)

Statuses == {"READY", "ACTIVE", "OUT_OF_RANGE", "INVALID_INSTRUCTION",
             "STACK_OVERFLOW", "CALLBACK_FAILED", "FLOAT_INDEX", "NO_PROC"}

(* The shape of the state. *)
TypeOK ==
  /\ program \in Programs
  /\ mem \in [Address -> Int]
  /\ cstack \in Seq([ip : Nat, proc : Procs, base : Nat])
  /\ sp \in Nat /\ ip \in Nat
  /\ resulttype \in {"INT", "FLOAT"} /\ intresult \in Int /\ floatresult \in Int
  /\ status \in Statuses
  /\ status = "ACTIVE" => ip \in DOMAIN Code
  /\ last \in Int
  /\ faults \subseteq {"out_of_range", "read_only", "wrapped"}

Depth == Len(cstack)
End(n) == cstack[n].base + Procedures[cstack[n].proc].stackneeded

(* The frames of the procedures being called follow each other in memory   *)
(* without gap or overlap, from the globals to the stack pointer, and      *)
(* neither stack exceeds its size (call and the RET case of crustyvm_step  *)
(* move sp by the same amount).                                            *)
StackDiscipline ==
  /\ Depth <= CallStackSize
  /\ Depth > 0 => /\ cstack[1].base = InitialStack
                  /\ sp = End(Depth)
                  /\ sp <= StackSize
  /\ \A n \in 1 .. (Depth - 1) : cstack[n + 1].base = End(n)
  /\ status = "ACTIVE" => Depth > 0

(* The sizes of memory that symbols_scan adds up have room for every       *)
(* procedure once: no entry point finds memory too small, and a call finds *)
(* it used up only when some procedure is called while it is being called. *)
OnlyRecursionExhausts ==
  \A p \in Procs :
    /\ InitialStack + Procedures[p].stackneeded <= StackSize
    /\ /\ status = "ACTIVE"
       /\ \A n \in 1 .. Depth : cstack[n].proc # p
       /\ \A m, n \in 1 .. Depth : m # n => cstack[m].proc # cstack[n].proc
       => sp + Procedures[p].stackneeded <= StackSize

Within(p, i) == Procedures[p].instruction <= i /\ i <= Procedures[p].last

(* Execution stays in the procedure on top of the call stack, and every    *)
(* return address below it is the instruction after the call that made     *)
(* the frame, in the procedure of the frame before it.                     *)
ReturnsToCaller ==
  /\ status = "ACTIVE" => Within(cstack[Depth].proc, ip)
  /\ \A n \in 2 .. Depth :
       LET from == cstack[n].ip - 1
       IN /\ Within(cstack[n - 1].proc, from) /\ Within(cstack[n - 1].proc, from + 1)
          /\ Code[from].op = "call"
          /\ Code[from].proc = cstack[n].proc

SlotOf(n, k) ==
  LET at == End(n) - ArgSize * k
  IN [kind |-> mem[at], val |-> mem[at + 1], index |-> mem[at + 2], ptr |-> mem[at + 3]]

(* The frame before frame n whose variable v is at ptr; 0 for a global. *)
Owner(n, v, ptr) ==
  IF IsGlobal(v) THEN 0
  ELSE CHOOSE j \in 1 .. (n - 1) :
         cstack[j].proc = Var(v).scope /\ ptr = End(j) - Var(v).offset

(* Every reference a live frame holds refers, in range, to an element of a *)
(* global or of a local of a procedure further down the call stack that    *)
(* has not returned: references are resolved once, when the call is made,  *)
(* and used as they are from then on.                                      *)
ReferencesLive ==
  \A n \in 1 .. (IF status = "ACTIVE" THEN Depth ELSE 0) :
    \A k \in 1 .. Procedures[cstack[n].proc].args :
      LET r == SlotOf(n, k)
      IN r.kind = 1 =>
           /\ r.val \in DOMAIN Variables
           /\ r.index \in 0 .. (Var(r.val).length - 1)
           /\ IF IsGlobal(r.val) THEN r.ptr = Var(r.val).offset
              ELSE \E j \in 1 .. (n - 1) :
                     /\ cstack[j].proc = Var(r.val).scope
                     /\ r.ptr = End(j) - Var(r.val).offset

(* No instruction reads or writes outside the VM's memory, whatever was    *)
(* passed to the procedure it belongs to.                                  *)
InRange == "out_of_range" \notin faults

(* A conditional jump decides by the value the last instruction before it  *)
(* wrote, passed on or compared.                                           *)
JudgesLast ==
  status = "ACTIVE" /\ Inst.op \in {"jumpn", "jumpz", "jumpl", "jumpg"} => Judged = last

(* Memory as the values of the elements of the variables that live, and    *)
(* the frames with what their arguments refer to.                          *)
Owned(p)   == {v \in DOMAIN Variables : Var(v).scope = p /\ ~Var(v).read /\ ~Var(v).write}
Running    == IF status = "ACTIVE" THEN Depth ELSE 0

Living ==
  UNION {UNION {{<<n, v, i>> : i \in Room(v)} :
                  v \in Owned(IF n = 0 THEN 0 ELSE cstack[n].proc)} : n \in 0 .. Running}

ValueOf(n, v, i) ==
  IF n = 0 THEN mem[Var(v).offset + i * Size(v)]
  ELSE IF ~IsArgument(v) THEN mem[End(n) - Var(v).offset + i * Size(v)]
  ELSE IF SlotOf(n, Var(v).offset).kind = 0 THEN SlotOf(n, Var(v).offset).val ELSE 0

Referred(n, v) ==
  LET r == SlotOf(n, Var(v).offset)
  IN IF r.kind = 0 \/ r.val \notin UNION {Owned(p) : p \in Procs \cup {0}} THEN <<0, 0, 0>> ELSE <<Owner(n, r.val, r.ptr), r.val, r.index>>

(* The machine with its stack and its addresses implements call by         *)
(* reference: every instruction changes at most one element, one that the  *)
(* procedure it belongs to can name (update_dest_ref, crustyvm_step), and  *)
(* every reference passed on is to such an element (update_src_ref, call). *)
Calls == INSTANCE CallByReference WITH
  variables <- [v \in UNION {Owned(p) : p \in Procs \cup {0}} |->
                  [scope |-> Var(v).scope, length |-> Var(v).length]],
  store   <- {<<e, ValueOf(e[1], e[2], e[3])>> : e \in Living},
  frames  <- [n \in 1 .. Running |->
                [proc |-> cstack[n].proc,
                 refs |-> [v \in {u \in Owned(cstack[n].proc) : IsArgument(u)} |->
                             Referred(n, v)]]]
ImplementsCalls == Calls!Spec
=============================================================================
