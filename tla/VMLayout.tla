------------------------------ MODULE VMLayout ------------------------------
(***************************************************************************)
(* How the loader of src/crustyvm.c lays variables out in the VM's memory: *)
(* new_variable and the totals of symbols_scan.  Memory is counted in      *)
(* cells of four bytes, the size of an int and of each of the four fields  *)
(* of a CrustyStackArg.                                                    *)
(***************************************************************************)
EXTENDS Integers, Sequences

SizeOf(type) == IF type = "FLOAT" THEN 2 ELSE 1
ArgSize == 4

(* The declarations that the parser lets through: a variable is never      *)
(* empty, and neither is a callback, which is read, written or both.       *)
Locals    == [type : {"INT", "FLOAT"}, init : Seq(Int) \ {<<>>}]
Statics   == [type : {"INT", "FLOAT"}, init : Seq(Int) \ {<<>>},
              read : {FALSE}, write : {FALSE}]
Callbacks == {c \in [type : {"INT", "FLOAT", "NONE"}, length : Nat \ {0}, junk : Int,
                     read : BOOLEAN, write : BOOLEAN] : c.read \/ c.write}

(* The callbacks are declared before the source is read. *)
GlobalDecls == {callbacks \o statics : callbacks \in Seq(Callbacks), statics \in Seq(Statics)}

(* A procedure whose code, of these instructions, ends at its only ret. *)
ProceduresOf(instructions) ==
  {d \in [args : Nat, locals : Seq(Locals), code : Seq(instructions) \ {<<>>}] :
     \A i \in DOMAIN d.code : d.code[i].op = "ret" <=> i = Len(d.code)}

(* The initializer of a variable, each element in its first cell. *)
Cells(d) ==
  [c \in 1 .. Len(d.init) * SizeOf(d.type) |->
     IF (c - 1) % SizeOf(d.type) = 0 THEN d.init[((c - 1) \div SizeOf(d.type)) + 1] ELSE 0]

Variable(scope, type, length, offset, read, write) ==
  [scope |-> scope, type |-> type, length |-> length, offset |-> offset,
   read |-> read, write |-> write]

(* One more local variable of procedure p.  The frame grows downwards: the *)
(* offset of a variable counts from the frame's end, that of an argument,  *)
(* which is declared first, in whole argument slots.                       *)
NewLocal(p, frame, d) ==
  LET size == Len(d.init) * SizeOf(d.type)
  IN [frame EXCEPT
        !.stackneeded = @ + size,
        !.init = Cells(d) \o @,
        !.var = Append(@, Variable(p, d.type, Len(d.init),
                                   frame.stackneeded + size, FALSE, FALSE))]

(* A procedure with n arguments and these locals, declared one by one. *)
FrameOf(p, n, locals) ==
  LET frame[k \in 0 .. Len(locals)] ==
        IF k = 0
          THEN [stackneeded |-> n * ArgSize,
                init |-> [c \in 1 .. n * ArgSize |-> 0],
                var |-> [a \in 1 .. n |-> Variable(p, "NONE", 0, a, FALSE, FALSE)]]
          ELSE NewLocal(p, frame[k - 1], locals[k])
  IN frame[Len(locals)]

(* One more global variable: memory grows upwards.  A callback takes none  *)
(* and its offset is whatever memory held, here d.junk.                    *)
NewGlobal(globals, d) ==
  IF d.read \/ d.write
    THEN [globals EXCEPT
            !.var = Append(@, Variable(0, d.type, d.length, d.junk, d.read, d.write))]
    ELSE [globals EXCEPT
            !.initialstack = @ + Len(d.init) * SizeOf(d.type),
            !.init = @ \o Cells(d),
            !.var = Append(@, Variable(0, d.type, Len(d.init),
                                       globals.initialstack, FALSE, FALSE))]

Globals(decls) ==
  LET globals[k \in 0 .. Len(decls)] ==
        IF k = 0 THEN [initialstack |-> 0, init |-> <<>>, var |-> <<>>]
                 ELSE NewGlobal(globals[k - 1], decls[k])
  IN globals[Len(decls)]

FaultyNewProcedure(q, p, d) ==            \* the locals come after the sum
  LET frame == FrameOf(p, d.args, d.locals)
  IN [q EXCEPT
        !.var = @ \o frame.var,
        !.proc = Append(@, [args |-> d.args,
                            instruction |-> Len(q.inst) + 1,
                            last |-> Len(q.inst) + Len(d.code),
                            stackneeded |-> frame.stackneeded, init |-> frame.init]),
        !.inst = @ \o d.code,
        !.stacksize = @ + d.args * ArgSize]

(* One more procedure: its code is put behind that of the others, and the  *)
(* stack is made larger by its frame.                                      *)
NewProcedure(q, p, d) ==
  LET frame == FrameOf(p, d.args, d.locals)
  IN [q EXCEPT
        !.var = @ \o frame.var,
        !.proc = Append(@, [args |-> d.args,
                            instruction |-> Len(q.inst) + 1,
                            last |-> Len(q.inst) + Len(d.code),
                            stackneeded |-> frame.stackneeded, init |-> frame.init]),
        !.inst = @ \o d.code,
        !.stacksize = @ + frame.stackneeded]

(* The program: variables numbered globals first, then procedure by        *)
(* procedure; the stack is large enough for every procedure once, plus     *)
(* what the "stack" statements add.                                        *)
Load(globals, procs, stack, callstack) ==
  LET program[p \in 0 .. Len(procs)] ==
        IF p = 0
          THEN [var |-> Globals(globals).var, proc |-> <<>>, inst |-> <<>>,
                initialstack |-> Globals(globals).initialstack,
                init |-> Globals(globals).init,
                stacksize |-> Globals(globals).initialstack + stack,
                callstacksize |-> callstack]
          ELSE NewProcedure(program[p - 1], p, procs[p])
  IN program[Len(procs)]

-----------------------------------------------------------------------------
(* What symbols_verify looks for before code is generated.  Its test for   *)
(* overlap, on bytes, has no equality: two variables at the same place     *)
(* pass, and for globals it takes the second for one of the first's type.  *)

Bytes(cells) == 4 * cells

Overlap(offj, lenj, offi, leni) ==
  \/ offi > offj /\ offi < offj + lenj - 1
  \/ offi + leni - 1 > offj /\ offi + leni - 1 < offj + lenj - 1

GlobalsVerified(globals) ==
  \A i \in DOMAIN globals.var :
    LET x    == globals.var[i]
        size == Bytes(x.length * SizeOf(x.type))
    IN /\ x.length # 0
       /\ ~x.read /\ ~x.write =>
            /\ Bytes(x.offset) + size <= Bytes(globals.initialstack)
            /\ \A j \in DOMAIN globals.var :
                 LET y == globals.var[j]
                 IN j > i => ~Overlap(Bytes(x.offset), size, Bytes(y.offset),
                                      Bytes(y.length * SizeOf(x.type)))

(* A variable of a frame, counted from the frame's end. *)
SizeIn(x)  == IF x.length = 0 THEN ArgSize ELSE x.length * SizeOf(x.type)
FromTop(x) == (IF x.length = 0 THEN x.offset * ArgSize ELSE x.offset) - SizeIn(x)

FrameVerified(frame, args) ==
  \A j \in DOMAIN frame.var :
    LET x == frame.var[j]
    IN /\ ~x.read /\ ~x.write
       /\ x.length = 0 => j - 1 <= args /\ x.offset <= args
       /\ FromTop(x) \in 0 .. frame.stackneeded
       /\ \A k \in DOMAIN frame.var :
            LET y == frame.var[k]
            IN k > j => ~Overlap(Bytes(FromTop(x)), Bytes(SizeIn(x)),
                                 Bytes(FromTop(y)), Bytes(SizeIn(y)))

SymbolsVerified(globals, procs) ==
  /\ GlobalsVerified(Globals(globals))
  /\ \A p \in DOMAIN procs :
       FrameVerified(FrameOf(p, procs[p].args, procs[p].locals), procs[p].args)
=============================================================================
