---------------------------- MODULE VMExecProofs ----------------------------
(***************************************************************************)
(* The machine of src/crustyvm.c, for every set of programs that the       *)
(* loader accepts.  First its two stacks: frames follow each other,        *)
(* neither stack exceeds its size, and every return goes to where the call *)
(* was.  Then memory and references: what the arguments of the procedures  *)
(* being called refer to, and that nothing outside the variables is read   *)
(* or written.                                                             *)
(***************************************************************************)
EXTENDS VMExec, SequenceTheorems, TLAPS

(* What StackDiscipline rests on: execution stays in the code, and so does *)
(* every return.                                                           *)
Entries == [ip : Nat, proc : Procs, base : Nat]

Grounded ==
  /\ program \in Programs
  /\ cstack \in Seq(Entries)
  /\ sp \in Nat
  /\ status = "ACTIVE" => ip \in DOMAIN Code
  /\ \A n \in 2 .. Len(cstack) : cstack[n].ip \in DOMAIN Code

IInv == Grounded /\ StackDiscipline

(* What the loader has made certain of, of the program that was loaded. *)
LEMMA Verified ==
  ASSUME program \in Programs
  PROVE  /\ InitialStack \in Nat /\ StackSize \in Nat /\ CallStackSize \in Nat \ {0}
         /\ DOMAIN Code \subseteq Nat
         /\ \A p \in Procs : /\ Procedures[p].stackneeded \in Nat
                             /\ Procedures[p].instruction \in DOMAIN Code
         /\ \A i \in DOMAIN Code :
              /\ Code[i].op # "ret" => i + 1 \in DOMAIN Code
              /\ Code[i].op \in Jumps => Code[i].to \in DOMAIN Code
              /\ Code[i].op = "call" => Code[i].proc \in Procs
<1>1. WellFormed(program)
  BY ProgramsVerified
<1>2. \A p \in Procs : ProcedureOk(program, p)
  BY <1>1 DEF WellFormed, Procs, Procedures
<1>3. \A p \in Procs :
        /\ Procedures[p].stackneeded \in Nat
        /\ Procedures[p].instruction \in Nat /\ Procedures[p].last \in Nat
        /\ Procedures[p].instruction <= Procedures[p].last
        /\ \A i \in Procedures[p].instruction .. Procedures[p].last :
             /\ i \in DOMAIN Code
             /\ Code[i].op = "ret" <=> i = Procedures[p].last
             /\ Checked(program, p, Code[i])
  BY <1>2 DEF ProcedureOk, Procedures, Code
<1>4. \A p \in Procs : Procedures[p].instruction \in DOMAIN Code
  BY <1>3
<1>5. ASSUME NEW i \in DOMAIN Code
      PROVE  /\ i \in Nat
             /\ Code[i].op # "ret" => i + 1 \in DOMAIN Code
             /\ Code[i].op \in Jumps => Code[i].to \in DOMAIN Code
             /\ Code[i].op = "call" => Code[i].proc \in Procs
  <2>1. PICK p \in Procs : i \in Procedures[p].instruction .. Procedures[p].last
    BY <1>1 DEF WellFormed, Code, Procs, Procedures
  <2>2. /\ i \in Nat
        /\ Code[i].op # "ret" => i + 1 \in Procedures[p].instruction .. Procedures[p].last
    BY <1>3, <2>1
  <2>3. Checked(program, p, Code[i])
    BY <1>3, <2>1
  <2>4. Code[i].op \in Jumps =>
          Code[i].to \in Procedures[p].instruction .. Procedures[p].last
    BY <2>3 DEF Checked, Jumps, Arithmetic, Bitwise, Shifts, Procedures
  <2>5. Code[i].op = "call" => Code[i].proc \in Procs
    BY <2>3 DEF Checked, Jumps, Arithmetic, Bitwise, Shifts, Procedures, Procs
  <2>. QED
    BY <1>3, <2>1, <2>2, <2>4, <2>5
<1>. QED
  BY <1>1, <1>3, <1>4, <1>5
     DEF WellFormed, InitialStack, StackSize, CallStackSize, Code

LEMMA Initially == Init => IInv
<1> SUFFICES ASSUME Init PROVE IInv
  OBVIOUS
<1>1. CallStackSize \in Nat
  BY Verified DEF Init
<1>. QED
  BY <1>1, EmptySeq DEF Init, IInv, Grounded, StackDiscipline, Depth, Entries

(* A step that leaves both stacks alone and stays in the code.             *)
Quiet ==
  /\ UNCHANGED <<program, cstack, sp>>
  /\ status' = "ACTIVE" => status = "ACTIVE" /\ ip' \in DOMAIN Code

LEMMA QuietKeeps ==
  ASSUME IInv, Quiet
  PROVE  IInv'
  BY DEF IInv, Quiet, Grounded, StackDiscipline, Depth, End, Entries, Procs,
         Procedures, Code, InitialStack, StackSize, CallStackSize

(* The instructions that go on to the next one, or fail. *)
LEMMA OperatingIsQuiet ==
  ASSUME IInv, Move \/ Operation \/ Cmp
  PROVE  Quiet
<1>1. status = "ACTIVE" /\ ip \in DOMAIN Code
  BY DEF IInv, Grounded, Move, Operation, Cmp
<1>2. Inst.op # "ret"
  BY DEF Move, Operation, Cmp, Arithmetic, Bitwise, Shifts
<1>3. ip + 1 \in DOMAIN Code
  BY <1>1, <1>2, Verified DEF IInv, Grounded, Inst
<1>4. UNCHANGED <<program, cstack, sp>> /\ (ip' = ip \/ ip' = ip + 1)
  <2>1. CASE Move
    BY <2>1 DEF Move, MoveToMemory, MoveToCallback, Fail
  <2>2. CASE Operation
    BY <2>2 DEF Operation, Fail
  <2>3. CASE Cmp
    BY <2>3 DEF Cmp, Fail
  <2>. QED
    BY <2>1, <2>2, <2>3
<1>. QED
  BY <1>1, <1>3, <1>4 DEF Quiet

LEMMA JumpingIsQuiet ==
  ASSUME IInv, Jump \/ JumpIf
  PROVE  Quiet
<1>1. status = "ACTIVE" /\ ip \in DOMAIN Code
  BY DEF IInv, Grounded, Jump, JumpIf
<1>2. Inst.op \in Jumps /\ Inst.op # "ret"
  BY DEF Jump, JumpIf, Jumps
<1>3. ip + 1 \in DOMAIN Code /\ Inst.to \in DOMAIN Code
  BY <1>1, <1>2, Verified DEF IInv, Grounded, Inst
<1>. QED
  BY <1>1, <1>3 DEF Quiet, Jump, JumpIf

(* The frame that is pushed ends where the stack pointer goes. *)
LEMMA CallKeeps ==
  ASSUME IInv, Call
  PROVE  IInv'
<1>1. /\ status = "ACTIVE" /\ ip \in DOMAIN Code /\ ip \in Nat
      /\ ip + 1 \in DOMAIN Code /\ Inst.proc \in Procs
  BY Verified DEF IInv, Grounded, Call, Inst
<1>2. CASE UNCHANGED <<program, cstack, sp, ip>>
  BY <1>1, <1>2, QuietKeeps DEF Quiet
<1>3. CASE /\ ~Overflows(Inst.proc, sp)
           /\ UNCHANGED program
           /\ \E refs \in ArgRefs(Inst.args) : Push(Inst.proc, refs, sp, ip + 1)
  <2>. DEFINE e == [ip |-> ip + 1, proc |-> Inst.proc, base |-> sp]
              need == Procedures[Inst.proc].stackneeded
  <2>1. /\ cstack' = Append(cstack, e)
        /\ sp' = sp + need
        /\ ip' = Procedures[Inst.proc].instruction
        /\ status' = "ACTIVE"
    BY <1>3 DEF Push
  <2>2. /\ cstack \in Seq(Entries) /\ sp \in Nat /\ program \in Programs
        /\ need \in Nat
        /\ Procedures[Inst.proc].instruction \in DOMAIN Code
    BY <1>1, Verified DEF IInv, Grounded
  <2>3. e \in Entries
    BY <1>1, <2>2, Verified DEF Entries
  <2>4. /\ cstack' \in Seq(Entries)
        /\ Len(cstack') = Len(cstack) + 1
        /\ cstack'[Len(cstack) + 1] = e
        /\ \A n \in 1 .. Len(cstack) : cstack'[n] = cstack[n]
    BY <2>1, <2>2, <2>3, AppendProperties
  <2>5. /\ Procs' = Procs /\ Procedures' = Procedures /\ Code' = Code
        /\ Entries' = Entries
        /\ InitialStack' = InitialStack /\ StackSize' = StackSize
        /\ CallStackSize' = CallStackSize
    BY <1>3 DEF Procs, Procedures, Code, Entries, InitialStack, StackSize, CallStackSize
  <2>6. Grounded'
    BY <1>1, <1>3, <2>1, <2>2, <2>4, <2>5 DEF IInv, Grounded
  <2>7. Len(cstack) \in Nat /\ Len(cstack) > 0
    BY <1>1, <2>2, LenProperties DEF IInv, StackDiscipline, Depth
  <2>8. Len(cstack) < CallStackSize /\ sp + need <= StackSize
    BY SMTT(60), <1>1, <1>3, <2>2, <2>7, Verified DEF Overflows, IInv, StackDiscipline, Depth
  <2>9. /\ sp = cstack[Len(cstack)].base + Procedures[cstack[Len(cstack)].proc].stackneeded
        /\ cstack[1].base = InitialStack
        /\ \A n \in 1 .. (Len(cstack) - 1) :
             cstack[n + 1].base = cstack[n].base + Procedures[cstack[n].proc].stackneeded
    BY <2>7 DEF IInv, StackDiscipline, Depth, End
  <2>10. \A n \in 1 .. (Len(cstack') - 1) :
           cstack'[n + 1].base = cstack'[n].base + Procedures[cstack'[n].proc].stackneeded
    BY <2>4, <2>7, <2>9
  <2>11. /\ cstack'[1].base = InitialStack
         /\ sp' = cstack'[Len(cstack')].base
                    + Procedures[cstack'[Len(cstack')].proc].stackneeded
    BY <2>1, <2>4, <2>7, <2>9
  <2>12. CallStackSize \in Nat /\ StackSize \in Nat
    BY <2>2, Verified
  <2>13. Len(cstack') <= CallStackSize /\ Len(cstack') > 0 /\ sp' <= StackSize
    BY <2>1, <2>4, <2>7, <2>8, <2>12
  <2>14. StackDiscipline'
    BY <2>5, <2>10, <2>11, <2>13 DEF StackDiscipline, Depth, End
  <2>. QED
    BY <2>6, <2>14 DEF IInv
<1>. QED
  BY <1>2, <1>3 DEF Call, Fail

(* The stack pointer goes back to where the frame before ends. *)
LEMMA RetKeeps ==
  ASSUME IInv, Ret
  PROVE  IInv'
<1>. DEFINE d == Len(cstack)
<1>1. /\ cstack \in Seq(Entries) /\ d \in Nat /\ d > 1 /\ sp \in Nat
      /\ program \in Programs /\ status = "ACTIVE"
  BY LenProperties DEF IInv, Grounded, Ret
<1>2. cstack[d] \in Entries /\ cstack[d - 1] \in Entries
  BY <1>1, ElementOfSeq
<1>3. /\ cstack' = SubSeq(cstack, 1, d - 1)
      /\ sp' = sp - Procedures[cstack[d].proc].stackneeded
      /\ ip' = cstack[d].ip
      /\ UNCHANGED <<program, status>>
  BY DEF Ret
<1>4. /\ cstack' \in Seq(Entries)
      /\ Len(cstack') = d - 1
      /\ \A n \in 1 .. (d - 1) : cstack'[n] = cstack[n]
  BY <1>1, <1>3, SubSeqProperties
<1>5. /\ Procs' = Procs /\ Procedures' = Procedures /\ Code' = Code
      /\ Entries' = Entries
      /\ InitialStack' = InitialStack /\ StackSize' = StackSize
      /\ CallStackSize' = CallStackSize
  BY <1>3 DEF Procs, Procedures, Code, Entries, InitialStack, StackSize, CallStackSize
<1>6. /\ Procedures[cstack[d].proc].stackneeded \in Nat
      /\ Procedures[cstack[d - 1].proc].stackneeded \in Nat
      /\ cstack[d].base \in Nat /\ cstack[d - 1].base \in Nat
      /\ StackSize \in Nat /\ CallStackSize \in Nat
  BY <1>1, <1>2, Verified DEF Entries
<1>7. /\ sp = cstack[d].base + Procedures[cstack[d].proc].stackneeded
      /\ sp <= StackSize /\ d <= CallStackSize
      /\ cstack[1].base = InitialStack
      /\ \A n \in 1 .. (d - 1) :
           cstack[n + 1].base = cstack[n].base + Procedures[cstack[n].proc].stackneeded
  BY <1>1 DEF IInv, StackDiscipline, Depth, End
<1>8. cstack[d].base = cstack[d - 1].base + Procedures[cstack[d - 1].proc].stackneeded
  <2>1. d - 1 \in 1 .. (d - 1) /\ (d - 1) + 1 = d
    BY <1>1
  <2>2. cstack[(d - 1) + 1].base
          = cstack[d - 1].base + Procedures[cstack[d - 1].proc].stackneeded
    BY <1>7, <2>1
  <2>. QED
    BY <2>1, <2>2
<1>9. /\ sp' = cstack[d].base
      /\ sp' \in Nat /\ sp' <= StackSize
  <2>. DEFINE need == Procedures[cstack[d].proc].stackneeded
  <2>1. /\ need \in Nat /\ cstack[d].base \in Nat /\ StackSize \in Nat
        /\ sp = cstack[d].base + need /\ sp <= StackSize
        /\ sp' = sp - need
    BY <1>3, <1>6, <1>7
  <2>. HIDE DEF need
  <2>. QED
    BY <2>1
<1>10. Grounded'
  <2>1. ip' \in DOMAIN Code
    BY <1>1, <1>3 DEF IInv, Grounded
  <2>2. \A n \in 2 .. (d - 1) : cstack'[n].ip \in DOMAIN Code
    BY <1>1, <1>4 DEF IInv, Grounded
  <2>. QED
    BY <1>1, <1>3, <1>4, <1>5, <1>9, <2>1, <2>2 DEF Grounded
<1>11. StackDiscipline'
  <2>1. \A n \in 1 .. (d - 2) :
          cstack'[n + 1].base = cstack'[n].base + Procedures[cstack'[n].proc].stackneeded
    BY <1>1, <1>4, <1>7
  <2>2. cstack'[1].base = InitialStack /\ cstack'[d - 1] = cstack[d - 1]
    BY <1>1, <1>4, <1>7
  <2>. QED
    BY SMTT(60), <1>1, <1>4, <1>5, <1>6, <1>7, <1>8, <1>9, <2>1, <2>2
       DEF StackDiscipline, Depth, End
<1>. QED
  BY <1>10, <1>11 DEF IInv

LEMMA BeginKeeps ==
  ASSUME IInv, NEW p \in Procs \cup {0}, Begin(p)
  PROVE  IInv'
<1>1. /\ program \in Programs /\ UNCHANGED program
      /\ InitialStack \in Nat /\ StackSize \in Nat /\ CallStackSize \in Nat \ {0}
  BY Verified DEF IInv, Grounded, Begin
<1>2. /\ Procs' = Procs /\ Procedures' = Procedures /\ Code' = Code
      /\ Entries' = Entries
      /\ InitialStack' = InitialStack /\ StackSize' = StackSize
      /\ CallStackSize' = CallStackSize
  BY <1>1 DEF Procs, Procedures, Code, Entries, InitialStack, StackSize, CallStackSize
<1>3. CASE cstack' = <<>> /\ sp' = InitialStack /\ status' # "ACTIVE"
  BY <1>1, <1>2, <1>3, EmptySeq DEF IInv, Grounded, StackDiscipline, Depth
<1>4. CASE /\ p # 0
           /\ InitialStack + Procedures[p].stackneeded <= StackSize
           /\ cstack' = <<[ip |-> 0, proc |-> p, base |-> InitialStack]>>
           /\ sp' = InitialStack + Procedures[p].stackneeded
           /\ ip' = Procedures[p].instruction
           /\ status' = "ACTIVE"
  <2>1. /\ p \in Procs /\ Procedures[p].stackneeded \in Nat
        /\ Procedures[p].instruction \in DOMAIN Code
    BY <1>1, <1>4, Verified
  <2>2. /\ cstack' \in Seq(Entries) /\ Len(cstack') = 1
        /\ cstack'[1] = [ip |-> 0, proc |-> p, base |-> InitialStack]
    BY <1>1, <1>4, <2>1 DEF Entries
  <2>3. Grounded'
    BY <1>1, <1>2, <1>4, <2>1, <2>2 DEF Grounded
  <2>4. StackDiscipline'
    BY <1>1, <1>2, <1>4, <2>1, <2>2 DEF StackDiscipline, Depth, End
  <2>. QED
    BY <2>3, <2>4 DEF IInv
<1>. QED
  BY <1>3, <1>4 DEF Begin

LEMMA StepKeeps == IInv /\ [Next]_vars => IInv'
<1>1. ASSUME IInv, Move \/ Operation \/ Cmp PROVE IInv'
  BY <1>1, OperatingIsQuiet, QuietKeeps
<1>2. ASSUME IInv, Jump \/ JumpIf PROVE IInv'
  BY <1>2, JumpingIsQuiet, QuietKeeps
<1>3. ASSUME IInv, Reset \/ RetLast PROVE IInv'
  BY <1>3, QuietKeeps DEF Reset, RetLast, Quiet
<1>4. ASSUME IInv, UNCHANGED vars PROVE IInv'
  BY <1>4, QuietKeeps DEF vars, Quiet, IInv, Grounded, Code
<1>. QED
  BY <1>1, <1>2, <1>3, <1>4, CallKeeps, RetKeeps, BeginKeeps DEF Next

(* For every verified program, in every execution: the frames of the       *)
(* procedures being called follow each other without gap or overlap and    *)
(* neither stack exceeds its size (call, crustyvm_begin and the RET case   *)
(* of crustyvm_step).                                                      *)
THEOREM StacksDisciplined == Spec => []StackDiscipline
<1>1. IInv => StackDiscipline
  BY DEF IInv
<1>. QED
  BY <1>1, Initially, StepKeeps, PTL DEF Spec

-----------------------------------------------------------------------------
(* The instructions of a procedure are the code from its first to its last *)
(* one, which alone is a ret.                                              *)
LEMMA Body ==
  ASSUME program \in Programs, NEW p \in Procs, NEW i, Within(p, i), i \in Nat
  PROVE  /\ i \in DOMAIN Code
         /\ Code[i].op # "ret" => Within(p, i + 1)
         /\ Checked(program, p, Code[i])
<1>1. ProcedureOk(program, p)
  BY ProgramsVerified DEF WellFormed, Procs, Procedures
<1>2. /\ i \in Procedures[p].instruction .. Procedures[p].last
      /\ Procedures[p].instruction \in Nat /\ Procedures[p].last \in Nat
  BY <1>1 DEF ProcedureOk, Within, Procedures
<1>. QED
  BY <1>1, <1>2 DEF ProcedureOk, Within, Procedures, Code

LEMMA Entry ==
  ASSUME program \in Programs, NEW p \in Procs
  PROVE  Within(p, Procedures[p].instruction)
<1>1. ProcedureOk(program, p)
  BY ProgramsVerified DEF WellFormed, Procs, Procedures
<1>. QED
  BY <1>1 DEF ProcedureOk, Within, Procedures

-----------------------------------------------------------------------------
(* Where execution is, and where it returns to.                            *)

Controlled ==
  /\ IInv
  /\ ReturnsToCaller
  /\ ip \in Nat

(* The top of the call stack. *)
LEMMA Top ==
  ASSUME Controlled, status = "ACTIVE"
  PROVE  /\ program \in Programs
         /\ Depth \in Nat /\ Depth > 0 /\ cstack \in Seq(Entries)
         /\ \A n \in 1 .. Depth : cstack[n] \in Entries
         /\ cstack[Depth].proc \in Procs
         /\ Within(cstack[Depth].proc, ip)
         /\ ip \in Nat /\ ip \in DOMAIN Code
<1>1. cstack \in Seq(Entries) /\ Depth \in Nat /\ Depth > 0
  BY LenProperties DEF Controlled, IInv, Grounded, StackDiscipline, Depth
<1>2. \A n \in 1 .. Depth : cstack[n] \in Entries
  BY <1>1, ElementOfSeq DEF Depth
<1>. QED
  BY <1>1, <1>2 DEF Controlled, IInv, Grounded, ReturnsToCaller, Entries

(* The instruction that is executed is one the loader has checked for the  *)
(* procedure on top of the call stack.                                     *)
LEMMA Executing ==
  ASSUME Controlled, status = "ACTIVE"
  PROVE  /\ Checked(program, cstack[Depth].proc, Inst)
         /\ Inst.op # "ret" => Within(cstack[Depth].proc, ip + 1)
  BY Top, Body DEF Inst

(* A step that leaves the call stack alone and stays in the procedure. *)
LEMMA StayingKeeps ==
  ASSUME Controlled, IInv', UNCHANGED <<program, cstack>>, ip' \in Nat,
         status' = "ACTIVE" => status = "ACTIVE" /\ Within(cstack[Depth].proc, ip')
  PROVE  Controlled'
<1>1. /\ Depth' = Depth /\ Code' = Code /\ Procedures' = Procedures
  BY DEF Depth, Code, Procedures
<1>. QED
  BY <1>1 DEF Controlled, ReturnsToCaller, Within

LEMMA OperatingStays ==
  ASSUME Controlled, Move \/ Operation \/ Cmp \/ Jump \/ JumpIf
  PROVE  /\ UNCHANGED <<program, cstack>>
         /\ ip' \in Nat /\ Within(cstack[Depth].proc, ip')
<1>1. status = "ACTIVE" /\ Inst.op # "ret"
  BY DEF Move, Operation, Cmp, Jump, JumpIf, Arithmetic, Bitwise, Shifts
<1>2. ip \in Nat /\ Within(cstack[Depth].proc, ip) /\ Within(cstack[Depth].proc, ip + 1)
  BY <1>1, Top, Executing
<1>3. CASE Move \/ Operation \/ Cmp
  <2>1. UNCHANGED <<program, cstack>> /\ (ip' = ip \/ ip' = ip + 1)
    <3>1. CASE Move
      BY <3>1 DEF Move, MoveToMemory, MoveToCallback, Fail
    <3>2. CASE Operation
      BY <3>2 DEF Operation, Fail
    <3>3. CASE Cmp
      BY <3>3 DEF Cmp, Fail
    <3>. QED
      BY <1>3, <3>1, <3>2, <3>3
  <2>. QED
    BY <1>2, <2>1
<1>4. CASE Jump \/ JumpIf
  <2>1. Inst.op \in Jumps
    BY <1>4 DEF Jump, JumpIf, Jumps
  <2>2. Inst.to \in program.proc[cstack[Depth].proc].instruction
                      .. program.proc[cstack[Depth].proc].last
    BY <1>1, <2>1, Executing DEF Checked, Jumps, Arithmetic, Bitwise, Shifts
  <2>3. ProcedureOk(program, cstack[Depth].proc)
    BY <1>1, Top, ProgramsVerified DEF WellFormed, Procs, Procedures
  <2>4. Inst.to \in Nat /\ Within(cstack[Depth].proc, Inst.to)
    BY <2>2, <2>3 DEF ProcedureOk, Within, Procedures
  <2>5. UNCHANGED <<program, cstack>> /\ ip' \in {ip, ip + 1, Inst.to}
    BY <1>4 DEF Jump, JumpIf
  <2>. QED
    BY <1>2, <2>4, <2>5
<1>. QED
  BY <1>3, <1>4

LEMMA CallReturns ==
  ASSUME Controlled, Call
  PROVE  Controlled'
<1>. DEFINE d == Depth
<1>1. status = "ACTIVE" /\ Inst.op = "call" /\ IInv'
  BY CallKeeps DEF Call, Controlled
<1>2. /\ Within(cstack[d].proc, ip) /\ Within(cstack[d].proc, ip + 1)
      /\ ip \in Nat /\ d \in Nat /\ d > 0 /\ cstack \in Seq(Entries)
      /\ program \in Programs
  BY <1>1, Top, Executing
<1>3. CASE UNCHANGED <<program, cstack, ip>>
  BY <1>1, <1>2, <1>3, StayingKeeps
<1>4. CASE /\ UNCHANGED program
           /\ \E refs \in ArgRefs(Inst.args) : Push(Inst.proc, refs, sp, ip + 1)
  <2>. DEFINE e == [ip |-> ip + 1, proc |-> Inst.proc, base |-> sp]
  <2>1. /\ cstack' = Append(cstack, e)
        /\ ip' = Procedures[Inst.proc].instruction
    BY <1>4 DEF Push
  <2>2. Inst.proc \in Procs
    BY <1>1, <1>2, Top, Verified DEF Inst
  <2>3. Within(Inst.proc, ip') /\ ip' \in Nat
    BY <1>2, <2>1, <2>2, Entry, Verified
  <2>4. e \in Entries
    BY <1>2, <2>2 DEF Entries, Controlled, IInv, Grounded
  <2>5. /\ Len(cstack') = d + 1
        /\ cstack'[d + 1] = e
        /\ \A n \in 1 .. d : cstack'[n] = cstack[n]
    BY <1>2, <2>1, <2>4, AppendProperties DEF Depth
  <2>6. /\ Depth' = d + 1 /\ Code' = Code /\ Procedures' = Procedures
    BY <1>4, <2>5 DEF Depth, Code, Procedures
  <2>7. \A p, i : Within(p, i)' <=> Within(p, i)
    BY <2>6 DEF Within
  <2>8. Within(cstack'[Depth'].proc, ip')
    BY <2>3, <2>5, <2>6
  <2>9. ASSUME NEW n \in 2 .. d + 1
        PROVE  /\ Within(cstack'[n - 1].proc, cstack'[n].ip - 1)
               /\ Within(cstack'[n - 1].proc, cstack'[n].ip - 1 + 1)
               /\ Code[cstack'[n].ip - 1].op = "call"
               /\ Code[cstack'[n].ip - 1].proc = cstack'[n].proc
    <3>1. CASE n = d + 1
      <4>1. cstack'[n] = e /\ cstack'[n - 1] = cstack[d]
        BY <1>2, <2>5, <3>1
      <4>2. e.ip - 1 = ip /\ e.ip - 1 + 1 = ip + 1
        BY <1>2
      <4>. QED
        BY <1>1, <1>2, <4>1, <4>2 DEF Inst
    <3>2. CASE n # d + 1
      <4>1. n \in 2 .. d /\ cstack'[n] = cstack[n] /\ cstack'[n - 1] = cstack[n - 1]
        BY <1>2, <2>5, <3>2
      <4>. QED
        BY <4>1 DEF Controlled, ReturnsToCaller
    <3>. QED
      BY <3>1, <3>2
  <2>10. ReturnsToCaller'
    BY <2>6, <2>7, <2>8, <2>9 DEF ReturnsToCaller
  <2>. QED
    BY <1>1, <2>3, <2>10 DEF Controlled
<1>. QED
  BY <1>3, <1>4 DEF Call, Fail

LEMMA RetReturns ==
  ASSUME Controlled, Ret
  PROVE  Controlled'
<1>0. PICK d : d = Depth
  OBVIOUS
<1>1. status = "ACTIVE" /\ IInv'
  BY RetKeeps DEF Ret, Controlled
<1>2. /\ d \in Nat /\ d > 1 /\ cstack \in Seq(Entries)
      /\ \A n \in 1 .. d : cstack[n] \in Entries
  BY <1>0, <1>1, Top DEF Ret, Depth
<1>3. /\ cstack' = SubSeq(cstack, 1, d - 1) /\ ip' = cstack[d].ip /\ UNCHANGED program
  BY <1>0 DEF Ret, Depth
<1>4. /\ Len(cstack') = d - 1
      /\ \A n \in 1 .. (d - 1) : cstack'[n] = cstack[n]
  BY <1>2, <1>3, SubSeqProperties DEF Depth
<1>5. Depth' = d - 1 /\ Code' = Code /\ Procedures' = Procedures
  BY <1>3, <1>4 DEF Depth, Code, Procedures
<1>6. \A p, i : Within(p, i)' <=> Within(p, i)
  BY <1>5 DEF Within
<1>7. cstack[d].ip \in Nat /\ cstack[d].ip - 1 + 1 = cstack[d].ip
  BY <1>2 DEF Entries
<1>8. Within(cstack[d - 1].proc, cstack[d].ip - 1 + 1)
  BY <1>0, <1>2 DEF Controlled, ReturnsToCaller
<1>9. Within(cstack'[Depth'].proc, ip')
  BY <1>2, <1>3, <1>4, <1>5, <1>7, <1>8
<1>10. ASSUME NEW n \in 2 .. (d - 1)
       PROVE  /\ Within(cstack'[n - 1].proc, cstack'[n].ip - 1)
              /\ Within(cstack'[n - 1].proc, cstack'[n].ip - 1 + 1)
              /\ Code[cstack'[n].ip - 1].op = "call"
              /\ Code[cstack'[n].ip - 1].proc = cstack'[n].proc
  <2>1. n \in 2 .. d /\ cstack'[n] = cstack[n] /\ cstack'[n - 1] = cstack[n - 1]
    BY <1>2, <1>4
  <2>. QED
    BY <1>0, <2>1 DEF Controlled, ReturnsToCaller
<1>11. ReturnsToCaller'
  BY <1>5, <1>6, <1>9, <1>10 DEF ReturnsToCaller
<1>. QED
  BY <1>1, <1>3, <1>7, <1>11 DEF Controlled

LEMMA BeginReturns ==
  ASSUME Controlled, NEW p \in Procs \cup {0}, Begin(p)
  PROVE  Controlled'
<1>1. IInv' /\ UNCHANGED program /\ program \in Programs
  BY BeginKeeps DEF Begin, Controlled, IInv, Grounded
<1>2. Procedures' = Procedures
  BY <1>1 DEF Procedures
<1>3. CASE cstack' = <<>> /\ ip' = 0 /\ status' # "ACTIVE"
  BY <1>1, <1>3 DEF Controlled, ReturnsToCaller, Depth
<1>4. CASE /\ p # 0
           /\ cstack' = <<[ip |-> 0, proc |-> p, base |-> InitialStack]>>
           /\ ip' = Procedures[p].instruction
  <2>1. Within(p, ip') /\ ip' \in Nat
    BY <1>1, <1>4, Entry, Verified
  <2>2. Depth' = 1 /\ cstack'[1].proc = p
    BY <1>4 DEF Depth
  <2>. QED
    BY <1>1, <1>2, <2>1, <2>2 DEF Controlled, ReturnsToCaller, Within
<1>. QED
  BY <1>3, <1>4 DEF Begin

LEMMA InitiallyControlled == Init => Controlled
<1>. SUFFICES ASSUME Init PROVE Controlled
  OBVIOUS
<1>. QED
  BY Initially DEF Init, Controlled, ReturnsToCaller, Depth

LEMMA StepControlled == Controlled /\ [Next]_vars => Controlled'
<1>. SUFFICES ASSUME Controlled, [Next]_vars PROVE Controlled'
  OBVIOUS
<1>1. IInv'
  BY StepKeeps DEF Controlled
<1>2. CASE Move \/ Operation \/ Cmp \/ Jump \/ JumpIf
  <2>1. status = "ACTIVE"
    BY <1>2 DEF Move, Operation, Cmp, Jump, JumpIf
  <2>. QED
    BY <1>1, <1>2, <2>1, OperatingStays, StayingKeeps
<1>3. CASE Reset \/ RetLast
  BY <1>1, <1>3, StayingKeeps DEF Reset, RetLast, Controlled
<1>4. CASE UNCHANGED vars
  BY <1>1, <1>4, StayingKeeps DEF vars, Controlled, ReturnsToCaller
<1>. QED
  BY <1>2, <1>3, <1>4, CallReturns, RetReturns, BeginReturns DEF Next

(* For every verified program, in every execution: what is executed belongs*)
(* to the procedure on top of the call stack, and every return address is  *)
(* the instruction after the call that made the frame (call and the RET    *)
(* case of crustyvm_step).                                                 *)
THEOREM AlwaysReturnsToCaller == Spec => []ReturnsToCaller
<1>1. Controlled => ReturnsToCaller
  BY DEF Controlled
<1>. QED
  BY <1>1, InitiallyControlled, StepControlled, PTL DEF Spec
-----------------------------------------------------------------------------
(* Frames are in the order of the calls. *)
Ordered ==
  /\ \A n \in 1 .. Depth : InitialStack <= cstack[n].base /\ End(n) <= sp
  /\ \A m, n \in 1 .. Depth : m < n => End(m) <= cstack[n].base

LEMMA OrderedStays ==
  ASSUME Ordered, UNCHANGED <<program, cstack, sp>>
  PROVE  Ordered'
BY DEF Ordered, Depth, End, InitialStack, Procedures

LEMMA CallOrders ==
  ASSUME Controlled, Ordered, Call
  PROVE  Ordered'
<1>1. status = "ACTIVE" /\ Inst.op = "call"
  BY DEF Call
<1>2. CASE UNCHANGED <<program, cstack, sp>>
  BY <1>2, OrderedStays
<1>3. CASE /\ UNCHANGED program
           /\ \E refs \in ArgRefs(Inst.args) : Push(Inst.proc, refs, sp, ip + 1)
  <2>0. PICK d \in Nat : d = Depth
    BY <1>1, Top
  <2>. DEFINE e == [ip |-> ip + 1, proc |-> Inst.proc, base |-> sp]
  <2>1. /\ cstack' = Append(cstack, e)
        /\ sp' = sp + Procedures[Inst.proc].stackneeded
    BY <1>3 DEF Push
  <2>2. /\ program \in Programs /\ d \in Nat /\ d > 0 /\ cstack \in Seq(Entries)
        /\ sp \in Nat /\ ip \in Nat
        /\ \A n \in 1 .. d : cstack[n] \in Entries
    BY <1>1, <2>0, Top DEF Controlled, IInv, Grounded
  <2>3. Inst.proc \in Procs
    BY <1>1, Top, Verified DEF Inst
  <2>4. /\ Procedures[Inst.proc].stackneeded \in Nat /\ InitialStack \in Nat
        /\ \A n \in 1 .. d : End(n) \in Nat /\ cstack[n].base \in Nat
    <3>1. ASSUME NEW n \in 1 .. d PROVE cstack[n].base \in Nat /\ cstack[n].proc \in Procs
      BY <2>2 DEF Entries
    <3>2. ASSUME NEW n \in 1 .. d PROVE End(n) \in Nat
      BY SMTT(60), <2>2, <3>1, Verified DEF End
    <3>. QED
      BY <2>2, <2>3, <3>1, <3>2, Verified
  <2>5. e \in Entries
    BY <2>2, <2>3 DEF Entries
  <2>6. /\ Len(cstack') = d + 1 /\ cstack'[d + 1] = e
        /\ \A n \in 1 .. d : cstack'[n] = cstack[n]
    BY <2>0, <2>1, <2>2, <2>5, AppendProperties DEF Depth
  <2>7. Depth' = d + 1 /\ InitialStack' = InitialStack /\ Procedures' = Procedures
    BY <1>3, <2>6 DEF Depth, InitialStack, Procedures
  <2>8. /\ \A n \in 1 .. d : End(n)' = End(n)
        /\ End(d + 1)' = sp'
    <3>1. \A n \in 1 .. d + 1 :
            End(n)' = cstack'[n].base + Procedures[cstack'[n].proc].stackneeded
      BY <2>7 DEF End
    <3>2. d + 1 \in 1 .. d + 1 /\ \A n \in 1 .. d : n \in 1 .. d + 1
      BY <2>2
    <3>. QED
      BY <2>1, <2>6, <3>1, <3>2 DEF End
  <2>9. InitialStack <= sp /\ \A n \in 1 .. d : End(n) <= sp
    <3>1. \A n \in 1 .. d : InitialStack <= cstack[n].base /\ End(n) <= sp
      BY <2>0 DEF Ordered
    <3>2. 1 \in 1 .. d /\ cstack[1].base <= End(1)
      <4>1. 1 \in 1 .. d /\ cstack[1] \in Entries
        BY <2>2
      <4>2. cstack[1].base \in Nat /\ Procedures[cstack[1].proc].stackneeded \in Nat
        BY <2>2, <4>1, Verified DEF Entries
      <4>. QED
        BY <4>1, <4>2 DEF End
    <3>. QED
      BY <2>2, <2>4, <3>1, <3>2
  <2>10. ASSUME NEW n \in 1 .. d + 1
         PROVE  InitialStack <= cstack'[n].base /\ End(n)' <= sp'
    <3>1. CASE n = d + 1
      BY <2>1, <2>2, <2>4, <2>6, <2>8, <2>9, <3>1
    <3>2. CASE n \in 1 .. d
      <4>1. /\ InitialStack <= cstack'[n].base /\ End(n)' = End(n)
            /\ End(n) <= sp /\ End(n) \in Nat
        BY <2>0, <2>4, <2>6, <2>8, <2>9, <3>2 DEF Ordered
      <4>2. sp <= sp'
        <5>1. PICK need \in Nat : need = Procedures[Inst.proc].stackneeded
          BY <2>4
        <5>. QED
          BY <2>1, <2>2, <5>1
      <4>3. sp' \in Nat
        BY <2>1, <2>2, <2>4
      <4>. QED
        BY <2>2, <4>1, <4>2, <4>3
    <3>. QED
      BY <2>2, <3>1, <3>2
  <2>11. ASSUME NEW m \in 1 .. d + 1, NEW n \in 1 .. d + 1, m < n
         PROVE  End(m)' <= cstack'[n].base
    <3>1. m \in 1 .. d
      BY <2>2, <2>11
    <3>2. CASE n = d + 1
      BY <2>6, <2>8, <2>9, <3>1, <3>2
    <3>3. CASE n \in 1 .. d
      BY <2>0, <2>6, <2>8, <2>11, <3>1, <3>3 DEF Ordered
    <3>. QED
      BY <2>2, <3>2, <3>3
  <2>. QED
    BY <2>7, <2>10, <2>11 DEF Ordered
<1>. QED
  BY <1>2, <1>3 DEF Call, Fail

LEMMA RetOrders ==
  ASSUME Controlled, Ordered, Ret
  PROVE  Ordered'
<1>. DEFINE d == Depth
<1>1. /\ status = "ACTIVE" /\ d \in Nat /\ d > 1 /\ cstack \in Seq(Entries)
      /\ program \in Programs
      /\ \A n \in 1 .. d : cstack[n] \in Entries
  BY Top DEF Ret, Depth
<1>2. /\ cstack' = SubSeq(cstack, 1, d - 1) /\ UNCHANGED program
      /\ sp' = sp - Procedures[cstack[d].proc].stackneeded
  BY DEF Ret, Depth
<1>3. /\ Len(cstack') = d - 1
      /\ \A n \in 1 .. (d - 1) : cstack'[n] = cstack[n]
  BY <1>1, <1>2, SubSeqProperties DEF Depth
<1>4. Depth' = d - 1 /\ InitialStack' = InitialStack /\ Procedures' = Procedures
  BY <1>2, <1>3 DEF Depth, InitialStack, Procedures
<1>5. \A n \in 1 .. (d - 1) : End(n)' = End(n)
  BY <1>3, <1>4 DEF End
<1>6. PICK need \in Nat : need = Procedures[cstack[d].proc].stackneeded
  <2>1. cstack[d].proc \in Procs
    BY <1>1 DEF Entries
  <2>. QED
    BY <1>1, <2>1, Verified
<1>7. cstack[d].base \in Nat /\ sp = cstack[d].base + need
  BY <1>1, <1>6 DEF Entries, Controlled, IInv, StackDiscipline, End
<1>8. sp' = cstack[d].base
  BY <1>2, <1>6, <1>7
<1>9. \A n \in 1 .. (d - 1) : End(n) <= cstack[d].base
  BY <1>1 DEF Ordered
<1>. QED
  BY <1>1, <1>3, <1>4, <1>5, <1>8, <1>9 DEF Ordered

LEMMA BeginOrders ==
  ASSUME Controlled, NEW p \in Procs \cup {0}, Begin(p)
  PROVE  Ordered'
<1>1. UNCHANGED program /\ program \in Programs
  BY DEF Begin, Controlled, IInv, Grounded
<1>2. Procedures' = Procedures /\ InitialStack' = InitialStack /\ InitialStack \in Nat
  BY <1>1, Verified DEF Procedures, InitialStack
<1>3. CASE cstack' = <<>>
  BY <1>3 DEF Ordered, Depth
<1>4. CASE /\ p # 0
           /\ cstack' = <<[ip |-> 0, proc |-> p, base |-> InitialStack]>>
           /\ sp' = InitialStack + Procedures[p].stackneeded
  <2>1. Depth' = 1 /\ cstack'[1].proc = p /\ cstack'[1].base = InitialStack
    BY <1>4 DEF Depth
  <2>2. Procedures[p].stackneeded \in Nat
    BY <1>1, <1>4, Verified
  <2>. QED
    BY <1>2, <1>4, <2>1, <2>2 DEF Ordered, End
<1>. QED
  BY <1>3, <1>4 DEF Begin

LEMMA StepOrders ==
  ASSUME Controlled, Ordered, [Next]_vars
  PROVE  Ordered'
<1>1. CASE Move \/ Operation \/ Cmp
  BY <1>1, OperatingIsQuiet, OrderedStays DEF Controlled, Quiet
<1>2. CASE Jump \/ JumpIf
  BY <1>2, JumpingIsQuiet, OrderedStays DEF Controlled, Quiet
<1>3. CASE Reset \/ RetLast \/ UNCHANGED vars
  BY <1>3, OrderedStays DEF Reset, RetLast, vars
<1>. QED
  BY <1>1, <1>2, <1>3, CallOrders, RetOrders, BeginOrders DEF Next

-----------------------------------------------------------------------------
(* Memory and references.                                                  *)

(* Where variables are.  *)

(* The elements of an array of n elements of s cells at b are inside it. *)
LEMMA ElementsInside ==
  ASSUME NEW n \in Nat, NEW i \in 0 .. (n - 1), NEW s \in {1, 2}, NEW b \in Int
  PROVE  /\ i * s \in Int /\ (i + 1) * s \in Int /\ n * s \in Int
         /\ b <= b + i * s
         /\ b + (i + 1) * s - 1 <= b + n * s - 1
<1>1. CASE s = 1
  BY <1>1
<1>2. CASE s = 2
  BY <1>2
<1>. QED
  BY <1>1, <1>2

(* Globals in the initial stack, a procedure's locals below the slots of   *)
(* its arguments.                                                          *)
LEMMA VariablesLaid ==
  ASSUME program \in Programs, NEW v \in DOMAIN Variables
  PROVE  /\ v \in Nat \ {0}
         /\ Var(v).length \in Nat /\ Var(v).offset \in Int
         /\ Var(v).read \in BOOLEAN /\ Var(v).write \in BOOLEAN
         /\ Size(v) \in {1, 2} /\ Var(v).length * Size(v) \in Int
         /\ IsGlobal(v) =>
              /\ Var(v).length > 0
              /\ \/ Var(v).read \/ Var(v).write
                 \/ /\ Var(v).offset >= 0
                    /\ Var(v).offset + Var(v).length * Size(v) <= InitialStack
         /\ ~IsGlobal(v) =>
              /\ Var(v).scope \in Procs /\ ~Var(v).read /\ ~Var(v).write
              /\ IsArgument(v) =>
                   /\ Size(v) = 1 /\ Var(v).offset \in 1 .. Procedures[Var(v).scope].args
              /\ ~IsArgument(v) =>
                   /\ ArgSize * Procedures[Var(v).scope].args
                         <= Var(v).offset - Var(v).length * Size(v)
                   /\ Var(v).offset <= Procedures[Var(v).scope].stackneeded
<1>1. Laid(program, Var(v)) /\ DOMAIN Variables \subseteq Nat \ {0} /\ DOMAIN program.proc \subseteq Nat \ {0}
  BY ProgramsVerified DEF WellFormed, Variables, Var
<1>2. Footprint(Var(v)) = Var(v).length * Size(v)
  BY DEF Footprint, Size, IsFloat
<1>3. Size(v) \in {1, 2} /\ (IsFloat(v) <=> Size(v) = 2)
  BY DEF Size
<1>4. Var(v).length \in Nat
  BY <1>1 DEF Laid
<1>5. Var(v).length * Size(v) \in Int
  BY <1>3, <1>4
<1>. QED
  BY <1>1, <1>2, <1>3, <1>4, <1>5
     DEF Laid, IsGlobal, IsArgument, IsFloat, InitialStack, Procs, Procedures

LEMMA FrameHolds ==
  ASSUME program \in Programs, NEW p \in Procs
  PROVE  /\ Procedures[p].args \in Nat /\ Procedures[p].stackneeded \in Nat
         /\ ArgSize * Procedures[p].args <= Procedures[p].stackneeded
         /\ Procedures[p].init \in [1 .. Procedures[p].stackneeded -> Int]
<1>1. ProcedureOk(program, p)
  BY ProgramsVerified DEF WellFormed, Procs, Procedures
<1>. QED
  BY <1>1 DEF ProcedureOk, Procedures

(* The cells of the slots of a frame are inside it, below its end. *)
LEMMA SlotInside ==
  ASSUME Controlled, Ordered, Depth > 0,
         NEW n \in 1 .. Depth, NEW k \in 1 .. Procedures[cstack[n].proc].args
  PROVE  /\ cstack[n].proc \in Procs /\ cstack[n].base \in Nat /\ End(n) \in Nat
         /\ InitialStack \in Nat /\ StackSize \in Nat /\ sp \in Nat
         /\ Procedures[cstack[n].proc].args \in Nat /\ k \in Nat
         /\ InitialStack <= cstack[n].base /\ End(n) <= sp /\ sp <= StackSize
         /\ cstack[n].base <= End(n) - ArgSize * k
         /\ End(n) - ArgSize * Procedures[cstack[n].proc].args <= End(n) - ArgSize * k
         /\ End(n) - ArgSize * k + 3 <= End(n) - 1
         /\ \A f \in 0 .. 3 : End(n) - ArgSize * k + f \in Address
<1>1. /\ program \in Programs /\ cstack \in Seq(Entries) /\ sp \in Nat
      /\ sp <= StackSize
  BY DEF Controlled, IInv, Grounded, StackDiscipline
<1>2. cstack[n] \in Entries
  BY <1>1, ElementOfSeq DEF Depth
<1>3. cstack[n].proc \in Procs /\ cstack[n].base \in Nat
  BY <1>2 DEF Entries
<1>4. PICK need \in Nat : need = Procedures[cstack[n].proc].stackneeded
  BY <1>1, <1>3, FrameHolds
<1>5. PICK args \in Nat : args = Procedures[cstack[n].proc].args /\ 4 * args <= need
  BY <1>1, <1>3, <1>4, FrameHolds DEF ArgSize
<1>6. /\ End(n) = cstack[n].base + need /\ InitialStack \in Nat /\ StackSize \in Nat
      /\ InitialStack <= cstack[n].base /\ End(n) <= sp
  BY <1>1, <1>4, Verified DEF End, Ordered
<1>7. k \in 1 .. args
  BY <1>5
<1>8. /\ cstack[n].base <= End(n) - 4 * k /\ End(n) - 4 * k + 3 <= End(n) - 1
      /\ End(n) - 4 * args <= End(n) - 4 * k /\ End(n) \in Nat
  BY <1>3, <1>5, <1>6, <1>7
<1>9. \A f \in 0 .. 3 : End(n) - 4 * k + f \in Address
  <2>1. PICK e \in Nat : e = End(n)
    BY <1>8
  <2>2. 0 <= e - 4 * k /\ e - 4 * k + 3 <= StackSize - 1 /\ 4 * k \in Nat
    <3>1. k \in Nat /\ 4 * k \in Nat
      BY <1>5, <1>7
    <3>2. PICK b \in Nat : b <= e - 4 * k
      BY <1>3, <1>8, <2>1
    <3>3. PICK t \in Nat : e <= t /\ t <= StackSize
      BY <1>1, <1>6, <2>1
    <3>4. e - 4 * k + 3 <= e - 1
      BY <1>8, <2>1
    <3>. QED
      BY <1>6, <3>1, <3>2, <3>3, <3>4
  <2>3. ASSUME NEW f \in 0 .. 3 PROVE e - 4 * k + f \in 0 .. (StackSize - 1)
    BY <1>6, <2>2, <2>3
  <2>. QED
    BY <2>1, <2>3 DEF Address
<1>. QED
  BY <1>1, <1>3, <1>5, <1>6, <1>7, <1>8, <1>9 DEF ArgSize

-----------------------------------------------------------------------------
(* What a reference held by frame n, or a reference that an instruction of *)
(* frame n - 1 resolves, can be to.                                        *)
Refers(n, r) ==
  /\ r.val \in DOMAIN Variables
  /\ r.index \in 0 .. (Var(r.val).length - 1)
  /\ IF IsGlobal(r.val) THEN r.ptr = Var(r.val).offset
     ELSE \E j \in 1 .. (n - 1) :
            /\ cstack[j].proc = Var(r.val).scope
            /\ r.ptr = End(j) - Var(r.val).offset

(* No call passes a read callback that cannot be written. *)
PassesWritable(q) ==
  \A i \in DOMAIN q.inst : q.inst[i].op = "call" =>
    \A k \in DOMAIN q.inst[i].args :
      q.inst[i].args[k].kind = "var" => Writable(q.var[q.inst[i].args[k].val])

Passed(v) == /\ Readable(Var(v))
             /\ PassesWritable(program) => Writable(Var(v))

References ==
  \A n \in 1 .. Running :
    \A k \in 1 .. Procedures[cstack[n].proc].args :
      SlotOf(n, k).kind = 1 => Refers(n, SlotOf(n, k)) /\ Passed(SlotOf(n, k).val)

Typed ==
  /\ mem \in [Address -> Int]
  /\ resulttype \in {"INT", "FLOAT"} /\ intresult \in Int /\ floatresult \in Int
  /\ status \in Statuses
  /\ last \in Int
  /\ faults \subseteq {"out_of_range", "read_only", "wrapped"}

(* Nothing was stored into a variable that cannot be written, and no sum   *)
(* of indexes has wrapped.                                                 *)
Clean == "read_only" \notin faults /\ "wrapped" \notin faults

Sound == Typed /\ References /\ InRange

(* Everything that is known of a machine that runs. *)
Live ==
  /\ Controlled /\ Ordered /\ Sound
  /\ status = "ACTIVE"

LEMMA SoundHas ==
  ASSUME Controlled, Sound
  PROVE  TypeOK /\ ReferencesLive /\ InRange
<1>1. TypeOK
  BY DEF Controlled, IInv, Grounded, Sound, Typed, TypeOK, Entries
<1>2. ReferencesLive
  BY DEF Sound, References, ReferencesLive, Refers, Running
<1>. QED
  BY <1>1, <1>2 DEF Sound

(* The frame on top, and its argument v. *)
LEMMA Frame ==
  ASSUME Live
  PROVE  /\ program \in Programs /\ Depth \in Nat /\ Depth > 0 /\ Running = Depth
         /\ cstack[Depth].proc \in Procs
         /\ sp = End(Depth) /\ sp \in Nat /\ sp <= StackSize /\ StackSize \in Nat
         /\ mem \in [Address -> Int]
BY Top, Verified DEF Live, Sound, Typed, Running, Controlled, IInv, StackDiscipline, Grounded

LEMMA ArgumentSlot ==
  ASSUME Live, NEW v \in DOMAIN Variables, Var(v).scope = cstack[Depth].proc,
         IsArgument(v)
  PROVE  /\ ~IsGlobal(v) /\ ~Var(v).read /\ ~Var(v).write /\ Size(v) = 1
         /\ Var(v).offset \in 1 .. Procedures[cstack[Depth].proc].args
         /\ ArgAt(Var(v).offset) = End(Depth) - ArgSize * Var(v).offset
         /\ ArgAt(Var(v).offset) \in Int
         /\ Arg(v).kind \in {"imm", "var"}
         /\ Arg(v).val \in Int /\ Arg(v).index \in Int /\ Arg(v).ptr \in Int
         /\ Arg(v).kind = "var" <=> SlotOf(Depth, Var(v).offset).kind = 1
         /\ Arg(v).kind = "var" => Refers(Depth, Arg(v)) /\ Passed(Arg(v).val)
<1>1. /\ program \in Programs /\ Depth \in Nat /\ Depth > 0 /\ Running = Depth
      /\ cstack[Depth].proc \in Procs /\ sp = End(Depth)
      /\ mem \in [Address -> Int]
  BY Frame
<1>2. ~IsGlobal(v)
  <2>1. 0 \notin Procs
    BY <1>1, ProgramsVerified DEF WellFormed, Procs, Procedures
  <2>. QED
    BY <1>1, <2>1 DEF IsGlobal
<1>3. /\ ~Var(v).read /\ ~Var(v).write /\ Size(v) = 1
      /\ Var(v).offset \in 1 .. Procedures[cstack[Depth].proc].args
  BY <1>1, <1>2, VariablesLaid
<1>4. PICK k \in 1 .. Procedures[cstack[Depth].proc].args : k = Var(v).offset
  BY <1>3
<1>5. PICK at : at = End(Depth) - ArgSize * k
  OBVIOUS
<1>6. /\ at + 0 \in Address /\ at + 1 \in Address /\ at + 2 \in Address /\ at + 3 \in Address
      /\ at \in Int
  <2>1. \A f \in 0 .. 3 : at + f \in Address
    BY <1>1, <1>5, SlotInside DEF Live
  <2>2. End(Depth) \in Nat /\ k \in Nat
    BY <1>1, SlotInside DEF Live
  <2>. QED
    BY <1>5, <2>1, <2>2 DEF ArgSize
<1>7. /\ mem[at + 1] \in Int /\ mem[at + 2] \in Int /\ mem[at + 3] \in Int
  BY <1>1, <1>6
<1>8. ArgAt(Var(v).offset) = at
  BY <1>1, <1>4, <1>5 DEF ArgAt
<1>9. SlotOf(Depth, k) =
        [kind |-> mem[at], val |-> mem[at + 1], index |-> mem[at + 2], ptr |-> mem[at + 3]]
  BY <1>5 DEF SlotOf
<1>10. Arg(v) = [kind |-> IF mem[at] = 1 THEN "var" ELSE "imm",
                 val |-> mem[at + 1], index |-> mem[at + 2], ptr |-> mem[at + 3]]
  BY <1>8 DEF Arg
<1>11. SlotOf(Depth, k).kind = 1 =>
         Refers(Depth, SlotOf(Depth, k)) /\ Passed(SlotOf(Depth, k).val)
  BY <1>1 DEF Live, Sound, References
<1>12. /\ Arg(v).val = SlotOf(Depth, k).val /\ Arg(v).index = SlotOf(Depth, k).index
       /\ Arg(v).ptr = SlotOf(Depth, k).ptr
       /\ Arg(v).kind = "var" <=> SlotOf(Depth, k).kind = 1
  BY <1>9, <1>10
<1>13. Arg(v).kind = "var" => Refers(Depth, Arg(v)) /\ Passed(Arg(v).val)
  BY <1>11, <1>12 DEF Refers
<1>. QED
  BY <1>2, <1>3, <1>4, <1>5, <1>6, <1>7, <1>8, <1>10, <1>12, <1>13

-----------------------------------------------------------------------------
(* What the operands of an instruction resolve to.                         *)

LEMMA Reads ==
  ASSUME mem \in [Address -> Int], NEW v, NEW ptr, NEW index,
         NEW x \in ReadVar(v, ptr, index)
  PROVE  x.status \in {"ACTIVE", "CALLBACK_FAILED"} /\ x.value \in Int
<1>1. Cell(ptr + index * Size(v)) \in Int
  BY DEF Cell
<1>. QED
  BY <1>1, NumbersAreNumbers DEF ReadVar, Good, Bad

LEMMA IndexesAreNumbers ==
  ASSUME Live, NEW o, ElementOf(program, cstack[Depth].proc, o), NEW i \in IndexOf(o)
  PROVE  i.status \in Statuses /\ i.value \in Int
<1>1. mem \in [Address -> Int]
  BY Frame
<1>2. CASE o.indexkind = "imm" /\ o.index \in Int
  BY <1>2 DEF IndexOf, Good, Statuses
<1>3. CASE o.indexkind = "var" /\ Nameable(program, cstack[Depth].proc, o.index)
  <2>1. CASE ~IsArgument(o.index)
    BY <1>1, <1>3, <2>1, Reads DEF IndexOf, Bad, Statuses
  <2>2. CASE IsArgument(o.index)
    <3>1. /\ o.index \in DOMAIN Variables
          /\ Var(o.index).scope = cstack[Depth].proc
      <4>1. o.index \in DOMAIN Variables /\ Var(o.index).scope \in {0, cstack[Depth].proc}
        BY <1>3 DEF Nameable, Variables, Var
      <4>2. ~IsGlobal(o.index)
        BY <2>2, <4>1, Frame, VariablesLaid DEF IsArgument
      <4>. QED
        BY <4>1, <4>2 DEF IsGlobal
    <3>2. Arg(o.index).val \in Int /\ Arg(o.index).kind \in {"imm", "var"}
      BY <2>2, <3>1, ArgumentSlot
    <3>3. IndexOf(o) = IF Arg(o.index).kind = "imm" THEN {Good(Arg(o.index).val)}
                       ELSE IF IsFloat(Arg(o.index).val) THEN {Bad("FLOAT_INDEX")}
                       ELSE ReadVar(Arg(o.index).val, Arg(o.index).ptr, Arg(o.index).index)
      BY <1>3, <2>2 DEF IndexOf
    <3>. QED
      BY <1>1, <3>2, <3>3, Reads DEF Good, Bad, Statuses
  <2>. QED
    BY <2>1, <2>2
<1>. QED
  BY <1>2, <1>3 DEF ElementOf

(* The cell of its own slot that holds the number an argument was given. *)
OwnCell(r) ==
  \E k \in 1 .. Procedures[cstack[Depth].proc].args :
    /\ SlotOf(Depth, k).kind # 1
    /\ r.ptr = End(Depth) - ArgSize * k + 1 /\ r.index = 0
    /\ r.val \in DOMAIN Variables /\ IsArgument(r.val) /\ Size(r.val) = 1
    /\ ~Var(r.val).read /\ ~Var(r.val).write

(* What one frame can refer to, the next one can too. *)
LEMMA RefersStill ==
  ASSUME NEW n \in Nat, NEW a, Refers(n, a),
         NEW r, r.val = a.val, r.ptr = a.ptr, r.index \in 0 .. (Var(a.val).length - 1)
  PROVE  Refers(n + 1, r)
<1>1. CASE IsGlobal(a.val)
  BY <1>1 DEF Refers
<1>2. CASE ~IsGlobal(a.val)
  <2>1. PICK j \in 1 .. (n - 1) :
          cstack[j].proc = Var(a.val).scope /\ a.ptr = End(j) - Var(a.val).offset
    BY <1>2 DEF Refers
  <2>2. j \in 1 .. (n + 1 - 1)
    OBVIOUS
  <2>. QED
    BY <1>2, <2>1, <2>2 DEF Refers
<1>. QED
  BY <1>1, <1>2

LEMMA RefersToFrame ==
  ASSUME NEW n \in Nat, NEW r, Refers(n + 1, r), ~IsGlobal(r.val)
  PROVE  \E j \in 1 .. n :
           cstack[j].proc = Var(r.val).scope /\ r.ptr = End(j) - Var(r.val).offset
<1>1. PICK j \in 1 .. (n + 1 - 1) :
        cstack[j].proc = Var(r.val).scope /\ r.ptr = End(j) - Var(r.val).offset
  BY DEF Refers
<1>2. j \in 1 .. n
  OBVIOUS
<1>. QED
  BY <1>1, <1>2

LEMMA WrapsToInt == \A x \in Int : Wrapped(x) \in Int
BY NumbersAreNumbers DEF Wrapped

LEMMA Resolves ==
  ASSUME Live, NEW o, ElementOf(program, cstack[Depth].proc, o),
         NEW i, i.status \in Statuses, i.value \in Int, NEW dest \in BOOLEAN,
         NEW r, r = At(o, i, dest)
  PROVE  /\ r.status \in Statuses
         /\ r.val \in Int /\ r.index \in Int /\ r.ptr \in Int
         /\ r.status = "ACTIVE" => r.kind \in {"imm", "var"} /\ (dest => r.kind = "var")
         /\ r.kind = "var" => r.val \in DOMAIN Variables
         /\ r.status = "ACTIVE" /\ ~Wraps(o, r) =>
              \/ r.kind = "imm" /\ ~dest
              \/ r.kind = "var" /\ dest /\ OwnCell(r)
              \/ /\ r.kind = "var" /\ Refers(Depth + 1, r)
                 /\ r.val = o.val \/ Passed(r.val)
<1>1. /\ program \in Programs /\ Depth \in Nat /\ Depth > 0
      /\ cstack[Depth].proc \in Procs /\ sp = End(Depth) /\ sp \in Nat
  BY Frame
<1>2. /\ o.val \in DOMAIN Variables
      /\ Var(o.val).scope \in {0, cstack[Depth].proc}
  BY DEF ElementOf, Nameable, Variables, Var
<1>3. CASE i.status # "ACTIVE"
  BY <1>3 DEF At, Unresolved
<1>4. CASE i.status = "ACTIVE" /\ ~IsArgument(o.val)
  <2>1. r = IF i.value \in 0 .. (Var(o.val).length - 1)
              THEN RefTo(o.val, i.value, GetPtr(o.val))
              ELSE Unresolved("OUT_OF_RANGE")
    BY <1>4 DEF At
  <2>2. CASE i.value \in 0 .. (Var(o.val).length - 1)
    <3>1. r = [status |-> "ACTIVE", kind |-> "var", val |-> o.val,
               index |-> i.value, ptr |-> GetPtr(o.val)]
      BY <2>1, <2>2 DEF RefTo
    <3>2. o.val \in Int /\ Var(o.val).offset \in Int
      BY <1>1, <1>2, VariablesLaid
    <3>3. GetPtr(o.val) \in Int
      BY <1>1, <3>2 DEF GetPtr
    <3>4. Refers(Depth + 1, r)
      <4>1. CASE IsGlobal(o.val)
        BY <1>2, <2>2, <3>1, <4>1 DEF Refers, GetPtr
      <4>2. CASE ~IsGlobal(o.val)
        <5>1. Var(o.val).scope = cstack[Depth].proc
          BY <1>2, <4>2 DEF IsGlobal
        <5>2. r.ptr = End(Depth) - Var(o.val).offset
          BY <1>1, <3>1, <4>2 DEF GetPtr
        <5>3. Depth \in 1 .. (Depth + 1 - 1)
          BY <1>1
        <5>. QED
          BY <1>2, <2>2, <3>1, <4>2, <5>1, <5>2, <5>3 DEF Refers
      <4>. QED
        BY <4>1, <4>2
    <3>. QED
      BY <1>2, <3>1, <3>2, <3>3, <3>4 DEF Statuses
  <2>3. CASE i.value \notin 0 .. (Var(o.val).length - 1)
    BY <2>1, <2>3 DEF Unresolved, Statuses
  <2>. QED
    BY <2>2, <2>3
<1>5. CASE i.status = "ACTIVE" /\ IsArgument(o.val)
  <2>1. Var(o.val).scope = cstack[Depth].proc
    BY <1>1, <1>2, <1>5, VariablesLaid DEF IsGlobal, IsArgument
  <2>2. PICK a : a = Arg(o.val)
    OBVIOUS
  <2>3. /\ ~IsGlobal(o.val) /\ ~Var(o.val).read /\ ~Var(o.val).write /\ Size(o.val) = 1
        /\ Var(o.val).offset \in 1 .. Procedures[cstack[Depth].proc].args
        /\ ArgAt(Var(o.val).offset) = End(Depth) - ArgSize * Var(o.val).offset
        /\ ArgAt(Var(o.val).offset) \in Int
        /\ a.kind \in {"imm", "var"}
        /\ a.val \in Int /\ a.index \in Int /\ a.ptr \in Int
        /\ a.kind = "var" <=> SlotOf(Depth, Var(o.val).offset).kind = 1
        /\ a.kind = "var" => Refers(Depth, a) /\ Passed(a.val)
    BY <1>2, <1>5, <2>1, <2>2, ArgumentSlot
  <2>4. PICK index \in Int : index = Wrapped(i.value + a.index)
    <3>1. i.value + a.index \in Int
      BY <2>3
    <3>. QED
      BY <3>1, WrapsToInt
  <2>5. r = IF a.kind = "var"
              THEN IF i.value < 0 \/ Beyond(a.val, index)
                     THEN Unresolved("OUT_OF_RANGE") ELSE RefTo(a.val, index, a.ptr)
            ELSE IF i.value # 0 THEN Unresolved("OUT_OF_RANGE")
            ELSE IF dest THEN RefTo(o.val, 0, ArgAt(Var(o.val).offset) + 1)
            ELSE Immediate(a.val)
    BY <1>5, <2>2, <2>4 DEF At
  <2>6. CASE r = Unresolved("OUT_OF_RANGE")
    BY <2>6 DEF Unresolved, Statuses
  <2>7. CASE a.kind = "var" /\ i.value >= 0 /\ ~Beyond(a.val, index) /\ r = RefTo(a.val, index, a.ptr)
    <3>1. Refers(Depth, a) /\ Passed(a.val)
      BY <2>3, <2>7
    <3>2. PICK length \in Nat : length = Var(a.val).length
      BY <1>1, <3>1, VariablesLaid DEF Refers
    <3>3. a.index >= 0 /\ index <= length - 1
      BY <2>7, <3>1, <3>2 DEF Refers, Beyond
    <3>4. r = [status |-> "ACTIVE", kind |-> "var", val |-> a.val, index |-> index, ptr |-> a.ptr]
      BY <2>7 DEF RefTo
    <3>5. /\ r.val = a.val /\ r.index = index /\ r.ptr = a.ptr
          /\ r.kind = "var" /\ r.status = "ACTIVE"
      BY <3>4
    <3>6. ASSUME ~Wraps(o, r) PROVE Refers(Depth + 1, r)
      <4>1. ~(index < a.index)
        BY <1>5, <2>2, <2>7, <3>5, <3>6 DEF Wraps
      <4>2. index \in 0 .. (length - 1)
        BY <2>3, <2>4, <3>2, <3>3, <4>1
      <4>. QED
        BY <1>1, <3>1, <3>2, <3>5, <4>2, RefersStill
    <3>7. r.val \in DOMAIN Variables
      BY <3>1, <3>5 DEF Refers
    <3>. QED
      BY <2>3, <2>4, <3>1, <3>5, <3>6, <3>7 DEF Statuses
  <2>8. CASE a.kind = "imm" /\ ~dest /\ r = Immediate(a.val)
    BY <2>3, <2>8 DEF Immediate, Statuses
  <2>9. CASE a.kind = "imm" /\ dest /\ r = RefTo(o.val, 0, ArgAt(Var(o.val).offset) + 1)
    <3>1. r = [status |-> "ACTIVE", kind |-> "var", val |-> o.val, index |-> 0,
               ptr |-> ArgAt(Var(o.val).offset) + 1]
      BY <2>9 DEF RefTo
    <3>2. PICK k \in 1 .. Procedures[cstack[Depth].proc].args : k = Var(o.val).offset
      BY <2>3
    <3>3. /\ r.val = o.val /\ r.index = 0 /\ r.ptr = End(Depth) - ArgSize * k + 1
          /\ r.kind = "var" /\ r.status = "ACTIVE"
      BY <2>3, <3>1, <3>2
    <3>4. SlotOf(Depth, k).kind # 1
      BY <2>3, <2>9, <3>2
    <3>5. OwnCell(r)
      BY <1>2, <1>5, <2>3, <3>3, <3>4 DEF OwnCell
    <3>6. r.val \in Int /\ r.ptr \in Int
      BY <1>1, <1>2, <2>3, <3>1, <3>3, VariablesLaid
    <3>7. /\ r.status \in Statuses /\ r.index \in Int
          /\ r.kind \in {"imm", "var"} /\ r.val \in DOMAIN Variables
      BY <1>2, <3>3 DEF Statuses
    <3>. QED
      BY <2>9, <3>3, <3>5, <3>6, <3>7, Zenon
  <2>. QED
    BY SMTT(60), <2>3, <2>4, <2>5, <2>6, <2>7, <2>8, <2>9
<1>. QED
  BY <1>3, <1>4, <1>5

LEMMA LengthIsNumber ==
  ASSUME Live, NEW v, Nameable(program, cstack[Depth].proc, v)
  PROVE  LengthOf(v) \in Int
<1>1. v \in DOMAIN Variables /\ Var(v).scope \in {0, cstack[Depth].proc}
  BY DEF Nameable, Variables, Var
<1>2. program \in Programs
  BY Frame
<1>3. CASE ~IsArgument(v)
  BY <1>1, <1>2, <1>3, VariablesLaid DEF LengthOf
<1>4. CASE IsArgument(v)
  <2>1. Var(v).scope = cstack[Depth].proc
    BY <1>1, <1>2, <1>4, VariablesLaid DEF IsGlobal, IsArgument
  <2>2. CASE Arg(v).kind = "var"
    <3>1. Arg(v).val \in DOMAIN Variables /\ Arg(v).index \in Int
      BY <1>1, <1>4, <2>1, <2>2, ArgumentSlot DEF Refers
    <3>2. Var(Arg(v).val).length \in Nat
      BY <1>2, <3>1, VariablesLaid
    <3>. QED
      BY <1>4, <2>2, <3>1, <3>2 DEF LengthOf
  <2>3. CASE Arg(v).kind # "var"
    BY <1>4, <2>3 DEF LengthOf
  <2>. QED
    BY <2>2, <2>3
<1>. QED
  BY <1>3, <1>4

(* A source is a number, or an element that can be read, and that is the   *)
(* one the instruction names or was passed.                                *)
LEMMA SourceResolves ==
  ASSUME Live, NEW o, Source(program, cstack[Depth].proc, o), NEW r \in SrcRefs(o)
  PROVE  /\ r.status \in Statuses
         /\ r.val \in Int /\ r.index \in Int /\ r.ptr \in Int
         /\ r.status = "ACTIVE" /\ ~Wraps(o, r) =>
              \/ r.kind = "imm"
              \/ /\ r.kind = "var" /\ Refers(Depth + 1, r) /\ Readable(Var(r.val))
                 /\ o.kind = "var" /\ (r.val = o.val \/ Passed(r.val))
<1>1. CASE o.kind = "imm" /\ o.val \in Int
  BY <1>1 DEF SrcRefs, Immediate, Statuses
<1>2. CASE o.kind = "len" /\ Nameable(program, cstack[Depth].proc, o.val)
  <2>1. LengthOf(o.val) \in Int
    BY <1>2, LengthIsNumber
  <2>2. r = Immediate(LengthOf(o.val))
    BY <1>2 DEF SrcRefs
  <2>. QED
    BY <2>1, <2>2 DEF Immediate, Statuses
<1>3. CASE /\ o.kind = "var" /\ ElementOf(program, cstack[Depth].proc, o)
           /\ Readable(Var(o.val))
  <2>1. PICK i \in IndexOf(o) : r = At(o, i, FALSE)
    BY <1>3 DEF SrcRefs
  <2>2. i.status \in Statuses /\ i.value \in Int
    BY <1>3, IndexesAreNumbers
  <2>3. /\ r.status \in Statuses
        /\ r.val \in Int /\ r.index \in Int /\ r.ptr \in Int
        /\ r.status = "ACTIVE" /\ ~Wraps(o, r) =>
             \/ r.kind = "imm"
             \/ /\ r.kind = "var" /\ Refers(Depth + 1, r)
                /\ r.val = o.val \/ Passed(r.val)
    BY <1>3, <2>1, <2>2, Resolves
  <2>. QED
    BY <1>3, <2>3 DEF Passed
<1>. QED
  BY <1>1, <1>2, <1>3 DEF Source, Var, Variables

(* A destination is an element that can be written, if only such are       *)
(* passed, or the number an argument was given.                            *)
LEMMA DestinationResolves ==
  ASSUME Live, NEW o, Destination(program, cstack[Depth].proc, o), NEW r \in DestRefs(o)
  PROVE  /\ r.status \in Statuses
         /\ r.status = "ACTIVE" =>
              /\ r.kind = "var" /\ r.val \in DOMAIN Variables
              /\ r.index \in Int /\ r.ptr \in Int
              /\ \/ OwnCell(r) \/ Wraps(o, r)
                 \/ Refers(Depth + 1, r) /\ (Writable(Var(r.val)) \/ Passed(r.val))
<1>1. /\ ElementOf(program, cstack[Depth].proc, o) /\ Writable(Var(o.val))
  BY DEF Destination, Var, Variables
<1>2. PICK i \in IndexOf(o) : r = At(o, i, TRUE)
  BY DEF DestRefs
<1>3. i.status \in Statuses /\ i.value \in Int
  BY <1>1, IndexesAreNumbers
<1>4. /\ r.status \in Statuses
      /\ r.index \in Int /\ r.ptr \in Int
      /\ r.status = "ACTIVE" => r.kind = "var" /\ r.val \in DOMAIN Variables
      /\ r.status = "ACTIVE" /\ ~Wraps(o, r) =>
           \/ r.kind = "var" /\ OwnCell(r)
           \/ /\ r.kind = "var" /\ Refers(Depth + 1, r)
              /\ r.val = o.val \/ Passed(r.val)
  BY <1>1, <1>2, <1>3, Resolves
<1>. QED
  BY <1>1, <1>4 DEF Refers, OwnCell

-----------------------------------------------------------------------------
(* What an instruction reads and writes.                                   *)

(* The slots of the arguments of the procedures being called. *)
SlotCells(n) ==
  (End(n) - ArgSize * Procedures[cstack[n].proc].args) .. (End(n) - 1)

(* The element that a reference is to is in memory, and is no part of the  *)
(* slots: a global lies below all frames, a local below the slots of its   *)
(* own.                                                                    *)
LEMMA ElementApart ==
  ASSUME Live, NEW r, r.kind = "var", r.ptr \in Int, r.index \in Int,
         Refers(Depth + 1, r), ~Var(r.val).read, ~Var(r.val).write
  PROVE  /\ ~Outside(r)
         /\ Element(r) \subseteq Address
         /\ \A n \in 1 .. Depth : Element(r) \cap SlotCells(n) = {}
<1>1. /\ program \in Programs /\ Depth \in Nat /\ Depth > 0
      /\ sp \in Nat /\ sp <= StackSize /\ StackSize \in Nat
      /\ cstack \in Seq(Entries) /\ \A n \in 1 .. Depth : cstack[n] \in Entries
  BY Frame, Top DEF Live
<1>2. ASSUME NEW n \in 1 .. Depth
      PROVE  /\ cstack[n].proc \in Procs /\ cstack[n].base \in Nat
             /\ Procedures[cstack[n].proc].args \in Nat
             /\ Procedures[cstack[n].proc].stackneeded \in Nat
             /\ ArgSize * Procedures[cstack[n].proc].args
                   <= Procedures[cstack[n].proc].stackneeded
             /\ End(n) = cstack[n].base + Procedures[cstack[n].proc].stackneeded
             /\ InitialStack <= cstack[n].base /\ End(n) <= sp
             /\ InitialStack \in Nat /\ End(n) \in Nat
  <2>1. cstack[n].proc \in Procs /\ cstack[n].base \in Nat
    BY <1>1 DEF Entries
  <2>2. InitialStack <= cstack[n].base /\ End(n) <= sp
    BY DEF Live, Ordered
  <2>3. End(n) = cstack[n].base + Procedures[cstack[n].proc].stackneeded
    BY DEF End
  <2>4. /\ Procedures[cstack[n].proc].args \in Nat
        /\ Procedures[cstack[n].proc].stackneeded \in Nat
        /\ ArgSize * Procedures[cstack[n].proc].args
              <= Procedures[cstack[n].proc].stackneeded
    BY <1>1, <2>1, FrameHolds
  <2>. QED
    BY SMTT(60), <1>1, <2>1, <2>2, <2>3, <2>4, Verified
<1>3. /\ r.val \in DOMAIN Variables /\ Size(r.val) \in {1, 2}
      /\ Var(r.val).length \in Nat /\ r.index \in 0 .. (Var(r.val).length - 1)
      /\ Var(r.val).offset \in Int
  BY <1>1, VariablesLaid DEF Refers
<1>4. PICK len \in Nat, s \in {1, 2}, off \in Int :
        len = Var(r.val).length /\ s = Size(r.val) /\ off = Var(r.val).offset
  BY <1>3
<1>5. Element(r) = (r.ptr + r.index * s) .. (r.ptr + (r.index + 1) * s - 1)
  BY <1>4 DEF Element
<1>6. r.index \in 0 .. (len - 1)
  BY <1>3, <1>4
<1>7. /\ r.index * s \in Int /\ (r.index + 1) * s \in Int /\ len * s \in Int
      /\ r.ptr <= r.ptr + r.index * s
      /\ r.ptr + (r.index + 1) * s - 1 <= r.ptr + len * s - 1
  BY <1>4, <1>6, ElementsInside
<1>8. \A a \in Element(r) : a \in Int /\ r.ptr <= a /\ a <= r.ptr + len * s - 1
  <2>1. PICK lo \in Int, hi \in Int :
          /\ lo = r.ptr + r.index * s /\ hi = r.ptr + (r.index + 1) * s - 1
          /\ r.ptr <= lo /\ hi <= r.ptr + len * s - 1
    BY <1>7
  <2>2. Element(r) = lo .. hi
    BY <1>5, <2>1
  <2>3. PICK top \in Int : top = r.ptr + len * s - 1
    BY <1>7
  <2>. QED
    BY SMTT(60), <2>1, <2>2, <2>3
<1>9. r.index \in Room(r.val)
  BY <1>4, <1>6 DEF Room, IsArgument
<1>10. CASE IsGlobal(r.val)
  <2>1. r.ptr = off /\ off >= 0 /\ off + len * s <= InitialStack
    BY <1>1, <1>3, <1>4, <1>10, VariablesLaid DEF Refers
  <2>2. /\ InitialStack \in Nat /\ InitialStack <= sp
        /\ \A n \in 1 .. Depth : InitialStack <= End(n) - ArgSize * Procedures[cstack[n].proc].args
    <3>1. ASSUME NEW n \in 1 .. Depth
          PROVE  /\ InitialStack <= End(n) - ArgSize * Procedures[cstack[n].proc].args
                 /\ InitialStack <= sp /\ InitialStack \in Nat
      <4>1. PICK args \in Nat, need \in Nat, base \in Nat :
              /\ args = Procedures[cstack[n].proc].args
              /\ need = Procedures[cstack[n].proc].stackneeded
              /\ base = cstack[n].base
        BY <1>2
      <4>2. /\ 4 * args <= need /\ End(n) = base + need
            /\ InitialStack <= base /\ End(n) <= sp /\ InitialStack \in Nat
        BY <1>2, <4>1 DEF ArgSize
      <4>3. PICK slots \in Nat : slots = 4 * args
        BY <4>1
      <4>4. InitialStack <= base + need - slots /\ InitialStack <= sp
        <5>1. PICK top \in Nat : top = sp
          BY <1>1
        <5>2. slots <= need /\ base + need <= top /\ InitialStack <= base
          BY <4>2, <4>3, <5>1
        <5>3. InitialStack \in Nat
          BY <4>2
        <5>. QED
          BY <5>1, <5>2, <5>3
      <4>. QED
        BY <4>1, <4>2, <4>3, <4>4 DEF ArgSize
    <3>2. 1 \in 1 .. Depth
      BY <1>1
    <3>. QED
      BY <3>1, <3>2
  <2>3. \A a \in Element(r) : a \in Int /\ 0 <= a /\ a < InitialStack
    BY <1>7, <1>8, <2>1, <2>2
  <2>4. Element(r) \subseteq Address
    BY <1>1, <2>2, <2>3 DEF Address
  <2>5. ASSUME NEW n \in 1 .. Depth, NEW a \in Element(r) PROVE a \notin SlotCells(n)
    <3>1. PICK lo \in Int : lo = End(n) - ArgSize * Procedures[cstack[n].proc].args
      BY <1>2 DEF ArgSize
    <3>2. InitialStack <= lo /\ SlotCells(n) = lo .. (End(n) - 1)
      BY <2>2, <3>1 DEF SlotCells
    <3>. QED
      BY <1>2, <2>2, <2>3, <3>1, <3>2
  <2>. QED
    BY <1>9, <2>4, <2>5 DEF Outside
<1>11. CASE ~IsGlobal(r.val)
  <2>1. PICK j \in 1 .. Depth :
          cstack[j].proc = Var(r.val).scope /\ r.ptr = End(j) - off
    BY <1>1, <1>4, <1>11, RefersToFrame
  <2>2. j \in 1 .. Depth
    OBVIOUS
  <2>3. PICK base \in Nat, args \in Nat, need \in Nat :
          /\ base = cstack[j].base /\ args = Procedures[cstack[j].proc].args
          /\ need = Procedures[cstack[j].proc].stackneeded
    BY <1>2, <2>2
  <2>4. /\ 4 * args <= need /\ End(j) = base + need /\ End(j) <= sp /\ End(j) \in Nat
    BY <1>2, <2>2, <2>3 DEF ArgSize
  <2>5. 4 * args <= off - len * s /\ off <= need
    <3>1. ~IsArgument(r.val)
      BY <1>4, <1>6 DEF IsArgument
    <3>. QED
      BY <1>1, <1>3, <1>4, <1>11, <2>1, <2>3, <3>1, VariablesLaid DEF ArgSize
  <2>6. \A a \in Element(r) : a \in Int /\ base <= a /\ a < End(j) - 4 * args
    <3>1. base <= r.ptr /\ r.ptr + len * s <= End(j) - 4 * args
      BY <1>7, <2>1, <2>3, <2>4, <2>5
    <3>. QED
      <4>1. PICK top \in Int : top = r.ptr + len * s /\ top <= End(j) - 4 * args
        BY <1>7, <3>1
      <4>2. \A a \in Element(r) : a \in Int /\ r.ptr <= a /\ a <= top - 1
        BY <1>7, <1>8, <4>1
      <4>3. PICK bound \in Int : bound = End(j) - 4 * args
        BY <2>3, <2>4
      <4>. QED
        <5>1. base <= r.ptr /\ top <= bound
          BY <3>1, <4>1, <4>3
        <5>2. ASSUME NEW a \in Element(r)
              PROVE  a \in Int /\ base <= a /\ a < bound
          <6>1. PICK ptr \in Int : ptr = r.ptr
            OBVIOUS
          <6>2. a \in Int /\ ptr <= a /\ a <= top - 1 /\ base <= ptr
            BY <4>2, <5>1, <6>1
          <6>. QED
            BY <5>1, <6>2
        <5>. QED
          BY <4>3, <5>2
  <2>7. Element(r) \subseteq Address
    <3>1. PICK top \in Nat : top = End(j) /\ top <= StackSize
      BY <1>1, <2>4
    <3>2. ASSUME NEW a \in Element(r) PROVE a \in Int /\ 0 <= a /\ a <= StackSize - 1
      <4>1. PICK slots \in Nat : slots = 4 * args
        BY <2>3
      <4>2. a \in Int /\ base <= a /\ a < top - slots
        BY <2>6, <3>1, <4>1
      <4>3. PICK size \in Nat : size = StackSize /\ top <= size
        BY <1>1, <3>1
      <4>4. 0 <= a /\ a <= size - 1
        BY <2>3, <3>1, <4>1, <4>2, <4>3
      <4>. QED
        BY <4>2, <4>3, <4>4
    <3>. QED
      BY <1>1, <3>2 DEF Address
  <2>8. ASSUME NEW n \in 1 .. Depth, NEW a \in Element(r) PROVE a \notin SlotCells(n)
    <3>1. CASE n = j
      BY <2>3, <2>4, <2>6, <3>1 DEF SlotCells, ArgSize
    <3>2. CASE j < n
      <4>1. End(j) <= cstack[n].base
        BY <2>2, <3>2 DEF Live, Ordered
      <4>2. cstack[n].base <= End(n) - 4 * Procedures[cstack[n].proc].args
        BY <1>2 DEF ArgSize
      <4>. QED
        BY <1>2, <2>3, <2>4, <2>6, <4>1, <4>2 DEF SlotCells, ArgSize
    <3>3. CASE n < j
      <4>1. End(n) <= cstack[j].base
        BY <2>2, <3>3 DEF Live, Ordered
      <4>. QED
        BY <1>2, <2>3, <2>6, <4>1 DEF SlotCells
    <3>. QED
      BY <2>2, <3>1, <3>2, <3>3
  <2>. QED
    BY <1>9, <2>7, <2>8 DEF Outside
<1>. QED
  BY <1>10, <1>11

(* The number of an argument is a cell of its own, in memory. *)
LEMMA OwnCellApart ==
  ASSUME Live, NEW r, OwnCell(r)
  PROVE  /\ ~Outside(r) /\ Element(r) \subseteq Address
         /\ \E k \in 1 .. Procedures[cstack[Depth].proc].args :
              /\ SlotOf(Depth, k).kind # 1
              /\ Element(r) = {End(Depth) - ArgSize * k + 1}
<1>1. PICK k \in 1 .. Procedures[cstack[Depth].proc].args :
        /\ SlotOf(Depth, k).kind # 1
        /\ r.ptr = End(Depth) - ArgSize * k + 1 /\ r.index = 0
        /\ r.val \in DOMAIN Variables /\ IsArgument(r.val) /\ Size(r.val) = 1
  BY DEF OwnCell
<1>2. Depth \in Nat /\ Depth > 0
  BY Frame
<1>3. /\ End(Depth) \in Nat /\ k \in Nat
      /\ \A f \in 0 .. 3 : End(Depth) - ArgSize * k + f \in Address
  BY <1>2, SlotInside DEF Live
<1>4. PICK c \in Int : c = r.ptr /\ c = End(Depth) - ArgSize * k + 1 /\ c \in Address
  BY <1>1, <1>3 DEF ArgSize
<1>5. Element(r) = (c + 0 * 1) .. (c + (0 + 1) * 1 - 1)
  BY <1>1, <1>4 DEF Element
<1>6. Element(r) = {c}
  BY <1>5
<1>7. r.index \in Room(r.val)
  BY <1>1 DEF Room
<1>. QED
  BY <1>1, <1>4, <1>6, <1>7 DEF Outside

(* Storing into an element, or into the number of an argument, leaves the  *)
(* slots of all arguments that refer to elements as they are, and makes no *)
(* argument that was a number into one that refers.                        *)
LEMMA StoredApart ==
  ASSUME Live, NEW r, r.kind = "var", r.ptr \in Int, r.index \in Int,
         OwnCell(r) \/ Refers(Depth + 1, r), ~Var(r.val).read, ~Var(r.val).write,
         NEW x \in Int, NEW m, m = Stored(r, x)
  PROVE  /\ m \in [Address -> Int] /\ Element(r) \subseteq Address /\ ~Outside(r)
         /\ \A n \in 1 .. Depth : \A k \in 1 .. Procedures[cstack[n].proc].args :
              m[End(n) - ArgSize * k] = 1 =>
                \A f \in 0 .. 3 : m[End(n) - ArgSize * k + f] = mem[End(n) - ArgSize * k + f]
<1>. DEFINE c == r.ptr + r.index * Size(r.val)
<1>1. /\ mem \in [Address -> Int] /\ program \in Programs /\ Depth \in Nat /\ Depth > 0
  BY Frame
<1>2. m = [a \in Address |-> IF a = c THEN x ELSE IF a \in Element(r) THEN 0 ELSE mem[a]]
  BY DEF Stored
<1>3. m \in [Address -> Int]
  BY <1>1, <1>2
<1>4. c \in Element(r)
  <2>1. r.val \in DOMAIN Variables
    BY DEF OwnCell, Refers
  <2>2. Size(r.val) \in {1, 2}
    BY <1>1, <2>1, VariablesLaid
  <2>3. c \in Int /\ c <= r.ptr + (r.index + 1) * Size(r.val) - 1 /\ r.ptr + (r.index + 1) * Size(r.val) - 1 \in Int
    <3>1. CASE Size(r.val) = 1
      BY <3>1
    <3>2. CASE Size(r.val) = 2
      BY <3>2
    <3>. QED
      BY <2>2, <3>1, <3>2
  <2>. QED
    BY <2>3 DEF Element
<1>5. \A a \in Address : a \notin Element(r) => m[a] = mem[a]
  BY <1>2, <1>4
<1>6. CASE OwnCell(r)
  <2>1. PICK k0 \in 1 .. Procedures[cstack[Depth].proc].args :
          /\ SlotOf(Depth, k0).kind # 1
          /\ Element(r) = {End(Depth) - ArgSize * k0 + 1}
    BY <1>6, OwnCellApart
  <2>2. /\ End(Depth) \in Nat /\ k0 \in Nat /\ cstack[Depth].base \in Nat
        /\ cstack[Depth].base <= End(Depth) - ArgSize * k0
        /\ End(Depth) - ArgSize * k0 + 0 \in Address
    BY <1>1, SlotInside DEF Live
  <2>3. ASSUME NEW n \in 1 .. Depth, NEW k \in 1 .. Procedures[cstack[n].proc].args,
               m[End(n) - ArgSize * k] = 1, NEW f \in 0 .. 3
        PROVE  m[End(n) - ArgSize * k + f] = mem[End(n) - ArgSize * k + f]
    <3>1. /\ End(n) \in Nat /\ k \in Nat
          /\ \A g \in 0 .. 3 : End(n) - ArgSize * k + g \in Address
          /\ End(n) - ArgSize * k + 3 <= End(n) - 1
      BY <1>1, SlotInside DEF Live
    <3>2. End(n) - ArgSize * k + f # End(Depth) - ArgSize * k0 + 1
      <4>1. CASE n = Depth
        <5>1. k # k0
          <6>1. SUFFICES ASSUME k = k0 PROVE FALSE
            OBVIOUS
          <6>2. PICK at \in Address : at = End(Depth) - ArgSize * k0
            BY <2>2 DEF ArgSize
          <6>3. at # at + 1
            BY <2>2, <6>2 DEF ArgSize
          <6>4. m[at] = mem[at]
            BY <1>5, <2>1, <6>2, <6>3
          <6>. QED
            BY <2>1, <2>3, <4>1, <6>1, <6>2, <6>4 DEF SlotOf
        <5>. QED
          BY <2>2, <3>1, <4>1, <5>1 DEF ArgSize
      <4>2. CASE n # Depth
        <5>1. End(n) <= cstack[Depth].base
          BY <1>1, <4>2 DEF Live, Ordered
        <5>2. PICK e \in Nat, at \in Int, at0 \in Int, b \in Nat :
                /\ e = End(n) /\ at = End(n) - ArgSize * k
                /\ at0 = End(Depth) - ArgSize * k0 /\ b = cstack[Depth].base
          BY <2>2, <3>1 DEF ArgSize
        <5>3. e <= b /\ b <= at0 /\ at + 3 <= e - 1
          BY <2>2, <3>1, <5>1, <5>2
        <5>. QED
          BY <5>2, <5>3
      <4>. QED
        BY <4>1, <4>2
    <3>. QED
      BY <1>5, <2>1, <3>1, <3>2
  <2>. QED
    BY <1>3, <1>6, <2>3, OwnCellApart
<1>7. CASE Refers(Depth + 1, r)
  <2>1. /\ ~Outside(r) /\ Element(r) \subseteq Address
        /\ \A n \in 1 .. Depth : Element(r) \cap SlotCells(n) = {}
    BY <1>7, ElementApart
  <2>2. ASSUME NEW n \in 1 .. Depth, NEW k \in 1 .. Procedures[cstack[n].proc].args,
               NEW f \in 0 .. 3
        PROVE  m[End(n) - ArgSize * k + f] = mem[End(n) - ArgSize * k + f]
    <3>1. /\ End(n) \in Nat /\ k \in Nat /\ Procedures[cstack[n].proc].args \in Nat
          /\ End(n) - ArgSize * k + f \in Address
          /\ End(n) - ArgSize * k + 3 <= End(n) - 1
          /\ End(n) - ArgSize * Procedures[cstack[n].proc].args <= End(n) - ArgSize * k
      BY <1>1, SlotInside DEF Live
    <3>2. End(n) - ArgSize * k + f \in SlotCells(n)
      <4>1. PICK at \in Int, lo \in Int, e \in Nat :
              /\ at = End(n) - ArgSize * k /\ e = End(n)
              /\ lo = End(n) - ArgSize * Procedures[cstack[n].proc].args
        BY <3>1 DEF ArgSize
      <4>2. lo <= at /\ at + 3 <= e - 1 /\ SlotCells(n) = lo .. (e - 1)
        BY <3>1, <4>1 DEF SlotCells
      <4>3. at + f \in lo .. (e - 1)
        <5>1. lo <= at /\ at + 3 <= e - 1
          BY <4>2
        <5>2. f \in Int /\ 0 <= f /\ f <= 3
          OBVIOUS
        <5>3. lo <= at + f /\ at + f <= e - 1 /\ at + f \in Int
          BY <4>1, <5>1, <5>2
        <5>. QED
          BY <4>1, <5>3
      <4>. QED
        BY <4>1, <4>2, <4>3
    <3>. QED
      BY <1>5, <2>1, <3>1, <3>2
  <2>. QED
    BY <1>3, <2>1, <2>2
<1>. QED
  BY <1>6, <1>7

(* What leaves the slots of arguments that refer alone leaves the          *)
(* references alone.                                                       *)
LEMMA ReferencesStay ==
  ASSUME Live, UNCHANGED <<program, cstack>>,
         \A n \in 1 .. Depth : \A k \in 1 .. Procedures[cstack[n].proc].args :
           mem'[End(n) - ArgSize * k] = 1 =>
             \A f \in 0 .. 3 :
               mem'[End(n) - ArgSize * k + f] = mem[End(n) - ArgSize * k + f]
  PROVE  References'
<1>1. /\ Depth' = Depth /\ Procedures' = Procedures /\ Variables' = Variables
  BY DEF Depth, Procedures, Variables
<1>2. /\ \A n : End(n)' = End(n)
      /\ \A v : Var(v)' = Var(v) /\ (IsGlobal(v)' <=> IsGlobal(v))
      /\ \A v : Passed(v)' <=> Passed(v)
  BY <1>1 DEF End, Var, IsGlobal, Passed
<1>3. Depth \in Nat /\ Depth > 0 /\ Running = Depth
  BY Frame
<1>4. ASSUME NEW n \in 1 .. Depth, NEW k \in 1 .. Procedures[cstack[n].proc].args,
             SlotOf(n, k)'.kind = 1
      PROVE  Refers(n, SlotOf(n, k))' /\ Passed(SlotOf(n, k).val)'
  <2>1. PICK at : at = End(n) - ArgSize * k
    OBVIOUS
  <2>2. /\ SlotOf(n, k)' = [kind |-> mem'[at], val |-> mem'[at + 1],
                            index |-> mem'[at + 2], ptr |-> mem'[at + 3]]
        /\ SlotOf(n, k) = [kind |-> mem[at], val |-> mem[at + 1],
                           index |-> mem[at + 2], ptr |-> mem[at + 3]]
    BY <1>2, <2>1 DEF SlotOf
  <2>3. at + 0 = at
    <3>1. End(n) \in Nat /\ k \in Nat
      BY <1>3, SlotInside DEF Live
    <3>. QED
      BY <2>1, <3>1 DEF ArgSize
  <2>4. \A f \in 0 .. 3 : mem'[at + f] = mem[at + f]
    BY <1>4, <2>1, <2>2
  <2>5. SlotOf(n, k)' = SlotOf(n, k)
    BY <2>2, <2>3, <2>4
  <2>6. SlotOf(n, k).kind = 1
    BY <1>4, <2>5
  <2>7. Refers(n, SlotOf(n, k)) /\ Passed(SlotOf(n, k).val)
    BY <1>3, <2>6 DEF Live, Sound, References
  <2>8. PICK r : r = SlotOf(n, k) /\ r = SlotOf(n, k)'
    BY <2>5
  <2>9. Refers(n, r) /\ Passed(r.val)
    BY <2>7, <2>8
  <2>10. /\ Refers(n, r)' <=> Refers(n, r)
         /\ Passed(r.val)' <=> Passed(r.val)
    BY <1>1, <1>2 DEF Refers
  <2>. QED
    BY <2>8, <2>9, <2>10
<1>5. Running' \in {0, Depth}
  BY <1>1 DEF Running
<1>. QED
  BY <1>1, <1>3, <1>4, <1>5 DEF References

LEMMA FetchesNumbers ==
  ASSUME Live, NEW r, r.val \in Int, NEW x \in Fetched(r)
  PROVE  x.status \in Statuses /\ x.value \in Int
<1>1. mem \in [Address -> Int]
  BY Frame
<1>2. CASE r.kind = "var"
  BY <1>1, <1>2, Reads DEF Fetched, Statuses
<1>3. CASE r.kind # "var"
  BY <1>3 DEF Fetched, Good, Statuses
<1>. QED
  BY <1>2, <1>3

(* Reading a source is no fault. *)
LEMMA SourceIsRead ==
  ASSUME Live, NEW o, Source(program, cstack[Depth].proc, o), NEW r \in SrcRefs(o),
         r.status = "ACTIVE", ~Wraps(o, r)
  PROVE  Reading(r) = {}
<1>1. CASE InMemory(r)
  <2>1. /\ r.kind = "var" /\ ~Var(r.val).read /\ r.ptr \in Int /\ r.index \in Int
        /\ Refers(Depth + 1, r) /\ Readable(Var(r.val))
    BY <1>1, SourceResolves DEF InMemory
  <2>2. ~Var(r.val).write
    BY <2>1 DEF Readable
  <2>. QED
    BY <2>1, <2>2, ElementApart DEF Reading
<1>2. CASE ~InMemory(r)
  BY <1>2 DEF Reading
<1>. QED
  BY <1>1, <1>2

(* Writing a destination that is no write callback is a fault only when it *)
(* is a read callback, which no instruction names as its destination.      *)
LEMMA DestinationIsWritten ==
  ASSUME Live, NEW o, Destination(program, cstack[Depth].proc, o), NEW r \in DestRefs(o),
         r.status = "ACTIVE", ~Wraps(o, r), ~Var(r.val).write
  PROVE  /\ Reading(r) = {}
         /\ ~Var(r.val).read => Writing(r) = {}
         /\ Var(r.val).read => "read_only" \in Writing(r)
         /\ Writing(r) \subseteq {"out_of_range", "read_only"}
         /\ PassesWritable(program) => Writing(r) = {}
<1>1. /\ r.kind = "var" /\ r.index \in Int /\ r.ptr \in Int
      /\ OwnCell(r) \/ (Refers(Depth + 1, r) /\ (Writable(Var(r.val)) \/ Passed(r.val)))
  BY DestinationResolves
<1>2. ~Var(r.val).read => ~Outside(r)
  BY <1>1, OwnCellApart, ElementApart
<1>3. PassesWritable(program) => ~Var(r.val).read
  BY <1>1 DEF OwnCell, Passed, Writable
<1>. QED
  BY <1>2, <1>3 DEF Reading, InMemory, Writing

-----------------------------------------------------------------------------
(* The steps.                                                              *)

LEMMA SameMemory ==
  ASSUME Live, UNCHANGED <<program, cstack, mem>>
  PROVE  References'
BY ReferencesStay

LEMMA FailSound ==
  ASSUME Live, NEW s \in Statuses, Fail(s)
  PROVE  Sound' /\ faults' = faults
<1>1. UNCHANGED <<program, cstack, mem, resulttype, intresult, floatresult, last, faults>>
  BY DEF Fail, result
<1>2. References'
  BY <1>1, SameMemory
<1>3. Typed'
  BY <1>1 DEF Live, Sound, Typed, Fail, Address, StackSize
<1>. QED
  BY <1>1, <1>2, <1>3 DEF Live, Sound, InRange

(* A step that writes the number x to the element that its destination     *)
(* resolves to.                                                            *)
LEMMA WriteSound ==
  ASSUME Live, NEW o, Destination(program, cstack[Depth].proc, o), NEW r \in DestRefs(o),
         r.status = "ACTIVE", ~Wraps(o, r), ~Var(r.val).write, NEW x \in Int,
         mem' = Stored(r, x), UNCHANGED <<program, cstack, status>>,
         resulttype' \in {"INT", "FLOAT"}, intresult' \in Int, floatresult' \in Int,
         last' \in Int,
         faults' = faults \cup Writing(r)
  PROVE  /\ "read_only" \notin faults' => Sound'
         /\ PassesWritable(program) => faults' = faults
<1>1. /\ ~Var(r.val).read => Writing(r) = {}
      /\ Var(r.val).read => "read_only" \in Writing(r)
      /\ PassesWritable(program) => Writing(r) = {}
  BY DestinationIsWritten
<1>2. PassesWritable(program) => faults' = faults
  BY <1>1
<1>3. ASSUME "read_only" \notin faults' PROVE Sound'
  <2>1. ~Var(r.val).read /\ faults' = faults
    BY <1>1, <1>3
  <2>2. /\ r.kind = "var" /\ r.index \in Int /\ r.ptr \in Int
        /\ OwnCell(r) \/ Refers(Depth + 1, r)
    BY DestinationResolves
  <2>3. /\ mem' \in [Address -> Int]
        /\ \A n \in 1 .. Depth : \A k \in 1 .. Procedures[cstack[n].proc].args :
             mem'[End(n) - ArgSize * k] = 1 =>
               \A f \in 0 .. 3 :
                 mem'[End(n) - ArgSize * k + f] = mem[End(n) - ArgSize * k + f]
    BY <2>1, <2>2, StoredApart
  <2>4. References'
    BY <2>3, ReferencesStay
  <2>5. Typed'
    BY <2>1, <2>3 DEF Live, Sound, Typed, Address, StackSize
  <2>. QED
    BY <2>1, <2>4, <2>5 DEF Live, Sound, InRange
<1>. QED
  BY <1>2, <1>3

(* A step that writes nothing. *)
LEMMA NothingWritten ==
  ASSUME Live, UNCHANGED <<program, cstack, mem, faults>>,
         resulttype' \in {"INT", "FLOAT"}, intresult' \in Int, floatresult' \in Int,
         last' \in Int, status' \in Statuses
  PROVE  Sound'
<1>1. References'
  BY SameMemory
<1>2. Typed'
  BY DEF Live, Sound, Typed, Address, StackSize
<1>. QED
  BY <1>1, <1>2 DEF Live, Sound, InRange

LEMMA MoveSound ==
  ASSUME Live, Move
  PROVE  /\ Clean' => Sound'
         /\ PassesWritable(program) /\ "wrapped" \notin faults' => faults' = faults
<1>1. Inst.op = "move"
  BY DEF Move
<1>2. /\ Destination(program, cstack[Depth].proc, Inst.dest)
      /\ Source(program, cstack[Depth].proc, Inst.src)
  BY <1>1, Executing DEF Live, Checked, Jumps, Arithmetic, Bitwise, Shifts
<1>3. PICK d \in DestRefs(Inst.dest), s \in SrcRefs(Inst.src) :
        IF First(d, s) # "ACTIVE" THEN Fail(First(d, s))
        ELSE IF Var(d.val).write THEN MoveToCallback(d, s)
        ELSE MoveToMemory(d, s)
  BY DEF Move
<1>4. /\ First(d, s) \in Statuses
      /\ s.val \in Int
  BY <1>2, SourceResolves, DestinationResolves DEF First
<1>5. CASE First(d, s) # "ACTIVE"
  <2>1. Fail(First(d, s))
    BY <1>3, <1>5
  <2>. QED
    BY <1>4, <2>1, FailSound
<1>6. CASE First(d, s) = "ACTIVE" /\ Operands(d, s) # {}
  <2>1. "wrapped" \in Operands(d, s)
    BY <1>6 DEF Operands, Wrapping
  <2>2. \A x \in Fetched(s) : x.status \in Statuses
    BY <1>4, FetchesNumbers
  <2>3. CASE Var(d.val).write
    <3>1. MoveToCallback(d, s)
      BY <1>3, <1>6, <2>3
    <3>2. CASE Fail("CALLBACK_FAILED")
      BY <3>2, FailSound DEF Statuses
    <3>3. CASE ~Fail("CALLBACK_FAILED")
      BY <2>1, <3>1, <3>3 DEF MoveToCallback, Clean
    <3>. QED
      BY <3>2, <3>3
  <2>4. CASE ~Var(d.val).write
    <3>1. MoveToMemory(d, s)
      BY <1>3, <1>6, <2>4
    <3>2. PICK x \in Fetched(s) : Fail(x.status) \/ "wrapped" \in faults'
      BY <2>1, <3>1 DEF MoveToMemory
    <3>3. CASE Fail(x.status)
      BY <2>2, <3>3, FailSound
    <3>4. CASE "wrapped" \in faults'
      BY <3>4 DEF Clean
    <3>. QED
      BY <3>2, <3>3, <3>4
  <2>. QED
    BY <2>3, <2>4
<1>7. CASE First(d, s) = "ACTIVE" /\ Operands(d, s) = {}
  <2>1. /\ d.status = "ACTIVE" /\ s.status = "ACTIVE"
        /\ ~Wraps(Inst.dest, d) /\ ~Wraps(Inst.src, s)
    BY <1>7 DEF First, Operands, Wrapping
  <2>2. Reading(s) = {}
    BY <1>2, <2>1, SourceIsRead
  <2>3. /\ resulttype \in {"INT", "FLOAT"} /\ intresult \in Int /\ floatresult \in Int
        /\ status \in Statuses
    BY DEF Live, Sound, Typed
  <2>4. \A x \in Fetched(s) : x.status \in Statuses /\ x.value \in Int
    BY <1>4, FetchesNumbers
  <2>5. CASE Var(d.val).write
    <3>1. MoveToCallback(d, s)
      BY <1>3, <1>7, <2>5
    <3>2. CASE Fail("CALLBACK_FAILED")
      BY <3>2, FailSound DEF Statuses
    <3>3. CASE /\ last' = s.val
               /\ faults' = faults \cup Operands(d, s)
               /\ UNCHANGED <<program, mem, cstack, sp, result, status>>
      <4>1. UNCHANGED <<resulttype, intresult, floatresult, faults>>
        BY <1>7, <3>3 DEF result
      <4>. QED
        BY <1>4, <2>3, <3>3, <4>1, NothingWritten
    <3>4. CASE /\ \E x \in {y \in Fetched(s) : y.status = "ACTIVE"} :
                    /\ last' = x.value
                    /\ intresult'   = IF Float(s) THEN intresult ELSE x.value
                    /\ floatresult' = IF ~Float(s) THEN floatresult
                                      ELSE IF InMemory(s) THEN 0 ELSE x.value
                    /\ resulttype'  = IF Float(s) THEN "FLOAT" ELSE "INT"
               /\ faults' = faults \cup Operands(d, s) \cup Reading(s)
               /\ UNCHANGED <<program, mem, cstack, sp, status>>
      <4>1. faults' = faults
        BY <1>7, <2>2, <3>4
      <4>2. /\ last' \in Int /\ intresult' \in Int /\ floatresult' \in Int
            /\ resulttype' \in {"INT", "FLOAT"}
        BY <2>3, <2>4, <3>4
      <4>. QED
        BY <2>3, <3>4, <4>1, <4>2, NothingWritten
    <3>. QED
      BY <3>1, <3>2, <3>3, <3>4 DEF MoveToCallback
  <2>6. CASE ~Var(d.val).write
    <3>1. MoveToMemory(d, s)
      BY <1>3, <1>7, <2>6
    <3>2. PICK x \in Fetched(s) :
            IF x.status # "ACTIVE" THEN Fail(x.status)
            ELSE /\ intresult'   = IF Float(s) /\ Float(d) THEN intresult ELSE x.value
                 /\ floatresult' = IF Float(s) \/ Float(d) THEN x.value ELSE floatresult
                 /\ resulttype'  = IF Float(s) = Float(d) THEN resulttype
                                   ELSE IF Float(d) THEN "FLOAT" ELSE "INT"
                 /\ mem' = Stored(d, x.value)
                 /\ last' = x.value
                 /\ faults' = faults \cup Operands(d, s) \cup Reading(s) \cup Writing(d)
                 /\ UNCHANGED <<program, cstack, sp, status>>
      BY <3>1 DEF MoveToMemory
    <3>3. CASE x.status # "ACTIVE"
      BY <2>4, <3>2, <3>3, FailSound
    <3>4. CASE x.status = "ACTIVE"
      <4>1. /\ last' \in Int /\ intresult' \in Int /\ floatresult' \in Int
            /\ resulttype' \in {"INT", "FLOAT"}
        BY <2>3, <2>4, <3>2, <3>4
      <4>2. faults' = faults \cup Writing(d)
        BY <1>7, <2>2, <3>2, <3>4
      <4>3. mem' = Stored(d, x.value) /\ x.value \in Int
        BY <2>4, <3>2, <3>4
      <4>4. UNCHANGED <<program, cstack, status>>
        BY <3>2, <3>4
      <4>. QED
        BY <1>2, <2>1, <2>6, <4>1, <4>2, <4>3, <4>4, WriteSound DEF Clean
    <3>. QED
      BY <3>3, <3>4
  <2>. QED
    BY <2>5, <2>6
<1>. QED
  BY <1>5, <1>6, <1>7

LEMMA ComputedIsNumber ==
  ASSUME NEW op, NEW y \in Int, NEW x \in Int, NEW r \in Computed(op, y, x)
  PROVE  r \in Int
<1>1. \A z \in Int : Wrapped(z) \in Int
  BY NumbersAreNumbers DEF Wrapped
<1>2. y + x \in Int /\ y - x \in Int
  OBVIOUS
<1>. QED
  BY <1>1, <1>2 DEF Computed

LEMMA OperationSound ==
  ASSUME Live, Operation
  PROVE  /\ Clean' => Sound'
         /\ PassesWritable(program) /\ "wrapped" \notin faults' => faults' = faults
<1>1. Inst.op \in Arithmetic \cup Bitwise \cup Shifts
  BY DEF Operation
<1>2. /\ Destination(program, cstack[Depth].proc, Inst.dest)
      /\ Source(program, cstack[Depth].proc, Inst.src)
  BY <1>1, Executing DEF Live, Checked, Jumps, Arithmetic, Bitwise, Shifts
<1>3. PICK d \in DestRefs(Inst.dest), s \in SrcRefs(Inst.src) :
        IF First(d, s) # "ACTIVE" THEN Fail(First(d, s))
        ELSE IF Var(d.val).write THEN Fail("INVALID_INSTRUCTION")
        ELSE \E x \in Fetched(s), y \in Fetched(d) :
               IF First(x, y) # "ACTIVE" THEN Fail(First(x, y))
               ELSE IF Rejected(d, s) THEN Fail("INVALID_INSTRUCTION")
               ELSE \E r \in Computed(Inst.op, y.value, x.value) :
                      LET kept   == Float(d) /\ Inst.op \in Bitwise
                          stored == IF kept THEN y.value ELSE r
                      IN /\ intresult'   = IF Float(d) /\ ~kept THEN intresult ELSE r
                         /\ floatresult' = IF Float(d) THEN stored ELSE floatresult
                         /\ resulttype'  = IF Float(d) /\ ~kept THEN "FLOAT" ELSE "INT"
                         /\ mem' = Stored(d, stored)
                         /\ last' = stored
                         /\ faults' = faults \cup Operands(d, s)
                                      \cup Reading(s) \cup Reading(d) \cup Writing(d)
                         /\ ip' = ip + 1
                         /\ UNCHANGED <<program, cstack, sp, status>>
  BY DEF Operation
<1>4. First(d, s) \in Statuses /\ s.val \in Int
  BY <1>2, SourceResolves, DestinationResolves DEF First
<1>5. CASE First(d, s) # "ACTIVE"
  <2>1. Fail(First(d, s))
    BY <1>3, <1>5
  <2>. QED
    BY <1>4, <2>1, FailSound
<1>6. CASE First(d, s) = "ACTIVE" /\ Var(d.val).write
  <2>1. Fail("INVALID_INSTRUCTION")
    BY <1>3, <1>6
  <2>. QED
    BY <2>1, FailSound DEF Statuses
<1>7. CASE First(d, s) = "ACTIVE" /\ ~Var(d.val).write
  <2>1. d.status = "ACTIVE" /\ s.status = "ACTIVE"
    BY <1>7 DEF First
  <2>2. Operands(d, s) = {} =>
          Reading(s) = {} /\ Reading(d) = {} /\ ~Wraps(Inst.dest, d)
    BY <1>2, <1>7, <2>1, SourceIsRead, DestinationIsWritten DEF Operands, Wrapping
  <2>3. /\ resulttype \in {"INT", "FLOAT"} /\ intresult \in Int /\ floatresult \in Int
        /\ status \in Statuses
    BY DEF Live, Sound, Typed
  <2>4. d.val \in Int
    <3>1. d.val \in DOMAIN Variables
      BY <1>2, <2>1, DestinationResolves
    <3>. QED
      BY <3>1, Frame, VariablesLaid
  <2>5. PICK x \in Fetched(s), y \in Fetched(d) :
          IF First(x, y) # "ACTIVE" THEN Fail(First(x, y))
          ELSE IF Rejected(d, s) THEN Fail("INVALID_INSTRUCTION")
          ELSE \E r \in Computed(Inst.op, y.value, x.value) :
                 LET kept   == Float(d) /\ Inst.op \in Bitwise
                     stored == IF kept THEN y.value ELSE r
                 IN /\ intresult'   = IF Float(d) /\ ~kept THEN intresult ELSE r
                    /\ floatresult' = IF Float(d) THEN stored ELSE floatresult
                    /\ resulttype'  = IF Float(d) /\ ~kept THEN "FLOAT" ELSE "INT"
                    /\ mem' = Stored(d, stored)
                    /\ last' = stored
                    /\ faults' = faults \cup Operands(d, s)
                                 \cup Reading(s) \cup Reading(d) \cup Writing(d)
                    /\ ip' = ip + 1
                    /\ UNCHANGED <<program, cstack, sp, status>>
    BY <1>3, <1>7
  <2>6. /\ x.status \in Statuses /\ x.value \in Int
        /\ y.status \in Statuses /\ y.value \in Int
    BY <1>4, <2>4, FetchesNumbers
  <2>7. First(x, y) \in Statuses
    BY <2>6 DEF First
  <2>8. CASE First(x, y) # "ACTIVE"
    <3>1. Fail(First(x, y))
      BY <2>5, <2>8
    <3>. QED
      BY <2>7, <3>1, FailSound
  <2>9. CASE First(x, y) = "ACTIVE" /\ Rejected(d, s)
    <3>1. Fail("INVALID_INSTRUCTION")
      BY <2>5, <2>9
    <3>. QED
      BY <3>1, FailSound DEF Statuses
  <2>10. CASE First(x, y) = "ACTIVE" /\ ~Rejected(d, s)
    <3>1. PICK r, kept, stored :
            /\ r \in Computed(Inst.op, y.value, x.value)
            /\ stored = IF kept THEN y.value ELSE r
            /\ intresult'   = IF Float(d) /\ ~kept THEN intresult ELSE r
            /\ floatresult' = IF Float(d) THEN stored ELSE floatresult
            /\ resulttype'  = IF Float(d) /\ ~kept THEN "FLOAT" ELSE "INT"
            /\ mem' = Stored(d, stored)
            /\ last' = stored
            /\ faults' = faults \cup Operands(d, s)
                         \cup Reading(s) \cup Reading(d) \cup Writing(d)
            /\ UNCHANGED <<program, cstack, sp, status>>
      BY <2>5, <2>10
    <3>2. r \in Int
      BY <2>6, <3>1, ComputedIsNumber
    <3>3. stored \in Int
      BY <2>6, <3>1, <3>2
    <3>4. /\ last' \in Int /\ intresult' \in Int /\ floatresult' \in Int
          /\ resulttype' \in {"INT", "FLOAT"}
      BY <2>3, <3>1, <3>2, <3>3
    <3>5. mem' = Stored(d, stored) /\ UNCHANGED <<program, cstack, status>>
      BY <3>1
    <3>6. CASE Operands(d, s) = {}
      <4>1. faults' = faults \cup Writing(d)
        BY <2>2, <3>1, <3>6
      <4>. QED
        BY <1>2, <1>7, <2>1, <2>2, <3>3, <3>4, <3>5, <3>6, <4>1, WriteSound DEF Clean
    <3>7. CASE Operands(d, s) # {}
      <4>1. "wrapped" \in Operands(d, s)
        BY <3>7 DEF Operands, Wrapping
      <4>. QED
        BY <3>1, <4>1 DEF Clean
    <3>. QED
      BY <3>6, <3>7
  <2>. QED
    BY <2>8, <2>9, <2>10
<1>. QED
  BY <1>5, <1>6, <1>7

LEMMA CmpSound ==
  ASSUME Live, Cmp, "wrapped" \notin faults'
  PROVE  Sound' /\ faults' = faults
<1>1. Inst.op = "cmp"
  BY DEF Cmp
<1>2. /\ Source(program, cstack[Depth].proc, Inst.dest)
      /\ Source(program, cstack[Depth].proc, Inst.src)
  BY <1>1, Executing DEF Live, Checked, Jumps, Arithmetic, Bitwise, Shifts
<1>3. PICK d \in SrcRefs(Inst.dest), s \in SrcRefs(Inst.src) :
        IF First(d, s) # "ACTIVE" THEN Fail(First(d, s))
        ELSE \E x \in Fetched(s), y \in Fetched(d) :
               IF First(x, y) # "ACTIVE" THEN Fail(First(x, y))
               ELSE LET float == Float(s) \/ Float(d)
                        less  == IF float THEN y.value - x.value
                                 ELSE Wrapped(y.value - x.value)
                    IN /\ intresult'   = IF ~float THEN less
                                         ELSE IF Float(d) THEN intresult ELSE y.value
                       /\ floatresult' = IF float THEN less ELSE floatresult
                       /\ resulttype'  = IF float THEN "FLOAT"
                                         ELSE IF s.kind = "var" /\ d.kind = "imm"
                                           THEN resulttype ELSE "INT"
                       /\ last' = less
                       /\ faults' = faults \cup Operands(d, s) \cup Reading(s) \cup Reading(d)
                       /\ ip' = ip + 1
                       /\ UNCHANGED <<program, mem, cstack, sp, status>>
  BY DEF Cmp
<1>4. First(d, s) \in Statuses /\ s.val \in Int /\ d.val \in Int
  BY <1>2, SourceResolves DEF First
<1>5. CASE First(d, s) # "ACTIVE"
  <2>1. Fail(First(d, s))
    BY <1>3, <1>5
  <2>. QED
    BY <1>4, <2>1, FailSound
<1>6. CASE First(d, s) = "ACTIVE"
  <2>1. d.status = "ACTIVE" /\ s.status = "ACTIVE"
    BY <1>6 DEF First
  <2>2. ~Wraps(Inst.dest, d) /\ ~Wraps(Inst.src, s) => Reading(s) = {} /\ Reading(d) = {}
    BY <1>2, <2>1, SourceIsRead
  <2>3. /\ resulttype \in {"INT", "FLOAT"} /\ intresult \in Int /\ floatresult \in Int
        /\ status \in Statuses
    BY DEF Live, Sound, Typed
  <2>4. PICK x \in Fetched(s), y \in Fetched(d) :
          IF First(x, y) # "ACTIVE" THEN Fail(First(x, y))
          ELSE \E float, less :
                 /\ less = IF float THEN y.value - x.value ELSE Wrapped(y.value - x.value)
                 /\ intresult'   = IF ~float THEN less
                                   ELSE IF Float(d) THEN intresult ELSE y.value
                 /\ floatresult' = IF float THEN less ELSE floatresult
                 /\ resulttype'  = IF float THEN "FLOAT"
                                   ELSE IF s.kind = "var" /\ d.kind = "imm"
                                     THEN resulttype ELSE "INT"
                 /\ last' = less
                 /\ faults' = faults \cup Operands(d, s) \cup Reading(s) \cup Reading(d)
                 /\ UNCHANGED <<program, mem, cstack, sp, status>>
    BY <1>3, <1>6
  <2>5. /\ x.status \in Statuses /\ x.value \in Int
        /\ y.status \in Statuses /\ y.value \in Int
    BY <1>4, FetchesNumbers
  <2>6. First(x, y) \in Statuses
    BY <2>5 DEF First
  <2>7. CASE First(x, y) # "ACTIVE"
    <3>1. Fail(First(x, y))
      BY <2>4, <2>7
    <3>. QED
      BY <2>6, <3>1, FailSound
  <2>8. CASE First(x, y) = "ACTIVE"
    <3>1. PICK float, less :
            /\ less = IF float THEN y.value - x.value ELSE Wrapped(y.value - x.value)
            /\ intresult'   = IF ~float THEN less
                              ELSE IF Float(d) THEN intresult ELSE y.value
            /\ floatresult' = IF float THEN less ELSE floatresult
            /\ resulttype'  = IF float THEN "FLOAT"
                              ELSE IF s.kind = "var" /\ d.kind = "imm"
                                THEN resulttype ELSE "INT"
            /\ last' = less
            /\ faults' = faults \cup Operands(d, s) \cup Reading(s) \cup Reading(d)
            /\ UNCHANGED <<program, mem, cstack, sp, status>>
      BY <2>4, <2>8
    <3>2. less \in Int
      <4>1. y.value - x.value \in Int
        BY <2>5
      <4>. QED
        BY <3>1, <4>1, WrapsToInt
    <3>3. /\ last' \in Int /\ intresult' \in Int /\ floatresult' \in Int
          /\ resulttype' \in {"INT", "FLOAT"}
      BY <2>3, <2>5, <3>1, <3>2
    <3>4. Operands(d, s) = {} /\ Reading(s) = {} /\ Reading(d) = {}
      BY <2>2, <3>1 DEF Operands, Wrapping
    <3>5. UNCHANGED <<program, cstack, mem, faults>> /\ status' \in Statuses
      BY <2>3, <3>1, <3>4
    <3>. QED
      BY <3>3, <3>5, NothingWritten
  <2>. QED
    BY <2>7, <2>8
<1>. QED
  BY <1>5, <1>6

LEMMA JumpSound ==
  ASSUME Live, Jump \/ JumpIf \/ RetLast
  PROVE  Sound' /\ faults' = faults
<1>1. /\ UNCHANGED <<program, cstack, mem, resulttype, intresult, floatresult, last, faults>>
      /\ status' \in {status, "READY"}
  BY DEF Jump, JumpIf, RetLast, result
<1>2. /\ resulttype \in {"INT", "FLOAT"} /\ intresult \in Int /\ floatresult \in Int
      /\ last \in Int /\ status' \in Statuses
  BY <1>1 DEF Live, Sound, Typed, Statuses
<1>. QED
  BY <1>1, <1>2, NothingWritten

-----------------------------------------------------------------------------
(* Calls and returns.                                                      *)

LEMMA Quarter ==
  ASSUME NEW k \in Nat, NEW f \in 0 .. 3
  PROVE  (4 * k - f + 3) \div 4 = k
<1>1. f = 0 \/ f = 1 \/ f = 2 \/ f = 3
  OBVIOUS
<1>. QED
  BY <1>1

LEMMA QuarterUp ==
  ASSUME NEW t \in Nat, t >= 1, NEW q, q = (t + 3) \div 4
  PROVE  q \in Nat /\ q >= 1 /\ 4 * q - t + 1 \in 1 .. 4
OBVIOUS

LEMMA LengthOfArguments ==
  ASSUME NEW n \in Nat, NEW S, NEW s \in [1 .. n -> S]
  PROVE  Len(s) = n
<1>1. s \in Seq(S)
  BY SeqDef
<1>2. Len(s) \in Nat /\ DOMAIN s = 1 .. Len(s)
  BY <1>1, LenProperties
<1>3. 1 .. Len(s) = 1 .. n
  BY <1>2
<1>4. ~(Len(s) < n)
  <2>1. Len(s) < n => n \in 1 .. n /\ n \notin 1 .. Len(s)
    BY <1>2
  <2>. QED
    BY <1>3, <2>1
<1>5. ~(n < Len(s))
  <2>1. n < Len(s) => Len(s) \in 1 .. Len(s) /\ Len(s) \notin 1 .. n
    BY <1>2
  <2>. QED
    BY <1>3, <2>1
<1>. QED
  BY <1>2, <1>4, <1>5

(* A new frame changes nothing below it, and its slots hold what the       *)
(* arguments were resolved to.                                             *)
LEMMA FrameFilled ==
  ASSUME program \in Programs, mem \in [Address -> Int], NEW p \in Procs,
         NEW base \in Nat, NEW refs, NEW n \in Nat,
         \A k \in 1 .. n : refs[k].val \in Int /\ refs[k].index \in Int /\ refs[k].ptr \in Int,
         NEW m, m = WithFrame(p, base, refs, n)
  PROVE  /\ m \in [Address -> Int]
         /\ \A a \in Address : a < base => m[a] = mem[a]
         /\ \A k \in 1 .. n : \A f \in 0 .. 3 :
              LET a == base + Procedures[p].stackneeded - ArgSize * k + f
              IN a \in Address /\ a >= base => m[a] = Slot(refs[k])[f + 1]
<1>1. PICK need \in Nat : /\ need = Procedures[p].stackneeded
                         /\ Procedures[p].init \in [1 .. need -> Int]
  BY FrameHolds
<1>. DEFINE k(a) == (base + need - a + ArgSize - 1) \div ArgSize
            new(a) == IF a \notin base .. (base + need - 1) THEN mem[a]
                      ELSE IF k(a) <= n
                        THEN Slot(refs[k(a)])[a - (base + need - ArgSize * k(a)) + 1]
                      ELSE Procedures[p].init[a - base + 1]
<1>2. m = [a \in Address |-> new(a)]
  BY <1>1 DEF WithFrame
<1>3. \A a \in Address : a \in Int
  BY DEF Address
<1>4. ASSUME NEW a \in Address, a \in base .. (base + need - 1)
      PROVE  /\ k(a) \in Nat /\ k(a) >= 1
             /\ a - (base + need - ArgSize * k(a)) + 1 \in 1 .. 4
             /\ a - base + 1 \in 1 .. need
  <2>1. a \in Int /\ base <= a /\ a <= base + need - 1
    BY <1>3, <1>4
  <2>2. PICK t \in Nat : t = base + need - a /\ t >= 1
    BY <2>1
  <2>3. PICK q : q = k(a) /\ q = (t + 3) \div 4
    <3>1. base + need - a + ArgSize - 1 = t + 3
      BY <2>1, <2>2 DEF ArgSize
    <3>. QED
      BY <3>1 DEF ArgSize
  <2>4. q \in Nat /\ q >= 1 /\ 4 * q - t + 1 \in 1 .. 4
    BY <2>2, <2>3, QuarterUp
  <2>5. a - (base + need - 4 * q) + 1 = 4 * q - t + 1
    BY <2>1, <2>2, <2>4
  <2>. QED
    BY <2>1, <2>3, <2>4, <2>5 DEF ArgSize
<1>5. ASSUME NEW j \in 1 .. n, NEW i \in 1 .. 4 PROVE Slot(refs[j])[i] \in Int
  BY DEF Slot
<1>6. ASSUME NEW a \in Address PROVE new(a) \in Int
  <2>1. CASE a \notin base .. (base + need - 1)
    BY <2>1
  <2>2. CASE a \in base .. (base + need - 1) /\ k(a) <= n
    <3>1. PICK j : j = k(a)
      OBVIOUS
    <3>2. j \in 1 .. n /\ a - (base + need - ArgSize * j) + 1 \in 1 .. 4
      BY <1>4, <2>2, <3>1
    <3>3. Slot(refs[j])[a - (base + need - ArgSize * j) + 1] \in Int
      BY <1>5, <3>2
    <3>. QED
      BY <2>2, <3>1, <3>3
  <2>3. CASE a \in base .. (base + need - 1) /\ ~(k(a) <= n)
    <3>1. Procedures[p].init[a - base + 1] \in Int
      BY <1>1, <1>4, <2>3
    <3>. QED
      BY <2>3, <3>1
  <2>. QED
    BY <2>1, <2>2, <2>3
<1>7. ASSUME NEW j \in 1 .. n, NEW f \in 0 .. 3, NEW a \in Address,
             a = base + need - ArgSize * j + f, a >= base
      PROVE  m[a] = Slot(refs[j])[f + 1]
  <2>1. j \in Nat /\ j >= 1 /\ f \in Int /\ f <= 3
    OBVIOUS
  <2>2. a \in base .. (base + need - 1)
    BY <1>3, <1>7, <2>1 DEF ArgSize
  <2>3. k(a) = j
    <3>1. base + need - a + ArgSize - 1 = 4 * j - f + 3
      BY <1>7, <2>1 DEF ArgSize
    <3>. QED
      BY <2>1, <3>1, Quarter DEF ArgSize
  <2>4. a - (base + need - ArgSize * j) + 1 = f + 1
    BY <1>7, <2>1 DEF ArgSize
  <2>5. k(a) <= n
    BY <2>3
  <2>. QED
    BY <1>2, <2>2, <2>3, <2>4, <2>5
<1>8. m \in [Address -> Int]
  BY <1>2, <1>6
<1>9. ASSUME NEW a \in Address, a < base PROVE m[a] = mem[a]
  BY <1>2, <1>3, <1>9
<1>. QED
  BY <1>1, <1>7, <1>8, <1>9

(* The four cells of a slot. *)
LEMMA FourCells ==
  ASSUME StackSize \in Nat, NEW at \in Int, NEW low \in Nat, NEW high \in Nat,
         low <= at, at + 3 <= high - 1, high <= StackSize
  PROVE  /\ at + 0 = at
         /\ \A f \in 0 .. 3 : at + f \in Address /\ low <= at + f /\ at + f < high
<1>1. ASSUME NEW f \in 0 .. 3
      PROVE  at + f \in Address /\ low <= at + f /\ at + f < high
  BY <1>1 DEF Address
<1>. QED
  BY <1>1

LEMMA SlotStart ==
  ASSUME NEW args \in Nat, NEW k \in 1 .. args, NEW need \in Nat, 4 * args <= need,
         NEW b \in Nat, NEW at, at = b + need - ArgSize * k
  PROVE  at \in Int /\ b <= at /\ at + 3 <= b + need - 1
BY DEF ArgSize

LEMMA CallSound ==
  ASSUME Live, Call, "wrapped" \notin faults'
  PROVE  Sound' /\ faults' = faults
<1>1. Inst.op = "call" /\ status = "ACTIVE"
  BY DEF Call
<1>2. /\ program \in Programs /\ Depth \in Nat /\ Depth > 0 /\ Running = Depth
      /\ sp \in Nat /\ sp <= StackSize /\ StackSize \in Nat
      /\ mem \in [Address -> Int] /\ cstack \in Seq(Entries)
      /\ \A n \in 1 .. Depth : cstack[n] \in Entries
      /\ ip \in DOMAIN Code /\ ip \in Nat
  BY <1>1, Frame, Top DEF Live
<1>3. Inst.proc \in Procs
  BY <1>1, <1>2, Verified DEF Inst
<1>4. PICK p \in Procs : p = Inst.proc
  BY <1>3
<1>5. PICK args \in Nat : args = Procedures[p].args
  BY <1>2, FrameHolds
<1>6. /\ DOMAIN Inst.args = 1 .. args
      /\ \A k \in 1 .. args : Source(program, cstack[Depth].proc, Inst.args[k])
  BY <1>1, <1>4, <1>5, Executing
     DEF Live, Checked, Jumps, Arithmetic, Bitwise, Shifts, Procs, Procedures
<1>7. ASSUME NEW k \in 1 .. args, Inst.args[k].kind = "var", PassesWritable(program)
      PROVE  Writable(Var(Inst.args[k].val))
  BY <1>1, <1>2, <1>6, <1>7 DEF PassesWritable, Inst, Code, Var, Variables
<1>8. ASSUME NEW refs \in ArgRefs(Inst.args), NEW k \in 1 .. args
      PROVE  /\ refs[k].status \in Statuses
             /\ refs[k].val \in Int /\ refs[k].index \in Int /\ refs[k].ptr \in Int
             /\ refs[k].status = "ACTIVE" /\ ~Wraps(Inst.args[k], refs[k]) =>
                  \/ refs[k].kind = "imm"
                  \/ /\ refs[k].kind = "var" /\ Refers(Depth + 1, refs[k])
                     /\ Passed(refs[k].val)
  <2>1. refs[k] \in SrcRefs(Inst.args[k])
    BY <1>6 DEF ArgRefs
  <2>2. /\ refs[k].status \in Statuses
        /\ refs[k].val \in Int /\ refs[k].index \in Int /\ refs[k].ptr \in Int
        /\ refs[k].status = "ACTIVE" /\ ~Wraps(Inst.args[k], refs[k]) =>
             \/ refs[k].kind = "imm"
             \/ /\ refs[k].kind = "var" /\ Refers(Depth + 1, refs[k])
                /\ Readable(Var(refs[k].val))
                /\ Inst.args[k].kind = "var"
                /\ refs[k].val = Inst.args[k].val \/ Passed(refs[k].val)
    BY <1>6, <2>1, SourceResolves
  <2>. QED
    BY <1>7, <2>2 DEF Passed
<1>9. ASSUME NEW refs \in ArgRefs(Inst.args)
      PROVE  refs \in [1 .. args -> UNION {SrcRefs(Inst.args[i]) : i \in DOMAIN Inst.args}]
  BY <1>6 DEF ArgRefs
<1>10. CASE Fail("STACK_OVERFLOW")
  BY <1>10, FailSound DEF Statuses
<1>11. ASSUME NEW refs \in ArgRefs(Inst.args), NEW i \in Failing(refs),
              status' = refs[i].status,
              mem' = WithFrame(Inst.proc, sp, refs, i - 1),
              UNCHANGED <<program, cstack, sp, ip, result, last, faults>>
       PROVE  Sound'
  <2>1. i \in 1 .. args /\ refs[i].status # "ACTIVE"
    BY <1>9 DEF Failing
  <2>2. status' \in Statuses /\ status' # "ACTIVE"
    BY <1>8, <1>11, <2>1
  <2>3. mem' \in [Address -> Int]
    <3>1. i - 1 \in Nat /\ \A k \in 1 .. (i - 1) : k \in 1 .. args
      BY <2>1
    <3>2. \A k \in 1 .. (i - 1) :
            refs[k].val \in Int /\ refs[k].index \in Int /\ refs[k].ptr \in Int
      BY <1>8, <3>1
    <3>. QED
      BY <1>2, <1>4, <1>11, <3>1, <3>2, FrameFilled
  <2>4. Typed'
    BY <1>11, <2>2, <2>3 DEF Live, Sound, Typed, Address, StackSize, result
  <2>5. References'
    BY <2>2 DEF References, Running
  <2>. QED
    BY <1>11, <2>4, <2>5 DEF Live, Sound, InRange
<1>12. ASSUME NEW refs \in ArgRefs(Inst.args), Failing(refs) = {},
              ~Overflows(Inst.proc, sp),
              Push(Inst.proc, refs, sp, ip + 1),
              faults' = faults \cup
                UNION {Wrapping(Inst.args[k], refs[k]) : k \in DOMAIN refs},
              UNCHANGED <<program, result, last>>
       PROVE  Sound' /\ faults' = faults
  <2>1. Len(refs) = args /\ DOMAIN refs = 1 .. args
    BY <1>9, LengthOfArguments
  <2>0. /\ faults' = faults
        /\ \A k \in 1 .. args : ~Wraps(Inst.args[k], refs[k])
    BY <1>12, <2>1 DEF Wrapping
  <2>2. PICK d \in Nat : d = Depth
    BY <1>2
  <2>. DEFINE e == [ip |-> ip + 1, proc |-> p, base |-> sp]
  <2>3. /\ cstack' = Append(cstack, e)
        /\ sp' = sp + Procedures[p].stackneeded
        /\ status' = "ACTIVE"
        /\ mem' = WithFrame(p, sp, refs, args)
    BY <1>4, <1>12, <2>1 DEF Push
  <2>4. PICK need \in Nat : need = Procedures[p].stackneeded /\ 4 * args <= need
    BY <1>2, <1>5, FrameHolds DEF ArgSize
  <2>5. sp + need <= StackSize
    <3>1. ~(sp + need > StackSize)
      BY <1>4, <1>12, <2>4 DEF Overflows
    <3>. QED
      BY <1>2, <2>4, <3>1
  <2>6. /\ mem' \in [Address -> Int]
        /\ \A a \in Address : a < sp => mem'[a] = mem[a]
        /\ \A k \in 1 .. args : \A f \in 0 .. 3 :
             LET a == sp + Procedures[p].stackneeded - ArgSize * k + f
             IN a \in Address /\ a >= sp => mem'[a] = Slot(refs[k])[f + 1]
    <3>1. \A k \in 1 .. args :
            refs[k].val \in Int /\ refs[k].index \in Int /\ refs[k].ptr \in Int
      BY <1>8
    <3>2. program \in Programs /\ mem \in [Address -> Int] /\ sp \in Nat
      BY <1>2
    <3>3. mem' = WithFrame(p, sp, refs, args)
      BY <2>3
    <3>. QED
      BY <3>1, <3>2, <3>3, FrameFilled, SMTT(60)
  <2>7. e \in Entries
    BY <1>2 DEF Entries
  <2>8. /\ Len(cstack') = d + 1 /\ cstack'[d + 1] = e
        /\ \A n \in 1 .. d : cstack'[n] = cstack[n]
    BY <1>2, <2>2, <2>3, <2>7, AppendProperties DEF Depth
  <2>9. /\ Depth' = d + 1 /\ Procedures' = Procedures /\ Variables' = Variables
        /\ Running' = d + 1
    BY <1>12, <2>3, <2>8 DEF Depth, Procedures, Variables, Running
  <2>10. \A v : /\ Var(v)' = Var(v) /\ (IsGlobal(v)' <=> IsGlobal(v))
                /\ (Passed(v)' <=> Passed(v))
    BY <1>12, <2>9 DEF Var, IsGlobal, Passed
  <2>11. \A n \in 1 .. (d + 1) :
           End(n)' = cstack'[n].base + Procedures[cstack'[n].proc].stackneeded
    BY <2>9 DEF End
  <2>12. /\ \A n \in 1 .. d : End(n)' = End(n)
         /\ End(d + 1)' = sp + need
    <3>1. d + 1 \in 1 .. (d + 1) /\ \A n \in 1 .. d : n \in 1 .. (d + 1)
      OBVIOUS
    <3>. QED
      BY <2>4, <2>8, <2>11, <3>1 DEF End
  <2>13. ASSUME NEW n \in 1 .. (d + 1), NEW r, Refers(n, r) PROVE Refers(n, r)'
    <3>1. /\ r.val \in DOMAIN Variables'
          /\ r.index \in 0 .. (Var(r.val)'.length - 1)
      BY <2>9, <2>10, <2>13 DEF Refers
    <3>2. CASE IsGlobal(r.val)
      BY <2>10, <2>13, <3>1, <3>2 DEF Refers
    <3>3. CASE ~IsGlobal(r.val)
      <4>1. PICK j \in 1 .. (n - 1) :
              cstack[j].proc = Var(r.val).scope /\ r.ptr = End(j) - Var(r.val).offset
        BY <2>13, <3>3 DEF Refers
      <4>2. j \in 1 .. d
        OBVIOUS
      <4>3. cstack'[j].proc = Var(r.val)'.scope /\ r.ptr = End(j)' - Var(r.val)'.offset
        BY <2>8, <2>10, <2>12, <4>1, <4>2
      <4>4. ~IsGlobal(r.val)'
        BY <2>10, <3>3
      <4>. QED
        BY <3>1, <4>3, <4>4 DEF Refers
    <3>. QED
      BY <3>2, <3>3
  <2>14. ASSUME NEW n \in 1 .. d, NEW k \in 1 .. Procedures[cstack[n].proc].args,
                SlotOf(n, k)'.kind = 1
         PROVE  Refers(n, SlotOf(n, k))' /\ Passed(SlotOf(n, k).val)'
    <3>1. PICK at : at = End(n) - ArgSize * k
      OBVIOUS
    <3>2. /\ End(n) \in Nat /\ k \in Nat /\ End(n) <= sp
          /\ End(n) - ArgSize * k + 3 <= End(n) - 1
          /\ \A f \in 0 .. 3 : End(n) - ArgSize * k + f \in Address
      BY <1>2, <2>2, SlotInside DEF Live
    <3>3. /\ at + 0 = at /\ at + 0 < sp /\ at + 1 < sp /\ at + 2 < sp /\ at + 3 < sp
          /\ \A f \in 0 .. 3 : at + f \in Address
      <4>1. at \in Int
        BY <3>1, <3>2 DEF ArgSize
      <4>2. PICK top \in Nat : top = End(n) /\ at + 3 <= top - 1 /\ top <= sp
        BY <3>1, <3>2
      <4>3. at + 0 = at /\ at + 3 < sp /\ at + 0 < sp /\ at + 1 < sp /\ at + 2 < sp
        BY <1>2, <4>1, <4>2
      <4>. QED
        BY <3>1, <3>2, <4>3
    <3>4. /\ mem'[at] = mem[at] /\ mem'[at + 1] = mem[at + 1]
          /\ mem'[at + 2] = mem[at + 2] /\ mem'[at + 3] = mem[at + 3]
      BY <1>2, <2>6, <3>3
    <3>5. /\ SlotOf(n, k)' = [kind |-> mem'[at], val |-> mem'[at + 1],
                              index |-> mem'[at + 2], ptr |-> mem'[at + 3]]
          /\ SlotOf(n, k) = [kind |-> mem[at], val |-> mem[at + 1],
                             index |-> mem[at + 2], ptr |-> mem[at + 3]]
      BY <2>12, <3>1 DEF SlotOf
    <3>6. PICK r : r = SlotOf(n, k) /\ r = SlotOf(n, k)'
      BY <3>4, <3>5
    <3>7. Refers(n, r) /\ Passed(r.val)
      BY <1>2, <2>2, <2>14, <3>6 DEF Live, Sound, References
    <3>8. Refers(n, r)' /\ Passed(r.val)'
      BY <2>10, <2>13, <3>7
    <3>. QED
      BY <3>6, <3>8
  <2>15. ASSUME NEW k \in 1 .. args, SlotOf(d + 1, k)'.kind = 1
         PROVE  Refers(d + 1, SlotOf(d + 1, k))' /\ Passed(SlotOf(d + 1, k).val)'
    <3>1. PICK at \in Int : at = sp + need - ArgSize * k
      BY <1>2, <2>4 DEF ArgSize
    <3>2. sp <= at /\ at + 3 <= sp + need - 1
      BY <1>2, <2>4, <3>1, SlotStart
    <3>3. at + 0 = at /\ \A f \in 0 .. 3 : at + f \in Address /\ at + f >= sp
      <4>1. PICK low \in Nat : low = sp
        BY <1>2
      <4>2. PICK high \in Nat : high = sp + need
        BY <1>2, <2>4
      <4>3. /\ at + 0 = at
            /\ \A f \in 0 .. 3 : at + f \in Address /\ low <= at + f /\ at + f < high
        <5>1. low <= at /\ at + 3 <= high - 1 /\ high <= StackSize
          BY <2>5, <3>2, <4>1, <4>2
        <5>. QED
          BY <1>2, <5>1, FourCells
      <4>4. ASSUME NEW f \in 0 .. 3 PROVE at + f >= sp
        BY <4>1, <4>3, <4>4
      <4>. QED
        BY <4>3, <4>4
    <3>4. \A f \in 0 .. 3 : mem'[at + f] = Slot(refs[k])[f + 1]
      BY <2>4, <2>6, <3>1, <3>3
    <3>5. /\ mem'[at] = (IF refs[k].kind = "var" THEN 1 ELSE 0)
          /\ mem'[at + 1] = refs[k].val /\ mem'[at + 2] = refs[k].index
          /\ mem'[at + 3] = refs[k].ptr
      BY <3>3, <3>4 DEF Slot
    <3>6. SlotOf(d + 1, k)' = [kind |-> mem'[at], val |-> mem'[at + 1],
                              index |-> mem'[at + 2], ptr |-> mem'[at + 3]]
      <4>1. ASSUME NEW n, n = d + 1
            PROVE  SlotOf(n, k)' = [kind |-> mem'[End(n)' - ArgSize * k],
                                    val |-> mem'[End(n)' - ArgSize * k + 1],
                                    index |-> mem'[End(n)' - ArgSize * k + 2],
                                    ptr |-> mem'[End(n)' - ArgSize * k + 3]]
        BY DEF SlotOf
      <4>2. PICK n : n = d + 1
        OBVIOUS
      <4>3. End(n)' - ArgSize * k = at
        <5>1. End(n)' = cstack'[n].base + Procedures'[cstack'[n].proc].stackneeded
          BY DEF End
        <5>2. End(n)' = sp + need
          BY <2>4, <2>8, <2>9, <4>2, <5>1
        <5>3. PICK e1 : e1 = End(n)' /\ e1 = sp + need
          BY <5>2
        <5>4. e1 - ArgSize * k = at
          BY <1>2, <3>1, <5>3 DEF ArgSize
        <5>. QED
          BY <5>3, <5>4
      <4>4. SlotOf(n, k)' = [kind |-> mem'[at], val |-> mem'[at + 1],
                            index |-> mem'[at + 2], ptr |-> mem'[at + 3]]
        BY <4>1, <4>2, <4>3
      <4>. QED
        BY <4>2, <4>4
    <3>7. PICK r : r = SlotOf(d + 1, k)'
      OBVIOUS
    <3>8. /\ r.kind = (IF refs[k].kind = "var" THEN 1 ELSE 0)
          /\ r.val = refs[k].val /\ r.index = refs[k].index /\ r.ptr = refs[k].ptr
      BY <3>5, <3>6, <3>7
    <3>9. refs[k].kind = "var"
      BY <2>15, <3>7, <3>8
    <3>10. refs[k].status = "ACTIVE"
      BY <1>9, <1>12 DEF Failing
    <3>11. Refers(d + 1, refs[k]) /\ Passed(refs[k].val)
      BY <1>8, <2>0, <2>2, <3>9, <3>10
    <3>12. Refers(d + 1, r) /\ Passed(r.val)
      BY <3>8, <3>11 DEF Refers
    <3>13. Refers(d + 1, r)' /\ Passed(r.val)'
      <4>1. d + 1 \in 1 .. (d + 1)
        OBVIOUS
      <4>. QED
        BY <2>10, <2>13, <3>12, <4>1
    <3>. QED
      BY <3>7, <3>13
  <2>16. References'
    <3>1. ASSUME NEW n \in 1 .. (d + 1), NEW k \in 1 .. Procedures[cstack'[n].proc].args,
                 SlotOf(n, k)'.kind = 1
          PROVE  Refers(n, SlotOf(n, k))' /\ Passed(SlotOf(n, k).val)'
      <4>1. CASE n \in 1 .. d
        BY <2>8, <2>14, <3>1, <4>1
      <4>2. CASE n = d + 1
        BY <1>5, <2>8, <2>15, <3>1, <4>2
      <4>. QED
        BY <4>1, <4>2
    <3>. QED
      BY <2>9, <3>1 DEF References
  <2>17. Typed'
    BY <1>12, <2>0, <2>3, <2>6 DEF Live, Sound, Typed, Address, StackSize, result, Statuses
  <2>. QED
    BY <2>0, <2>16, <2>17 DEF Live, Sound, InRange
<1>13. Fail("STACK_OVERFLOW") => faults' = faults
  BY DEF Fail
<1>14. CASE ~Overflows(Inst.proc, sp)
  <2>1. PICK refs \in ArgRefs(Inst.args) :
          IF Failing(refs) = {}
            THEN /\ Push(Inst.proc, refs, sp, ip + 1)
                 /\ faults' = faults \cup
                      UNION {Wrapping(Inst.args[k], refs[k]) : k \in DOMAIN refs}
                 /\ UNCHANGED <<program, result, last>>
            ELSE \E i \in Failing(refs) :
                   /\ \A j \in Failing(refs) : i <= j
                   /\ status' = refs[i].status
                   /\ mem' = WithFrame(Inst.proc, sp, refs, i - 1)
                   /\ UNCHANGED <<program, cstack, sp, ip, result, last, faults>>
    BY <1>14 DEF Call
  <2>2. CASE Failing(refs) = {}
    BY <1>12, <1>14, <2>1, <2>2
  <2>3. CASE Failing(refs) # {}
    BY <1>11, <2>1, <2>3
  <2>. QED
    BY <2>2, <2>3
<1>15. CASE Overflows(Inst.proc, sp)
  BY <1>10, <1>13, <1>15 DEF Call
<1>. QED
  BY <1>14, <1>15

(* What the frames that stay hold is as it was.                            *)
LEMMA RetSound ==
  ASSUME Live, Ret
  PROVE  Sound' /\ faults' = faults
<1>1. PICK d \in Nat : d = Depth
  BY Frame
<1>2. /\ d > 1 /\ cstack \in Seq(Entries) /\ Running = d /\ status = "ACTIVE"
  BY <1>1, Frame, Top DEF Ret, Depth, Live
<1>3. /\ cstack' = SubSeq(cstack, 1, d - 1)
      /\ UNCHANGED <<program, mem, result, status, last, faults>>
  BY <1>1 DEF Ret, Depth
<1>4. /\ Len(cstack') = d - 1
      /\ \A n \in 1 .. (d - 1) : cstack'[n] = cstack[n]
  BY <1>1, <1>2, <1>3, SubSeqProperties DEF Depth
<1>5. /\ Depth' = d - 1 /\ Running' = d - 1
      /\ Procedures' = Procedures /\ Variables' = Variables
  BY <1>2, <1>3, <1>4 DEF Depth, Running, Procedures, Variables
<1>6. \A v : /\ Var(v)' = Var(v) /\ (IsGlobal(v)' <=> IsGlobal(v))
             /\ (Passed(v)' <=> Passed(v))
  BY <1>3, <1>5 DEF Var, IsGlobal, Passed
<1>7. \A n \in 1 .. (d - 1) : End(n)' = End(n)
  BY <1>4, <1>5 DEF End
<1>8. ASSUME NEW n \in 1 .. (d - 1), NEW r, Refers(n, r) PROVE Refers(n, r)'
  <2>1. /\ r.val \in DOMAIN Variables'
        /\ r.index \in 0 .. (Var(r.val)'.length - 1)
    BY <1>5, <1>6, <1>8 DEF Refers
  <2>2. CASE IsGlobal(r.val)
    BY <1>6, <1>8, <2>1, <2>2 DEF Refers
  <2>3. CASE ~IsGlobal(r.val)
    <3>1. PICK j \in 1 .. (n - 1) :
            cstack[j].proc = Var(r.val).scope /\ r.ptr = End(j) - Var(r.val).offset
      BY <1>8, <2>3 DEF Refers
    <3>2. j \in 1 .. (d - 1)
      OBVIOUS
    <3>3. cstack'[j].proc = Var(r.val)'.scope /\ r.ptr = End(j)' - Var(r.val)'.offset
      BY <1>4, <1>6, <1>7, <3>1, <3>2
    <3>4. ~IsGlobal(r.val)'
      BY <1>6, <2>3
    <3>. QED
      BY <2>1, <3>3, <3>4 DEF Refers
  <2>. QED
    BY <2>2, <2>3
<1>9. ASSUME NEW n \in 1 .. (d - 1), NEW k \in 1 .. Procedures[cstack[n].proc].args,
             SlotOf(n, k)'.kind = 1
      PROVE  Refers(n, SlotOf(n, k))' /\ Passed(SlotOf(n, k).val)'
  <2>1. SlotOf(n, k)' = SlotOf(n, k)
    BY <1>3, <1>7 DEF SlotOf
  <2>2. PICK r : r = SlotOf(n, k) /\ r = SlotOf(n, k)'
    BY <2>1
  <2>3. n \in 1 .. d
    OBVIOUS
  <2>4. Refers(n, r) /\ Passed(r.val)
    BY <1>2, <1>9, <2>2, <2>3 DEF Live, Sound, References
  <2>5. Refers(n, r)' /\ Passed(r.val)'
    BY <1>6, <1>8, <2>4
  <2>. QED
    BY <2>2, <2>5
<1>10. References'
  BY <1>4, <1>5, <1>9 DEF References
<1>11. Typed'
  BY <1>3 DEF Live, Sound, Typed, Address, StackSize, result
<1>. QED
  BY <1>3, <1>10, <1>11 DEF Live, Sound, InRange

-----------------------------------------------------------------------------
(* crustyvm_reset and crustyvm_begin.                                      *)

LEMMA InitializedCells ==
  ASSUME program \in Programs, NEW m \in [Address -> Int]
  PROVE  Initialized(m) \in [Address -> Int]
<1>1. InitialStack \in Nat /\ InitialCells \in [1 .. InitialStack -> Int]
  BY ProgramsVerified DEF WellFormed, InitialStack, InitialCells
<1>2. ASSUME NEW a \in Address, a < InitialStack PROVE InitialCells[a + 1] \in Int
  <2>1. a + 1 \in 1 .. InitialStack
    BY <1>1, <1>2 DEF Address
  <2>. QED
    BY <1>1, <2>1
<1>. QED
  BY <1>2 DEF Initialized

LEMMA InitSound ==
  ASSUME Init
  PROVE  Sound /\ faults = {}
<1>1. [a \in Address |-> 0] \in [Address -> Int]
  OBVIOUS
<1>2. mem \in [Address -> Int]
  BY <1>1, InitializedCells DEF Init
<1>3. References
  BY DEF Init, References, Running
<1>. QED
  BY <1>2, <1>3 DEF Init, Sound, Typed, InRange, Statuses

LEMMA ResetSound ==
  ASSUME Controlled, Sound, Reset
  PROVE  Sound' /\ faults' = faults
<1>1. program \in Programs /\ UNCHANGED <<program, result, last, faults>>
  BY DEF Controlled, IInv, Grounded, Reset
<1>2. Address' = Address /\ mem' \in [Address -> Int]
  BY <1>1, InitializedCells DEF Sound, Typed, Reset, Address, StackSize
<1>3. References'
  BY DEF Reset, References, Running
<1>4. Typed'
  BY <1>1, <1>2 DEF Reset, Sound, Typed, Statuses, result
<1>. QED
  BY <1>1, <1>3, <1>4 DEF Sound, InRange

(* The procedure that is begun takes no arguments. *)
LEMMA BeginSound ==
  ASSUME Controlled, Sound, NEW p \in Procs \cup {0}, Begin(p)
  PROVE  Sound' /\ faults' = faults
<1>1. /\ program \in Programs /\ UNCHANGED <<program, faults>>
      /\ resulttype' = "INT" /\ intresult' = 0 /\ floatresult' = 0 /\ last' = 0
      /\ InitialStack \in Nat
  BY Verified DEF Controlled, IInv, Grounded, Begin
<1>2. Address' = Address /\ Procedures' = Procedures
  BY <1>1 DEF Address, StackSize, Procedures
<1>3. CASE p # 0 /\ Procedures[p].args = 0
           /\ InitialStack + Procedures[p].stackneeded <= StackSize
  <2>1. /\ cstack' = <<[ip |-> 0, proc |-> p, base |-> InitialStack]>>
        /\ mem' = WithFrame(p, InitialStack, <<>>, 0)
        /\ status' = "ACTIVE"
    BY <1>3 DEF Begin
  <2>2. mem' \in [Address -> Int]
    <3>1. p \in Procs /\ mem \in [Address -> Int]
      BY <1>3 DEF Sound, Typed
    <3>. QED
      BY <1>1, <2>1, <3>1, FrameFilled
  <2>3. Depth' = 1 /\ cstack'[1].proc = p
    BY <2>1 DEF Depth
  <2>4. References'
    BY <1>2, <1>3, <2>1, <2>3 DEF References, Running
  <2>5. Typed'
    BY <1>1, <1>2, <2>1, <2>2 DEF Sound, Typed, Statuses
  <2>. QED
    BY <1>1, <2>4, <2>5 DEF Sound, InRange
<1>4. CASE ~(p # 0 /\ Procedures[p].args = 0
             /\ InitialStack + Procedures[p].stackneeded <= StackSize)
  <2>1. mem' = mem /\ status' \in {"STACK_OVERFLOW", "NO_PROC"}
    BY <1>4 DEF Begin
  <2>2. References'
    BY <2>1 DEF References, Running
  <2>3. Typed'
    BY <1>1, <1>2, <2>1 DEF Sound, Typed, Statuses
  <2>. QED
    BY <1>1, <2>2, <2>3 DEF Sound, InRange
<1>. QED
  BY <1>3, <1>4

-----------------------------------------------------------------------------
(* As long as nothing was stored into a variable that cannot be written    *)
(* and no sum of indexes has wrapped, the machine is sound; and as long as *)
(* none has, nothing is stored there if no call passes such a variable.    *)
Kept ==
  /\ Controlled /\ Ordered
  /\ Clean => Sound
  /\ PassesWritable(program) /\ "wrapped" \notin faults => "read_only" \notin faults

LEMMA InitiallyKept == Init => Kept
<1>. SUFFICES ASSUME Init PROVE Kept
  OBVIOUS
<1>1. Ordered
  BY DEF Init, Ordered, Depth
<1>. QED
  BY <1>1, InitiallyControlled, InitSound DEF Kept

LEMMA FaultsStay == [Next]_vars => faults \subseteq faults' /\ program' = program
<1>1. ASSUME Move PROVE faults \subseteq faults' /\ program' = program
  BY <1>1 DEF Move, MoveToMemory, MoveToCallback, Fail
<1>2. ASSUME Operation PROVE faults \subseteq faults' /\ program' = program
  BY <1>2 DEF Operation, Fail
<1>3. ASSUME Cmp PROVE faults \subseteq faults' /\ program' = program
  BY <1>3 DEF Cmp, Fail
<1>4. ASSUME Call PROVE faults \subseteq faults' /\ program' = program
  BY <1>4 DEF Call, Fail
<1>5. ASSUME Jump \/ JumpIf \/ Ret \/ RetLast \/ Reset PROVE faults \subseteq faults' /\ program' = program
  BY <1>5 DEF Jump, JumpIf, Ret, RetLast, Reset
<1>6. ASSUME NEW p \in Procs \cup {0}, Begin(p) PROVE faults \subseteq faults' /\ program' = program
  BY <1>6 DEF Begin
<1>7. ASSUME UNCHANGED vars PROVE faults \subseteq faults' /\ program' = program
  BY <1>7 DEF vars
<1>. QED
  BY <1>1, <1>2, <1>3, <1>4, <1>5, <1>6, <1>7 DEF Next

LEMMA StepSound ==
  ASSUME Controlled, Ordered, Sound, [Next]_vars
  PROVE  /\ Clean' => Sound'
         /\ PassesWritable(program) /\ "wrapped" \notin faults' => faults' = faults
<1>1. ASSUME status = "ACTIVE" PROVE Live
  BY <1>1 DEF Live
<1>2. CASE Move
  BY <1>1, <1>2, MoveSound DEF Move
<1>3. CASE Operation
  BY <1>1, <1>3, OperationSound DEF Operation
<1>4. CASE Cmp
  BY <1>1, <1>4, CmpSound DEF Cmp, Clean
<1>5. CASE Jump \/ JumpIf \/ RetLast
  <2>1. status = "ACTIVE"
    BY <1>5 DEF Jump, JumpIf, RetLast
  <2>. QED
    BY <1>1, <1>5, <2>1, JumpSound
<1>6. CASE Call
  BY <1>1, <1>6, CallSound DEF Call, Clean
<1>7. CASE Ret
  BY <1>1, <1>7, RetSound DEF Ret
<1>8. CASE Reset
  BY <1>8, ResetSound
<1>9. ASSUME NEW p \in Procs \cup {0}, Begin(p) PROVE Sound' /\ faults' = faults
  BY <1>9, BeginSound
<1>10. CASE UNCHANGED vars
  <2>2. References'
    <3>1. CASE status = "ACTIVE"
      BY <1>1, <1>10, <3>1, SameMemory DEF vars
    <3>2. CASE status # "ACTIVE"
      BY <1>10, <3>2 DEF vars, References, Running
    <3>. QED
      BY <3>1, <3>2
  <2>3. Typed'
    BY <1>10 DEF vars, result, Sound, Typed, Address, StackSize
  <2>. QED
    BY <1>10, <2>2, <2>3 DEF vars, Sound, InRange
<1>. QED
  BY <1>2, <1>3, <1>4, <1>5, <1>6, <1>7, <1>8, <1>9, <1>10 DEF Next

LEMMA StepKept == Kept /\ [Next]_vars => Kept'
<1>. SUFFICES ASSUME Kept, [Next]_vars PROVE Kept'
  OBVIOUS
<1>1. Controlled' /\ Ordered'
  BY StepControlled, StepOrders DEF Kept
<1>2. faults \subseteq faults' /\ program' = program
  BY FaultsStay
<1>3. CASE "wrapped" \in faults
  BY <1>1, <1>2, <1>3 DEF Kept, Clean
<1>4. CASE "wrapped" \notin faults /\ "read_only" \in faults
  BY <1>1, <1>2, <1>4 DEF Kept, Clean, PassesWritable
<1>5. CASE Clean
  <2>1. /\ Clean' => Sound'
        /\ PassesWritable(program) /\ "wrapped" \notin faults' => faults' = faults
    BY <1>5, StepSound DEF Kept
  <2>2. PassesWritable(program)' <=> PassesWritable(program)
    BY <1>2 DEF PassesWritable
  <2>. QED
    BY <1>1, <1>5, <2>1, <2>2 DEF Kept, Clean
<1>. QED
  BY <1>3, <1>4, <1>5 DEF Clean

(* In every execution of programs that the loader accepts, with ints of    *)
(* any width: until a variable that cannot be written was written, or the  *)
(* sum of an index and of the element passed has wrapped, the state has    *)
(* its types, every number stored in memory being an int.                  *)
THEOREM TypesHold == Spec => [](Clean => TypeOK)
<1>1. Kept => (Clean => TypeOK)
  BY SoundHas DEF Kept
<1>. QED
  BY <1>1, InitiallyKept, StepKept, PTL DEF Spec

(* Likewise, every argument of every procedure being called refers to an   *)
(* element of a global or of a local of a procedure that has not returned, *)
(* where it was when the call was made (update_src_ref, call).             *)
THEOREM ReferencesStayLive == Spec => [](Clean => ReferencesLive)
<1>1. Kept => (Clean => ReferencesLive)
  BY SoundHas DEF Kept
<1>. QED
  BY <1>1, InitiallyKept, StepKept, PTL DEF Spec

(* Likewise, no instruction reads or writes outside the variable it names  *)
(* or was passed, or outside memory (read_var, store_result, write_var):   *)
(* there are no other ways to get there than the two.                      *)
THEOREM NothingOutOfRange == Spec => [](Clean => InRange)
<1>1. Kept => (Clean => InRange)
  BY SoundHas DEF Kept
<1>. QED
  BY <1>1, InitiallyKept, StepKept, PTL DEF Spec

(* A program none of whose calls passes a read callback that has no write  *)
(* callback closes the first of them: until a sum of indexes has wrapped,  *)
(* nothing is stored into what cannot be written, which check_move_arg     *)
(* makes certain of for variables that are named, and nothing for those    *)
(* that are passed.                                                        *)
THEOREM WritableWhenPassed ==
  Spec /\ PassesWritable(program) =>
    []("wrapped" \notin faults
         => TypeOK /\ ReferencesLive /\ InRange /\ "read_only" \notin faults)
<1>. DEFINE I == Kept /\ PassesWritable(program)
            J == "wrapped" \notin faults
                   => TypeOK /\ ReferencesLive /\ InRange /\ "read_only" \notin faults
<1>1. I => J
  BY SoundHas DEF Kept, Clean
<1>2. I /\ [Next]_vars => I'
  BY StepKept, FaultsStay DEF PassesWritable
<1>3. Init /\ PassesWritable(program) => I
  BY InitiallyKept
<1>4. Spec /\ PassesWritable(program) => []J
  <2>. HIDE DEF I, J
  <2>. QED
    BY <1>1, <1>2, <1>3, PTL DEF Spec
<1>. QED
  BY <1>4
=============================================================================
