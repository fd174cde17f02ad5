------------------------------ MODULE VM_proofs ------------------------------
(***************************************************************************)
(* Theorems about the bytecode machine of vm.c.                            *)
(***************************************************************************)
EXTENDS VM, SequenceTheorems, TLAPS

(* Values.                                                                 *)

\* What arithmetic leaves in an int32_t is an int32_t.
LEMMA WrapInWord == ASSUME NEW n \in Int PROVE Wrap(n) \in Word
<1> DEFINE W == 2 * HALF
<1>1. W \in Nat \ {0} /\ W = 2 * HALF
  BY HalfAssumption
<1> HIDE DEF W
<1>2. (n + HALF) % W \in 0 .. W - 1
  BY <1>1, HalfAssumption
<1> QED BY <1>1, <1>2, HalfAssumption DEF Wrap, Word, W

LEMMA OperandInWord == ASSUME NEW b \in 0 .. 255 PROVE Signed8(b) \in Word
BY HalfAssumption DEF Signed8, Word

\* What the values on top of the stack make of an instruction is a value.
LEMMA Results ==
  ASSUME TypeOK
  PROVE  /\ sp > 0 => Top \in Word
         /\ sp >= 2 => \A r \in {Top + Below, Below - Top, Top * Below} :
                         r \in Int /\ Wrap(r) \in Word
         /\ HasOperand => Operand \in 0 .. 255 /\ Signed8(Operand) \in Word
<1>1. sp > 0 => Top \in Word
  BY VMAssumption DEF TypeOK, Top
<1>2. sp >= 2 => Top \in Word /\ Below \in Word
  BY VMAssumption DEF TypeOK, Top, Below
<1>3. Word \subseteq Int
  BY HalfAssumption DEF Word
<1>4. ASSUME NEW x \in Int, NEW y \in Int
      PROVE  \A r \in {x + y, y - x, x * y} : r \in Int
  OBVIOUS
<1>5. sp >= 2 => \A r \in {Top + Below, Below - Top, Top * Below} : r \in Int
  BY <1>2, <1>3, <1>4
<1>6. HasOperand => Operand \in 0 .. 255
  <2>1. HasOperand => pc + 2 \in 1 .. Len(code)
    BY LenProperties DEF TypeOK, HasOperand
  <2> QED BY <2>1, ElementOfSeq DEF TypeOK, Operand
<1> QED BY <1>1, <1>5, <1>6, WrapInWord, OperandInWord

\* The order of the operands matters to a difference alone.
LEMMA Operands ==
  ASSUME TypeOK, sp >= 2
  PROVE  /\ Top \in Int /\ Below \in Int
         /\ Below + Top = Top + Below /\ Below * Top = Top * Below
<1>1. Top \in Int /\ Below \in Int
  BY VMAssumption, HalfAssumption DEF TypeOK, Top, Below, Word
<1>2. \A x, y \in Int : y + x = x + y /\ y * x = x * y
  OBVIOUS
<1> QED BY <1>1, <1>2

-----------------------------------------------------------------------------
(* Type correctness.                                                       *)

LEMMA ReportType ==
  ASSUME NEW s, Report(s), s \in Statuses
  PROVE  status' \in Statuses /\ running' \in BOOLEAN
<1>1. status' \in Statuses
  BY DEF Report
<1>2. running' \in BOOLEAN
  BY Zenon DEF Report
<1> QED BY <1>1, <1>2

\* The part of the type invariant that vm_push, vm_pop and the arithmetic
\* instructions are responsible for.
StackOK == /\ sp \in 0 .. STACK_SIZE
           /\ stack \in [0 .. STACK_SIZE - 1 -> Word]
           /\ status \in Statuses /\ running \in BOOLEAN

LEMMA FailKeepsType ==
  ASSUME TypeOK, NEW s \in Statuses, Fail(s)
  PROVE  /\ StackOK'
         /\ UNCHANGED <<code, output, out_len>>
BY ReportType DEF TypeOK, StackOK, Fail

LEMMA PushKeepsType ==
  ASSUME TypeOK, NEW v \in Word, vm_push(v)
  PROVE  StackOK' /\ UNCHANGED <<code, output, out_len>>
<1>1. CASE sp < STACK_SIZE
  <2>1. /\ stack' = [stack EXCEPT ![sp] = v] /\ sp' = sp + 1
        /\ Report("VM_OK") /\ UNCHANGED <<code, output, out_len>>
    BY <1>1, VMAssumption DEF vm_push, TypeOK
  <2>2. status' \in Statuses /\ running' \in BOOLEAN
    BY <2>1, ReportType DEF Statuses
  <2> QED BY <1>1, <2>1, <2>2, VMAssumption DEF TypeOK, StackOK
<1>2. CASE sp >= STACK_SIZE
  BY <1>2, FailKeepsType, VMAssumption DEF vm_push, TypeOK, Statuses
<1> QED BY <1>1, <1>2, VMAssumption DEF TypeOK

LEMMA PopKeepsType ==
  ASSUME TypeOK, vm_pop
  PROVE  StackOK' /\ UNCHANGED <<code, output, out_len>>
<1>1. CASE sp > 0
  <2>1. /\ sp' = sp - 1 /\ UNCHANGED <<code, stack, output, out_len>>
        /\ Report("VM_OK")
    BY <1>1 DEF vm_pop
  <2>2. status' \in Statuses /\ running' \in BOOLEAN
    BY <2>1, ReportType DEF Statuses
  <2> QED BY <1>1, <2>1, <2>2, VMAssumption DEF TypeOK, StackOK
<1>2. CASE sp = 0
  BY <1>2, FailKeepsType DEF vm_pop, Statuses
<1> QED BY <1>1, <1>2, VMAssumption DEF TypeOK

LEMMA ArithmeticKeepsType ==
  ASSUME TypeOK, NEW r \in Int, Arithmetic(r)
  PROVE  StackOK' /\ UNCHANGED <<code, output, out_len>>
<1>1. CASE sp >= 2
  <2>1. /\ stack' = [stack EXCEPT ![sp - 2] = Wrap(r)] /\ sp' = sp - 1
        /\ Report("VM_OK") /\ UNCHANGED <<code, output, out_len>>
    BY <1>1, VMAssumption DEF Arithmetic, TypeOK
  <2>2. status' \in Statuses /\ running' \in BOOLEAN
    BY <2>1, ReportType DEF Statuses
  <2>3. Wrap(r) \in Word
    BY WrapInWord
  <2> QED BY <1>1, <2>1, <2>2, <2>3, VMAssumption DEF TypeOK, StackOK
<1>2. CASE sp < 2
  BY <1>2, FailKeepsType, VMAssumption DEF Arithmetic, TypeOK, Statuses
<1> QED BY <1>1, <1>2, VMAssumption DEF TypeOK

\* pc stays in the code or right behind it.
LEMMA PcMoves ==
  ASSUME TypeOK
  PROVE  /\ Len(code) \in Nat
         /\ \A op : At(op) => pc + 1 \in 0 .. Len(code)
         /\ HasOperand => pc + 2 \in 0 .. Len(code)
         /\ CanJump => Operand \in 0 .. Len(code) /\ pc + 2 \in 0 .. Len(code)
<1>1. Len(code) \in Nat /\ pc \in Nat
  BY LenProperties DEF TypeOK
<1>2. \A op : At(op) => pc + 1 \in 0 .. Len(code)
  BY <1>1 DEF At
<1>3. HasOperand => pc + 2 \in 0 .. Len(code)
  BY <1>1 DEF HasOperand
<1>4. CanJump => Operand \in 0 .. Len(code)
  <2> SUFFICES ASSUME CanJump PROVE Operand \in 0 .. Len(code)
    OBVIOUS
  <2>1. HasOperand /\ Operand < Len(code)
    BY DEF CanJump
  <2>2. Operand \in 0 .. 255
    BY <2>1, Results
  <2> QED BY <1>1, <2>1, <2>2
<1> QED BY <1>1, <1>2, <1>3, <1>4 DEF CanJump

LEMMA StepKeepsType == TypeOK /\ vm_step => TypeOK'
<1> SUFFICES ASSUME TypeOK, vm_step PROVE TypeOK'
  OBVIOUS
<1>a. ASSUME StackOK', UNCHANGED <<code, output, out_len>>,
             pc' \in 0 .. Len(code)
      PROVE  TypeOK'
  BY <1>a DEF TypeOK, StackOK
<1>b. pc \in 0 .. Len(code)
  BY DEF TypeOK
<1>c. ASSUME NEW s \in Statuses, Fail(s), pc' \in 0 .. Len(code) PROVE TypeOK'
  BY <1>a, <1>c, FailKeepsType
<1>d. {"VM_OK", "VM_HALTED", "VM_ERR_STACK_OVERFLOW", "VM_ERR_BAD_OPCODE",
       "VM_ERR_STACK_UNDERFLOW", "VM_ERR_PC_OUT_OF_RANGE",
       "VM_ERR_OUTPUT_BUFF_OVERFLOW"} \subseteq Statuses
  BY DEF Statuses
<1>1. CASE StepPush
  BY <1>1, <1>a, <1>b, <1>c, <1>d, PcMoves, Results, PushKeepsType
     DEF StepPush
<1>2. CASE StepPop
  BY <1>2, <1>a, PcMoves, PopKeepsType DEF StepPop
<1>3. CASE StepDup
  BY <1>3, <1>a, <1>c, <1>d, PcMoves, Results, PushKeepsType DEF StepDup
<1>4. CASE StepAdd \/ StepSub \/ StepMul
  <2>1. \/ /\ Top + Below \in Int /\ Below - Top \in Int
           /\ Top * Below \in Int
        \/ sp < 2
    BY Results, VMAssumption DEF TypeOK
  <2>2. pc' = pc + 1 /\ pc + 1 \in 0 .. Len(code)
    BY <1>4, PcMoves DEF StepAdd, StepSub, StepMul
  <2>3. CASE sp < 2
    <3>1. Fail("VM_ERR_STACK_UNDERFLOW")
      BY <1>4, <2>3, VMAssumption DEF StepAdd, StepSub, StepMul, Arithmetic, TypeOK
    <3> QED BY <1>c, <1>d, <2>2, <3>1
  <2>4. CASE ~(sp < 2)
    BY <1>4, <1>a, <2>1, <2>2, <2>4, ArithmeticKeepsType
       DEF StepAdd, StepSub, StepMul
  <2> QED BY <2>3, <2>4
<1>5. CASE StepJmp
  <2>1. status' \in Statuses /\ running' \in BOOLEAN
    BY <1>5, <1>d, ReportType DEF StepJmp
  <2>2. pc' \in 0 .. Len(code)
    BY <1>5, <1>b, PcMoves DEF StepJmp
  <2> QED BY <1>5, <2>1, <2>2 DEF StepJmp, TypeOK
<1>6. CASE StepJz
  BY <1>6, <1>a, <1>b, <1>c, <1>d, PcMoves, PopKeepsType DEF StepJz
<1>7. CASE StepPrint
  <2>1. pc' \in 0 .. Len(code)
    BY <1>7, PcMoves DEF StepPrint
  <2>2. CASE sp > 0 /\ out_len < OUTPUT_SIZE
    <3>1. /\ sp' = sp - 1 /\ out_len' = out_len + 1
          /\ output' = [output EXCEPT ![out_len] = Top]
          /\ Report("VM_OK") /\ UNCHANGED <<code, stack>>
      BY <1>7, <2>2, VMAssumption DEF StepPrint, TypeOK
    <3>2. status' \in Statuses /\ running' \in BOOLEAN
      BY <1>d, <3>1, ReportType
    <3>3. output' \in [0 .. OUTPUT_SIZE - 1 -> Word]
      BY <2>2, <3>1, Results DEF TypeOK
    <3> QED BY <2>1, <2>2, <3>1, <3>2, <3>3, VMAssumption DEF TypeOK
  <2>3. CASE ~(sp > 0 /\ out_len < OUTPUT_SIZE)
    BY <1>7, <1>c, <1>d, <2>1, <2>3 DEF StepPrint
  <2> QED BY <2>2, <2>3
<1>8. CASE StepHalt \/ StepBad \/ StepOutside
  BY <1>8, <1>b, <1>c, <1>d DEF StepHalt, StepBad, StepOutside
<1> QED BY <1>1, <1>2, <1>3, <1>4, <1>5, <1>6, <1>7, <1>8 DEF vm_step

\* Whatever bytes the program is made of, every index stays in its array and
\* every value is an int32_t: vm_step never reads or writes out of bounds.
THEOREM TypeCorrect == Spec => []TypeOK
<1>1. Init => TypeOK
  <2> SUFFICES ASSUME Init PROVE TypeOK
    OBVIOUS
  <2>1. running \in BOOLEAN
    BY Zenon DEF Init
  <2>2. code \in Seq(0 .. 255) /\ Len(code) \in Nat
    BY VMAssumption, LenProperties DEF Init
  <2> QED BY <2>1, <2>2, VMAssumption, HalfAssumption
          DEF Init, TypeOK, Word, Statuses
<1>2. TypeOK /\ [Next]_vars => TypeOK'
  <2> SUFFICES ASSUME TypeOK, [Next]_vars PROVE TypeOK'
    OBVIOUS
  <2>1. CASE vm_step
    BY <2>1, StepKeepsType
  <2>2. CASE RunCall
    <3>1. running' \in BOOLEAN
      BY <2>2, Zenon DEF RunCall
    <3> QED BY <2>2, <3>1 DEF RunCall, machine, TypeOK
  <2>3. CASE UNCHANGED vars
    BY <2>3 DEF vars, TypeOK
  <2> QED BY <2>1, <2>2, <2>3 DEF Next
<1> QED BY <1>1, <1>2, PTL DEF Spec

-----------------------------------------------------------------------------
(* Why a program that stopped for good does so again at its next step.     *)

StaysAtHalt == status = "VM_HALTED" => At(OP_HALT)
StaysAtBad == status = "VM_ERR_BAD_OPCODE" =>
                pc < Len(code) /\ code[pc + 1] \notin Opcodes
StaysOutside == status = "VM_ERR_PC_OUT_OF_RANGE" =>
                  \/ pc >= Len(code)
                  \/ At(OP_PUSH) /\ ~HasOperand
                  \/ (At(OP_JMP) \/ At(OP_JZ)) /\ ~CanJump

Stays == StaysAtHalt /\ StaysAtBad /\ StaysOutside

\* An instruction that reports something else claims nothing.
LEMMA OtherReports ==
  ASSUME NEW s, status' = s, s \notin Fatal
  PROVE  Stays'
BY DEF Stays, StaysAtHalt, StaysAtBad, StaysOutside, Fatal

LEMMA StepStays == vm_step => Stays'
<1> SUFFICES ASSUME vm_step PROVE Stays'
  OBVIOUS
<1> USE OtherReports DEF Fatal, Report, Fail
<1>0. UNCHANGED code
  BY DEF vm_step, StepPush, StepPop, StepDup, StepAdd, StepSub, StepMul,
         StepJmp, StepJz, StepPrint, StepHalt, StepBad, StepOutside,
         vm_push, vm_pop, Arithmetic
<1>1. CASE StepPush
  BY <1>0, <1>1 DEF StepPush, vm_push, Stays, StaysAtHalt, StaysAtBad,
                    StaysOutside, At, HasOperand
<1>2. CASE StepPop \/ StepDup \/ StepAdd \/ StepSub \/ StepMul \/ StepPrint
  BY <1>2 DEF StepPop, StepDup, StepAdd, StepSub, StepMul, StepPrint,
              vm_push, vm_pop, Arithmetic
<1>3. CASE StepJmp
  BY <1>0, <1>3 DEF StepJmp, Stays, StaysAtHalt, StaysAtBad, StaysOutside, At,
                    HasOperand, CanJump, Operand
<1>4. CASE StepJz
  BY <1>0, <1>4 DEF StepJz, vm_pop, Stays, StaysAtHalt, StaysAtBad,
                    StaysOutside, At, HasOperand, CanJump, Operand
<1>5. CASE StepHalt \/ StepBad \/ StepOutside
  BY <1>0, <1>5 DEF StepHalt, StepBad, StepOutside, Stays, StaysAtHalt,
                    StaysAtBad, StaysOutside, At
<1> QED BY <1>1, <1>2, <1>3, <1>4, <1>5 DEF vm_step

LEMMA StaysInvariant == Spec => []Stays
<1>1. Init => Stays
  BY DEF Init, Stays, StaysAtHalt, StaysAtBad, StaysOutside
<1>2. Stays /\ [Next]_vars => Stays'
  <2>1. Stays /\ (RunCall \/ UNCHANGED vars) => Stays'
    BY DEF RunCall, machine, vars, Stays, StaysAtHalt, StaysAtBad,
           StaysOutside, At, HasOperand, CanJump, Operand
  <2> QED BY <2>1, StepStays DEF Next
<1> QED BY <1>1, <1>2, PTL DEF Spec

\* The byte at pc alone decides which instruction is executed.
LEMMA Dispatch ==
  ASSUME TypeOK, vm_step
  PROVE  /\ At(OP_PUSH) => StepPush
         /\ At(OP_JMP) => StepJmp
         /\ At(OP_JZ) => StepJz
         /\ At(OP_HALT) => StepHalt
         /\ (pc < Len(code) /\ code[pc + 1] \notin Opcodes) => StepBad
         /\ pc >= Len(code) => StepOutside
BY LenProperties
   DEF vm_step, StepPush, StepPop, StepDup, StepAdd, StepSub, StepMul, StepJmp,
       StepJz, StepPrint, StepHalt, StepBad, StepOutside, At, OP_PUSH, OP_POP,
       OP_DUP, OP_ADD, OP_SUB, OP_MUL, OP_JMP, OP_JZ, OP_PRINT, OP_HALT,
       Opcodes, TypeOK

\* The step of a machine that stands at a halt, at an unknown byte or outside
\* its code says so again and changes nothing.
LEMMA FatalStep ==
  ASSUME TypeOK, Stays, status \in Fatal, vm_step
  PROVE  UNCHANGED <<machine, status>>
<1> USE Dispatch DEF Fail, Report, machine
<1>1. CASE status = "VM_HALTED"
  BY <1>1 DEF Stays, StaysAtHalt, StepHalt
<1>2. CASE status = "VM_ERR_BAD_OPCODE"
  BY <1>2 DEF Stays, StaysAtBad, StepBad
<1>3. CASE status = "VM_ERR_PC_OUT_OF_RANGE"
  <2>1. CASE pc >= Len(code)
    BY <1>3, <2>1 DEF StepOutside
  <2>2. CASE At(OP_PUSH) /\ ~HasOperand
    BY <1>3, <2>2 DEF StepPush
  <2>3. CASE (At(OP_JMP) \/ At(OP_JZ)) /\ ~CanJump
    BY <1>3, <2>3 DEF StepJmp, StepJz
  <2> QED BY <1>3, <2>1, <2>2, <2>3 DEF Stays, StaysOutside
<1> QED BY <1>1, <1>2, <1>3 DEF Fatal

\* A program that halted, met an unknown byte or left its code stays there,
\* however often it is stepped or run again.
THEOREM FatalHolds == Spec => FatalIsFinal
<1>1. TypeOK /\ Stays /\ [Next]_vars =>
        [(status \in Fatal) => UNCHANGED <<machine, status>>]_vars
  <2>1. RunCall => UNCHANGED <<machine, status>>
    BY DEF RunCall
  <2> QED BY <2>1, FatalStep DEF Next
<1> QED BY <1>1, TypeCorrect, StaysInvariant, PTL DEF Spec, FatalIsFinal

-----------------------------------------------------------------------------
(* The refinement: stack and sp are the abstract machine's sequence stk,   *)
(* output and out_len its sequence out.                                    *)

\* The front of an array of values is a sequence of them.
LEMMA FrontType ==
  ASSUME NEW m \in Nat, NEW f \in [0 .. m - 1 -> Word], NEW k \in 0 .. m
  PROVE  /\ Cells(f, k) \in Seq(Word) /\ Len(Cells(f, k)) = k
         /\ \A j \in 1 .. k : Cells(f, k)[j] = f[j - 1]
<1>1. Cells(f, k) \in [1 .. k -> Word]
  BY DEF Cells
<1> QED BY <1>1 DEF Cells

\* A store right behind the front, taken into it, appends the value.
LEMMA FrontAppend ==
  ASSUME NEW m \in Nat, NEW f \in [0 .. m - 1 -> Word],
         NEW k \in 0 .. m - 1, NEW v \in Word
  PROVE  Cells([f EXCEPT ![k] = v], k + 1) = Append(Cells(f, k), v)
<1> DEFINE g == [f EXCEPT ![k] = v]
<1>1. g \in [0 .. m - 1 -> Word] /\ g[k] = v
      /\ \A j \in 0 .. k - 1 : g[j] = f[j]
  OBVIOUS
<1> HIDE DEF g
<1>2. /\ Cells(g, k + 1) \in Seq(Word) /\ Len(Cells(g, k + 1)) = k + 1
      /\ \A j \in 1 .. k + 1 : Cells(g, k + 1)[j] = g[j - 1]
  BY <1>1, FrontType
<1>3. /\ Cells(f, k) \in Seq(Word) /\ Len(Cells(f, k)) = k
      /\ \A j \in 1 .. k : Cells(f, k)[j] = f[j - 1]
  BY FrontType
<1>4. /\ Append(Cells(f, k), v) \in Seq(Word)
      /\ Len(Append(Cells(f, k), v)) = k + 1
      /\ \A j \in 1 .. k : Append(Cells(f, k), v)[j] = f[j - 1]
      /\ Append(Cells(f, k), v)[k + 1] = v
  BY <1>3, AppendProperties
<1>5. \A j \in 1 .. k + 1 : Cells(g, k + 1)[j] = Append(Cells(f, k), v)[j]
  BY <1>1, <1>2, <1>4
<1>6. Cells(g, k + 1) = Append(Cells(f, k), v)
  BY <1>2, <1>4, <1>5, SeqEqual
<1> QED BY <1>6 DEF g

\* A shorter front drops the values on top.
LEMMA FrontDrop ==
  ASSUME NEW m \in Nat, NEW f \in [0 .. m - 1 -> Word],
         NEW k \in 0 .. m, NEW j \in 0 .. k
  PROVE  Cells(f, j) = SubSeq(Cells(f, k), 1, j)
<1>1. /\ Cells(f, k) \in Seq(Word) /\ Len(Cells(f, k)) = k
      /\ \A x \in 1 .. k : Cells(f, k)[x] = f[x - 1]
  BY FrontType
<1>2. /\ Cells(f, j) \in Seq(Word) /\ Len(Cells(f, j)) = j
      /\ \A x \in 1 .. j : Cells(f, j)[x] = f[x - 1]
  BY FrontType
<1> DEFINE s == SubSeq(Cells(f, k), 1, j)
<1>3. /\ s \in Seq(Word) /\ Len(s) = j
      /\ \A x \in 1 .. j : s[x] = f[x - 1]
  BY <1>1, SubSeqProperties
<1> HIDE DEF s
<1>4. Cells(f, j) = s
  BY <1>2, <1>3, SeqEqual
<1> QED BY <1>4 DEF s

Stk == Cells(stack, sp)
Out == Cells(output, out_len)

\* The abstract machine's view of stack and output.
LEMMA Views ==
  ASSUME TypeOK
  PROVE  /\ Stk \in Seq(Word) /\ Len(Stk) = sp
         /\ Out \in Seq(Word) /\ Len(Out) = out_len
         /\ Stk # << >> <=> sp > 0
         /\ sp > 0 => Stk[Len(Stk)] = Top
         /\ sp >= 2 => Stk[Len(Stk) - 1] = Below
<1>1. /\ Stk \in Seq(Word) /\ Len(Stk) = sp
      /\ \A j \in 1 .. sp : Stk[j] = stack[j - 1]
  BY FrontType, VMAssumption DEF TypeOK, Stk
<1>2. Out \in Seq(Word) /\ Len(Out) = out_len
  BY FrontType, VMAssumption DEF TypeOK, Out
<1>3. Stk # << >> <=> sp > 0
  BY <1>1, EmptySeq DEF TypeOK
<1> QED BY <1>1, <1>2, <1>3, VMAssumption DEF TypeOK, Top, Below

\* A failed instruction shows in the status alone.
LEMMA FailShows ==
  ASSUME NEW s, Fail(s)
  PROVE  Stk' = Stk /\ Out' = Out /\ code' = code /\ status' = s
BY DEF Fail, Report, Stk, Out

LEMMA PushShows ==
  ASSUME TypeOK, NEW v \in Word, vm_push(v), sp < STACK_SIZE
  PROVE  /\ Stk' = Append(Stk, v) /\ Len(Append(Stk, v)) <= STACK_SIZE
         /\ Out' = Out /\ code' = code /\ status' = "VM_OK"
<1>1. /\ stack' = [stack EXCEPT ![sp] = v] /\ sp' = sp + 1
      /\ UNCHANGED <<code, output, out_len>> /\ status' = "VM_OK"
  BY VMAssumption DEF vm_push, TypeOK, Report
<1>2. Stk' = Append(Stk, v)
  <2>1. sp \in 0 .. STACK_SIZE - 1 /\ stack \in [0 .. STACK_SIZE - 1 -> Word]
    BY VMAssumption DEF TypeOK
  <2> QED BY <1>1, <2>1, FrontAppend, VMAssumption DEF Stk
<1>3. Len(Append(Stk, v)) = sp + 1
  BY Views, AppendProperties
<1> QED BY <1>1, <1>2, <1>3, VMAssumption DEF TypeOK, Out

LEMMA PopShows ==
  ASSUME TypeOK, sp > 0, sp' = sp - 1, stack' = stack
  PROVE  Stk' = SubSeq(Stk, 1, Len(Stk) - 1) /\ Len(Stk') <= STACK_SIZE
<1>1. /\ sp \in 0 .. STACK_SIZE /\ sp - 1 \in 0 .. sp
      /\ stack \in [0 .. STACK_SIZE - 1 -> Word]
  BY VMAssumption DEF TypeOK
<1>2. Cells(stack, sp - 1) = SubSeq(Stk, 1, sp - 1)
  BY <1>1, FrontDrop, VMAssumption DEF Stk
<1>3. Len(Cells(stack, sp - 1)) = sp - 1
  BY <1>1, FrontType, VMAssumption
<1> QED BY <1>1, <1>2, <1>3, Views, VMAssumption DEF Stk

LEMMA ArithmeticShows ==
  ASSUME TypeOK, NEW r \in Int, Arithmetic(r), sp >= 2
  PROVE  /\ Stk' = Append(SubSeq(Stk, 1, Len(Stk) - 2), Wrap(r))
         /\ Len(Stk') <= STACK_SIZE
         /\ Out' = Out /\ code' = code /\ status' = "VM_OK"
<1>1. /\ stack' = [stack EXCEPT ![sp - 2] = Wrap(r)] /\ sp' = sp - 1
      /\ UNCHANGED <<code, output, out_len>> /\ status' = "VM_OK"
  BY VMAssumption DEF Arithmetic, TypeOK, Report
<1>2. /\ sp \in 0 .. STACK_SIZE /\ sp - 2 \in 0 .. STACK_SIZE - 1
      /\ sp - 2 \in 0 .. sp /\ sp - 1 = (sp - 2) + 1
      /\ stack \in [0 .. STACK_SIZE - 1 -> Word] /\ Wrap(r) \in Word
  BY VMAssumption, WrapInWord DEF TypeOK
<1>3. Stk' = Append(Cells(stack, sp - 2), Wrap(r))
  BY <1>1, <1>2, FrontAppend, VMAssumption DEF Stk
<1>4. Cells(stack, sp - 2) = SubSeq(Stk, 1, sp - 2)
  BY <1>2, FrontDrop, VMAssumption DEF Stk
<1>5. Len(Stk') = sp - 1
  <2>1. Cells(stack, sp - 2) \in Seq(Word) /\ Len(Cells(stack, sp - 2)) = sp - 2
    BY <1>2, FrontType, VMAssumption
  <2> QED BY <1>2, <1>3, <2>1, AppendProperties
<1>6. Len(Stk') <= STACK_SIZE
  BY <1>2, <1>5, VMAssumption
<1> QED BY <1>1, <1>3, <1>4, <1>6, Views DEF Out

-----------------------------------------------------------------------------

LEMMA InitRefines == Init => Machine!Init
<1> SUFFICES ASSUME Init PROVE Machine!Init
  OBVIOUS
<1>1. Cells(stack, sp) = << >> /\ Cells(output, out_len) = << >>
  BY DEF Init, Cells
<1> QED BY <1>1 DEF Init, Machine!Init

\* Both machines read the same code in the same way.
LEMMA SameCode ==
  /\ Machine!OP_PUSH = OP_PUSH /\ Machine!OP_POP = OP_POP
  /\ Machine!OP_DUP = OP_DUP /\ Machine!OP_ADD = OP_ADD
  /\ Machine!OP_SUB = OP_SUB /\ Machine!OP_MUL = OP_MUL
  /\ Machine!OP_JMP = OP_JMP /\ Machine!OP_JZ = OP_JZ
  /\ Machine!OP_PRINT = OP_PRINT /\ Machine!OP_HALT = OP_HALT
  /\ Machine!Opcodes = Opcodes
  /\ \A op : Machine!At(op) <=> At(op)
  /\ Machine!HasOperand <=> HasOperand
  /\ Machine!Operand = Operand
  /\ \A b : Machine!Signed8(b) = Signed8(b)
  /\ \A r : Machine!Wrap(r) = Wrap(r)
BY DEF Machine!OP_PUSH, OP_PUSH, Machine!OP_POP, OP_POP, Machine!OP_DUP,
       OP_DUP, Machine!OP_ADD, OP_ADD, Machine!OP_SUB, OP_SUB, Machine!OP_MUL,
       OP_MUL, Machine!OP_JMP, OP_JMP, Machine!OP_JZ, OP_JZ, Machine!OP_PRINT,
       OP_PRINT, Machine!OP_HALT, OP_HALT, Machine!Opcodes, Opcodes,
       Machine!At, At, Machine!HasOperand, HasOperand, Machine!Operand,
       Operand, Machine!Signed8, Signed8, Machine!Wrap, Wrap

\* The refusals of the abstract machine, one for each reason.
LEMMA Refusals ==
  ASSUME NEW s, Fail(s), pc' \in pc .. Len(code),
         \/ s = "VM_ERR_STACK_UNDERFLOW"
            /\ \E k \in 1 .. 2 : Machine!Needs(k) /\ Len(Stk) < k
         \/ s = "VM_ERR_STACK_OVERFLOW"
            /\ (At(OP_PUSH) \/ At(OP_DUP)) /\ Len(Stk) = STACK_SIZE
         \/ s = "VM_ERR_OUTPUT_BUFF_OVERFLOW"
            /\ At(OP_PRINT) /\ Len(Out) = OUTPUT_SIZE
         \/ s = "VM_HALTED" /\ pc' = pc /\ At(OP_HALT)
         \/ s = "VM_ERR_BAD_OPCODE" /\ pc' = pc
            /\ pc < Len(code) /\ code[pc + 1] \notin Opcodes
         \/ /\ s = "VM_ERR_PC_OUT_OF_RANGE" /\ pc' = pc
            /\ \/ pc >= Len(code)
               \/ (At(OP_PUSH) \/ At(OP_JMP) \/ At(OP_JZ)) /\ ~HasOperand
               \/ /\ (At(OP_JMP) \/ At(OP_JZ)) /\ HasOperand
                  /\ Operand >= Len(code)
  PROVE  Machine!Next
<1>1. Machine!Fault(s)
  BY FailShows DEF Machine!Fault, Stk, Out
<1>2. Machine!Refuse
  BY <1>1, SameCode DEF Machine!Refuse, Machine!Jumps, Stk, Out
<1> QED BY <1>2 DEF Machine!Next

\* An instruction that takes effect leaves Stk' and moves pc on.
LEMMA Puts ==
  ASSUME NEW s, NEW k, Stk' = s, Len(s) <= STACK_SIZE, Out' = Out,
         code' = code, status' = "VM_OK", pc' = pc + k
  PROVE  Machine!Put(s, k)
BY DEF Machine!Put, Machine!Done, Stk, Out

\* The step of each instruction is the abstract machine's: it is executed as
\* a whole, or refused for the reason the abstract machine has.
LEMMA StepRefines == TypeOK /\ vm_step => Machine!Next
<1> SUFFICES ASSUME TypeOK, vm_step PROVE Machine!Next
  OBVIOUS
<1>v. /\ Stk \in Seq(Word) /\ Len(Stk) = sp
      /\ Out \in Seq(Word) /\ Len(Out) = out_len
      /\ Stk # << >> <=> sp > 0
      /\ sp > 0 => Stk[Len(Stk)] = Top
      /\ sp >= 2 => Stk[Len(Stk) - 1] = Below
  BY Views
<1>n. /\ sp \in 0 .. STACK_SIZE /\ out_len \in 0 .. OUTPUT_SIZE
      /\ pc \in 0 .. Len(code) /\ Len(code) \in Nat
      /\ pc \in pc .. Len(code)
      /\ \A op : At(op) => pc + 1 \in pc .. Len(code)
  <2>1. pc \in 0 .. Len(code) /\ Len(code) \in Nat
    BY LenProperties DEF TypeOK
  <2>2. \A op : At(op) => pc + 1 \in pc .. Len(code)
    BY <2>1 DEF At
  <2> QED BY <2>1, <2>2 DEF TypeOK
<1>1. CASE StepPush
  <2>1. CASE HasOperand /\ sp < STACK_SIZE
    <3>1. vm_push(Signed8(Operand)) /\ pc' = pc + 2
      BY <1>1, <2>1 DEF StepPush
    <3>2. Machine!Put(Append(Stk, Signed8(Operand)), 2)
      BY <2>1, <3>1, PushShows, Puts, Results
    <3>3. Machine!Execute
      BY <1>1, <2>1, <3>2, SameCode DEF StepPush, Machine!Execute, Stk
    <3> QED BY <3>3 DEF Machine!Next
  <2>2. CASE HasOperand /\ ~(sp < STACK_SIZE)
    <3>1. Fail("VM_ERR_STACK_OVERFLOW") /\ pc' = pc + 2 /\ sp = STACK_SIZE
      BY <1>1, <1>n, <2>2, VMAssumption DEF StepPush, vm_push
    <3>2. pc + 2 \in pc .. Len(code)
      BY <1>n, <2>2 DEF HasOperand
    <3> QED BY <1>1, <1>v, <3>1, <3>2, Refusals DEF StepPush
  <2>3. CASE ~HasOperand
    BY <1>1, <1>n, <2>3, Refusals DEF StepPush
  <2> QED BY <2>1, <2>2, <2>3
<1>o. HasOperand => Operand \in Int
  <2>1. HasOperand => Operand \in 0 .. 255
    BY Results
  <2> QED BY <2>1
<1>m. /\ Machine!Top = Stk[Len(Stk)] /\ Machine!Below = Stk[Len(Stk) - 1]
      /\ \A k : Machine!Drop(k) = SubSeq(Stk, 1, Len(Stk) - k)
  BY DEF Machine!Top, Machine!Below, Machine!Drop, Stk
<1>2. CASE StepPop
  <2>1. CASE sp > 0
    <3>1. /\ sp' = sp - 1 /\ stack' = stack /\ Out' = Out /\ code' = code
          /\ status' = "VM_OK" /\ pc' = pc + 1
      BY <1>2, <2>1 DEF StepPop, vm_pop, Report, Fail, Out
    <3>2. Machine!Put(SubSeq(Stk, 1, Len(Stk) - 1), 1)
      BY <2>1, <3>1, PopShows, Puts
    <3>3. Machine!Execute
      BY <1>2, <1>m, <1>v, <2>1, <3>2, SameCode DEF StepPop, Machine!Execute, Stk
    <3> QED BY <3>3 DEF Machine!Next
  <2>2. CASE ~(sp > 0)
    <3>1. Fail("VM_ERR_STACK_UNDERFLOW") /\ pc' = pc + 1 /\ sp = 0
      BY <1>2, <1>n, <2>2, VMAssumption DEF StepPop, vm_pop
    <3>2. Machine!Needs(1)
      BY <1>2, SameCode DEF StepPop, Machine!Needs
    <3> QED BY <1>2, <1>n, <1>v, <3>1, <3>2, Refusals DEF StepPop
  <2> QED BY <2>1, <2>2
<1>3. CASE StepDup
  <2>1. CASE sp > 0 /\ sp < STACK_SIZE
    <3>1. vm_push(Top) /\ pc' = pc + 1 /\ Top \in Word
      BY <1>3, <2>1, Results DEF StepDup
    <3>2. Machine!Put(Append(Stk, Top), 1)
      BY <2>1, <3>1, PushShows, Puts
    <3>3. Machine!Execute
      BY <1>3, <1>m, <1>v, <2>1, <3>2, SameCode DEF StepDup, Machine!Execute, Stk
    <3> QED BY <3>3 DEF Machine!Next
  <2>2. CASE sp > 0 /\ ~(sp < STACK_SIZE)
    <3>1. Fail("VM_ERR_STACK_OVERFLOW") /\ pc' = pc + 1 /\ sp = STACK_SIZE
      BY <1>3, <1>n, <2>2, VMAssumption DEF StepDup, vm_push
    <3> QED BY <1>3, <1>n, <1>v, <3>1, Refusals DEF StepDup
  <2>3. CASE ~(sp > 0)
    <3>1. Fail("VM_ERR_STACK_UNDERFLOW") /\ pc' = pc + 1 /\ sp = 0
      BY <1>3, <1>n, <2>3, VMAssumption DEF StepDup
    <3>2. Machine!Needs(1)
      BY <1>3, SameCode DEF StepDup, Machine!Needs
    <3> QED BY <1>3, <1>n, <1>v, <3>1, <3>2, Refusals DEF StepDup
  <2> QED BY <2>1, <2>2, <2>3
<1>4. CASE StepAdd
  <2>1. CASE sp >= 2
    <3>1. Arithmetic(Top + Below) /\ pc' = pc + 1 /\ At(OP_ADD)
      BY <1>4 DEF StepAdd
    <3>2. Top + Below \in Int /\ Below + Top = Top + Below
      BY <2>1, Results, Operands
    <3>3. Machine!Put(Append(SubSeq(Stk, 1, Len(Stk) - 2), Wrap(Top + Below)), 1)
      BY <2>1, <3>1, <3>2, ArithmeticShows, Puts
    <3>4. Machine!Compute(OP_ADD, Below + Top)
      BY <1>m, <1>v, <2>1, <3>1, <3>2, <3>3, SameCode DEF Machine!Compute, Stk
    <3>5. Machine!Top = Top /\ Machine!Below = Below
      BY <1>m, <1>v, <1>n, <2>1, VMAssumption
    <3> QED BY <3>4, <3>5, SameCode DEF Machine!Execute, Machine!Next
  <2>2. CASE ~(sp >= 2)
    <3>1. /\ Fail("VM_ERR_STACK_UNDERFLOW") /\ pc' = pc + 1 /\ sp < 2
          /\ At(OP_ADD)
      BY <1>4, <1>n, <2>2, VMAssumption DEF StepAdd, Arithmetic
    <3>2. Machine!Needs(2)
      BY <3>1, SameCode DEF Machine!Needs
    <3> QED BY <1>n, <1>v, <3>1, <3>2, Refusals
  <2> QED BY <2>1, <2>2
<1>5. CASE StepSub
  <2>1. CASE sp >= 2
    <3>1. Arithmetic(Below - Top) /\ pc' = pc + 1 /\ At(OP_SUB)
      BY <1>5 DEF StepSub
    <3>2. Below - Top \in Int /\ Below - Top = Below - Top
      BY <2>1, Results, Operands
    <3>3. Machine!Put(Append(SubSeq(Stk, 1, Len(Stk) - 2), Wrap(Below - Top)), 1)
      BY <2>1, <3>1, <3>2, ArithmeticShows, Puts
    <3>4. Machine!Compute(OP_SUB, Below - Top)
      BY <1>m, <1>v, <2>1, <3>1, <3>2, <3>3, SameCode DEF Machine!Compute, Stk
    <3>5. Machine!Top = Top /\ Machine!Below = Below
      BY <1>m, <1>v, <1>n, <2>1, VMAssumption
    <3> QED BY <3>4, <3>5, SameCode DEF Machine!Execute, Machine!Next
  <2>2. CASE ~(sp >= 2)
    <3>1. /\ Fail("VM_ERR_STACK_UNDERFLOW") /\ pc' = pc + 1 /\ sp < 2
          /\ At(OP_SUB)
      BY <1>5, <1>n, <2>2, VMAssumption DEF StepSub, Arithmetic
    <3>2. Machine!Needs(2)
      BY <3>1, SameCode DEF Machine!Needs
    <3> QED BY <1>n, <1>v, <3>1, <3>2, Refusals
  <2> QED BY <2>1, <2>2
<1>6. CASE StepMul
  <2>1. CASE sp >= 2
    <3>1. Arithmetic(Top * Below) /\ pc' = pc + 1 /\ At(OP_MUL)
      BY <1>6 DEF StepMul
    <3>2. Top * Below \in Int /\ Below * Top = Top * Below
      BY <2>1, Results, Operands
    <3>3. Machine!Put(Append(SubSeq(Stk, 1, Len(Stk) - 2), Wrap(Top * Below)), 1)
      BY <2>1, <3>1, <3>2, ArithmeticShows, Puts
    <3>4. Machine!Compute(OP_MUL, Below * Top)
      BY <1>m, <1>v, <2>1, <3>1, <3>2, <3>3, SameCode DEF Machine!Compute, Stk
    <3>5. Machine!Top = Top /\ Machine!Below = Below
      BY <1>m, <1>v, <1>n, <2>1, VMAssumption
    <3> QED BY <3>4, <3>5, SameCode DEF Machine!Execute, Machine!Next
  <2>2. CASE ~(sp >= 2)
    <3>1. /\ Fail("VM_ERR_STACK_UNDERFLOW") /\ pc' = pc + 1 /\ sp < 2
          /\ At(OP_MUL)
      BY <1>6, <1>n, <2>2, VMAssumption DEF StepMul, Arithmetic
    <3>2. Machine!Needs(2)
      BY <3>1, SameCode DEF Machine!Needs
    <3> QED BY <1>n, <1>v, <3>1, <3>2, Refusals
  <2> QED BY <2>1, <2>2
<1>7. CASE StepJmp
  <2>1. CASE CanJump
    <3>1. /\ pc' = Operand /\ status' = "VM_OK" /\ Stk' = Stk /\ Out' = Out
          /\ code' = code /\ At(OP_JMP) /\ HasOperand /\ Operand < Len(code)
      BY <1>7, <2>1 DEF StepJmp, CanJump, Report, Stk, Out
    <3>2. Machine!Goto
      BY <3>1, SameCode DEF Machine!Goto, Out
    <3>3. Machine!Execute
      BY <3>1, <3>2, SameCode DEF Machine!Execute, Stk
    <3> QED BY <3>3 DEF Machine!Next
  <2>2. CASE ~CanJump
    <3>1. Fail("VM_ERR_PC_OUT_OF_RANGE") /\ pc' = pc /\ At(OP_JMP)
      BY <1>7, <2>2 DEF StepJmp, Fail
    <3>2. ~HasOperand \/ (HasOperand /\ Operand >= Len(code))
      BY <1>n, <1>o, <2>2 DEF CanJump
    <3> QED BY <1>n, <3>1, <3>2, Refusals
  <2> QED BY <2>1, <2>2
<1>8. CASE StepJz
  <2>1. CASE CanJump /\ sp > 0
    <3>1. /\ At(OP_JZ) /\ HasOperand /\ Operand < Len(code) /\ vm_pop
          /\ pc' = IF Top = 0 THEN Operand ELSE pc + 2
      BY <1>8, <1>n, <2>1, VMAssumption DEF StepJz, CanJump
    <3>2. /\ sp' = sp - 1 /\ stack' = stack /\ Out' = Out /\ code' = code
          /\ status' = "VM_OK"
      BY <2>1, <3>1, VMAssumption DEF vm_pop, Report, Fail, Out
    <3>3. Stk' = SubSeq(Stk, 1, Len(Stk) - 1) /\ Machine!Top = Top
      BY <1>m, <1>v, <2>1, <3>2, PopShows
    <3>4. IF Machine!Top = 0 THEN Machine!Goto
          ELSE Machine!Done(2) /\ Out' = Out
      BY <3>1, <3>2, <3>3, SameCode DEF Machine!Goto, Machine!Done, Out
    <3>5. Machine!Execute
      BY <1>m, <1>v, <2>1, <3>1, <3>3, <3>4, SameCode
      DEF Machine!Execute, Stk, Out
    <3> QED BY <3>5 DEF Machine!Next
  <2>2. CASE CanJump /\ ~(sp > 0)
    <3>1. Fail("VM_ERR_STACK_UNDERFLOW") /\ pc' = pc /\ sp = 0 /\ At(OP_JZ)
      BY <1>8, <1>n, <2>2, VMAssumption DEF StepJz, vm_pop
    <3>2. Machine!Needs(1)
      BY <3>1, SameCode DEF Machine!Needs
    <3> QED BY <1>n, <1>v, <3>1, <3>2, Refusals
  <2>3. CASE ~CanJump
    <3>1. Fail("VM_ERR_PC_OUT_OF_RANGE") /\ pc' = pc /\ At(OP_JZ)
      BY <1>8, <2>3 DEF StepJz
    <3>2. ~HasOperand \/ (HasOperand /\ Operand >= Len(code))
      BY <1>n, <1>o, <2>3 DEF CanJump
    <3> QED BY <1>n, <3>1, <3>2, Refusals
  <2> QED BY <2>1, <2>2, <2>3
<1>9. CASE StepPrint
  <2>1. CASE sp > 0 /\ out_len < OUTPUT_SIZE
    <3>1. /\ At(OP_PRINT) /\ sp' = sp - 1 /\ stack' = stack /\ code' = code
          /\ output' = [output EXCEPT ![out_len] = Top]
          /\ out_len' = out_len + 1 /\ status' = "VM_OK" /\ pc' = pc + 1
      BY <1>9, <1>n, <2>1, VMAssumption DEF StepPrint, Report
    <3>2. Stk' = SubSeq(Stk, 1, Len(Stk) - 1) /\ Machine!Top = Top
      BY <1>m, <1>v, <2>1, <3>1, PopShows
    <3>3. Out' = Append(Out, Top)
      <4>1. /\ out_len \in 0 .. OUTPUT_SIZE - 1 /\ Top \in Word
            /\ output \in [0 .. OUTPUT_SIZE - 1 -> Word]
        BY <1>n, <2>1, Results, VMAssumption DEF TypeOK
      <4> QED BY <3>1, <4>1, FrontAppend, VMAssumption DEF Out
    <3>4. Machine!Execute
      BY <1>m, <1>v, <2>1, <3>1, <3>2, <3>3, SameCode
      DEF Machine!Execute, Machine!Done, Stk, Out
    <3> QED BY <3>4 DEF Machine!Next
  <2>2. CASE sp > 0 /\ ~(out_len < OUTPUT_SIZE)
    <3>1. /\ Fail("VM_ERR_OUTPUT_BUFF_OVERFLOW") /\ pc' = pc + 1
          /\ out_len = OUTPUT_SIZE /\ At(OP_PRINT)
      BY <1>9, <1>n, <2>2, VMAssumption DEF StepPrint
    <3> QED BY <1>n, <1>v, <3>1, Refusals
  <2>3. CASE ~(sp > 0)
    <3>1. /\ Fail("VM_ERR_STACK_UNDERFLOW") /\ pc' = pc + 1 /\ sp = 0
          /\ At(OP_PRINT)
      BY <1>9, <1>n, <2>3, VMAssumption DEF StepPrint
    <3>2. Machine!Needs(1)
      BY <3>1, SameCode DEF Machine!Needs
    <3> QED BY <1>n, <1>v, <3>1, <3>2, Refusals
  <2> QED BY <2>1, <2>2, <2>3
<1>10. CASE StepHalt
  BY <1>10, <1>n, Refusals DEF StepHalt
<1>11. CASE StepBad
  BY <1>11, <1>n, Refusals DEF StepBad
<1>12. CASE StepOutside
  BY <1>12, <1>n, Refusals DEF StepOutside
<1> QED BY <1>1, <1>2, <1>3, <1>4, <1>5, <1>6, <1>7, <1>8, <1>9, <1>10,
           <1>11, <1>12 DEF vm_step

\* A call of vm_run is not a step of the abstract machine.
LEMMA NextRefines ==
  TypeOK /\ [Next]_vars
    => [Machine!Next]_<<code, pc, Cells(stack, sp), Cells(output, out_len),
                        status>>
<1> SUFFICES ASSUME TypeOK, [Next]_vars
             PROVE  [Machine!Next]_<<code, pc, Cells(stack, sp),
                                     Cells(output, out_len), status>>
  OBVIOUS
<1>1. CASE vm_step
  BY <1>1, StepRefines
<1>2. CASE RunCall
  BY <1>2 DEF RunCall, machine
<1>3. CASE UNCHANGED vars
  BY <1>3 DEF vars
<1> QED BY <1>1, <1>2, <1>3 DEF Next

\* Every behaviour of vm.c is one of the abstract stack machine: whatever the
\* program, an instruction takes effect as a whole or, when it reports an
\* error, leaves the stack and the output alone.
THEOREM RefinesMachine == Spec => MachineSpec
<1>1. Init => Machine!Init
  BY InitRefines
<1>2. Spec => [][Machine!Next]_<<code, pc, Cells(stack, sp),
                                 Cells(output, out_len), status>>
  BY NextRefines, TypeCorrect, PTL DEF Spec
<1> QED BY <1>1, <1>2, PTL DEF Spec, MachineSpec, Machine!Spec
=============================================================================
