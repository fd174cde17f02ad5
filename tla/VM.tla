--------------------------------- MODULE VM ---------------------------------
(***************************************************************************)
(* vm.c: a stack machine over bytecode.  An action is one vm_step, chosen  *)
(* by the opcode at pc; the caller steps by hand or calls vm_run, which    *)
(* steps until a status other than VM_OK comes back.  Nothing stops the    *)
(* caller from stepping on after an error.                                 *)
(***************************************************************************)
EXTENDS VMCode, Sequences

CONSTANTS STACK_SIZE, OUTPUT_SIZE,
          Programs     \* the byte sequences the machine may be given

ASSUME VMAssumption ==
  /\ STACK_SIZE \in Nat /\ OUTPUT_SIZE \in Nat
  /\ Programs \subseteq Seq(0 .. 255)

VARIABLES code, pc, stack, sp, output, out_len,
          status,    \* what the last vm_step returned
          running    \* vm_run is in its loop

machine == <<code, pc, stack, sp, output, out_len>>
vars == <<code, pc, stack, sp, output, out_len, status, running>>

\* vm_init
Init == /\ code \in Programs
        /\ pc = 0 /\ sp = 0 /\ out_len = 0
        /\ stack = [i \in 0 .. STACK_SIZE - 1 |-> 0]
        /\ output = [i \in 0 .. OUTPUT_SIZE - 1 |-> 0]
        /\ status = "VM_OK" /\ running = FALSE

At(op) == pc < Len(code) /\ code[pc + 1] = op
HasOperand == pc + 1 < Len(code)
Operand == code[pc + 2]
Top == stack[sp - 1]
Below == stack[sp - 2]

\* Slip: vm_run stops for OP_HALT alone.
ReportHaltOnly(s) == status' = s /\ running' = (running /\ s # "VM_HALTED")
\* vm_step's return: vm_run goes round its loop again only on VM_OK.
Report(s) == status' = s /\ running' = (running /\ s = "VM_OK")
\* An error return leaves stack and output as they are.
Fail(s) == Report(s) /\ UNCHANGED <<code, stack, sp, output, out_len>>

-----------------------------------------------------------------------------
(* The stack                                                               *)

vm_push(v) == \/ /\ sp < STACK_SIZE
                 /\ stack' = [stack EXCEPT ![sp] = v]
                 /\ sp' = sp + 1
                 /\ Report("VM_OK") /\ UNCHANGED <<code, output, out_len>>
              \/ sp >= STACK_SIZE /\ Fail("VM_ERR_STACK_OVERFLOW")

vm_pop == \/ /\ sp > 0
             /\ sp' = sp - 1
             /\ Report("VM_OK") /\ UNCHANGED <<code, stack, output, out_len>>
          \/ sp = 0 /\ Fail("VM_ERR_STACK_UNDERFLOW")

\* Two pops and the push of the result, into the lower one's slot.
Arithmetic(result) ==
  \/ /\ sp >= 2
     /\ stack' = [stack EXCEPT ![sp - 2] = Wrap(result)]
     /\ sp' = sp - 1
     /\ Report("VM_OK") /\ UNCHANGED <<code, output, out_len>>
  \/ sp < 2 /\ Fail("VM_ERR_STACK_UNDERFLOW")

-----------------------------------------------------------------------------
(* The instructions.  pc moves past a stack instruction whatever it        *)
(* returned; it stays at one that lacks its operand or cannot jump.        *)

StepPush == /\ At(OP_PUSH)
            /\ \/ HasOperand /\ vm_push(Signed8(Operand)) /\ pc' = pc + 2
               \/ ~HasOperand /\ Fail("VM_ERR_PC_OUT_OF_RANGE") /\ pc' = pc

StepPop == At(OP_POP) /\ vm_pop /\ pc' = pc + 1

StepDup == /\ At(OP_DUP)
           /\ \/ sp > 0 /\ vm_push(Top)
              \/ sp = 0 /\ Fail("VM_ERR_STACK_UNDERFLOW")
           /\ pc' = pc + 1

StepAdd == At(OP_ADD) /\ Arithmetic(Top + Below) /\ pc' = pc + 1
StepSub == At(OP_SUB) /\ Arithmetic(Below - Top) /\ pc' = pc + 1
StepMul == At(OP_MUL) /\ Arithmetic(Top * Below) /\ pc' = pc + 1

\* The operand of a jump is there and inside the code.
CanJump == HasOperand /\ Operand < Len(code)

StepJmp == /\ At(OP_JMP)
           /\ \/ CanJump /\ pc' = Operand /\ Report("VM_OK")
              \/ ~CanJump /\ pc' = pc /\ Report("VM_ERR_PC_OUT_OF_RANGE")
           /\ UNCHANGED <<code, stack, sp, output, out_len>>

\* Slip: the value is popped before the address is checked.
JzPopsFirst ==
  /\ At(OP_JZ)
  /\ \/ /\ HasOperand /\ vm_pop
        /\ pc' = IF sp = 0 \/ Operand >= Len(code) THEN pc
                 ELSE IF Top = 0 THEN Operand ELSE pc + 2
     \/ ~HasOperand /\ pc' = pc /\ Fail("VM_ERR_PC_OUT_OF_RANGE")
StepJz == /\ At(OP_JZ)
          /\ \/ ~CanJump /\ pc' = pc /\ Fail("VM_ERR_PC_OUT_OF_RANGE")
             \/ CanJump /\ sp = 0 /\ pc' = pc /\ vm_pop
             \/ CanJump /\ sp > 0 /\ Top = 0 /\ pc' = Operand /\ vm_pop
             \/ CanJump /\ sp > 0 /\ Top # 0 /\ pc' = pc + 2 /\ vm_pop

\* vm_print: the room in output is checked before anything is popped.
StepPrint ==
  /\ At(OP_PRINT)
  /\ \/ sp = 0 /\ Fail("VM_ERR_STACK_UNDERFLOW")
     \/ sp > 0 /\ out_len >= OUTPUT_SIZE /\ Fail("VM_ERR_OUTPUT_BUFF_OVERFLOW")
     \/ /\ sp > 0 /\ out_len < OUTPUT_SIZE
        /\ sp' = sp - 1
        /\ output' = [output EXCEPT ![out_len] = Top]
        /\ out_len' = out_len + 1
        /\ Report("VM_OK") /\ UNCHANGED <<code, stack>>
  /\ pc' = pc + 1

\* Slip: pc moves past the halt.
HaltMovesOn == At(OP_HALT) /\ pc' = pc + 1 /\ Fail("VM_HALTED")
StepHalt == At(OP_HALT) /\ pc' = pc /\ Fail("VM_HALTED")

StepBad == /\ pc < Len(code) /\ code[pc + 1] \notin Opcodes
           /\ pc' = pc /\ Fail("VM_ERR_BAD_OPCODE")

StepOutside == pc >= Len(code) /\ pc' = pc /\ Fail("VM_ERR_PC_OUT_OF_RANGE")

vm_step == \/ StepPush \/ StepPop \/ StepDup
           \/ StepAdd \/ StepSub \/ StepMul
           \/ StepJmp \/ StepJz \/ StepPrint
           \/ StepHalt \/ StepBad \/ StepOutside

\* vm_run is called.
RunCall == ~running /\ running' = TRUE /\ UNCHANGED <<machine, status>>

Next == RunCall \/ vm_step

\* vm_run is a loop in one thread: it takes its next turn.
Spec == Init /\ [][Next]_vars /\ WF_vars(running /\ vm_step)

-----------------------------------------------------------------------------
\* The indices stay in their arrays, whatever bytes the program is made of.
TypeOK == /\ code \in Seq(0 .. 255)
          /\ pc \in 0 .. Len(code)
          /\ sp \in 0 .. STACK_SIZE
          /\ out_len \in 0 .. OUTPUT_SIZE
          /\ stack \in [0 .. STACK_SIZE - 1 -> Word]
          /\ output \in [0 .. OUTPUT_SIZE - 1 -> Word]
          /\ status \in Statuses
          /\ running \in BOOLEAN

\* The first k cells of an array, as a sequence.
Cells(array, k) == [i \in 1 .. k |-> array[i - 1]]

\* vm_step implements the stack machine: an instruction takes effect as a
\* whole or, when it fails, not at all.
Machine == INSTANCE StackMachine WITH
             stk <- Cells(stack, sp), out <- Cells(output, out_len)
MachineSpec == Machine!Spec

\* A program that has halted, met an unknown byte or left its code stays
\* there: stepping or running it again changes nothing and gives the same
\* answer.
Fatal == {"VM_HALTED", "VM_ERR_BAD_OPCODE", "VM_ERR_PC_OUT_OF_RANGE"}
FatalIsFinal == [][(status \in Fatal) => UNCHANGED <<machine, status>>]_vars

\* No byte that could be a jump is followed by an address at or before it.
JumpsForward ==
  \A i \in 1 .. Len(code) - 1 :
    code[i] \in {OP_JMP, OP_JZ} => code[i + 1] > i - 1

\* vm_run of a program that only jumps forward comes back.
Terminates == (running /\ JumpsForward) ~> ~running
=============================================================================
