---------------------------- MODULE StackMachine ----------------------------
(***************************************************************************)
(* What the virtual machine promises, on sequences of values: every        *)
(* instruction takes its operands off the top of the stack and puts its    *)
(* result there, in the order the program wrote them, a printed value goes *)
(* to the end of the output, and an instruction that cannot be executed    *)
(* reports why and leaves both the stack and the output alone.             *)
(***************************************************************************)
EXTENDS VMCode, Sequences

CONSTANTS STACK_SIZE, OUTPUT_SIZE

VARIABLES code,     \* the program's bytes
          pc,       \* index of the next byte, from 0
          stk,      \* the values on the stack, the top one last
          out,      \* the values printed
          status    \* what the last instruction returned

At(op) == pc < Len(code) /\ code[pc + 1] = op
HasOperand == pc + 1 < Len(code)
Operand == code[pc + 2]
Top == stk[Len(stk)]
Below == stk[Len(stk) - 1]
Drop(n) == SubSeq(stk, 1, Len(stk) - n)

Init == pc = 0 /\ stk = << >> /\ out = << >> /\ status = "VM_OK"

Done(length) == pc' = pc + length /\ status' = "VM_OK" /\ UNCHANGED code

\* Nothing is executed: the program counter may already be past the opcode.
Fault(error) == /\ status' = error
                /\ pc' \in pc .. Len(code)
                /\ UNCHANGED <<code, stk, out>>

Put(s, length) == Len(s) <= STACK_SIZE /\ stk' = s
                  /\ Done(length) /\ UNCHANGED out

Compute(op, result) == /\ At(op) /\ Len(stk) >= 2
                       /\ Put(Append(Drop(2), Wrap(result)), 1)

Goto == pc' = Operand /\ Operand < Len(code)
        /\ status' = "VM_OK" /\ UNCHANGED <<code, out>>

Execute ==
  \/ At(OP_PUSH) /\ HasOperand /\ Put(Append(stk, Signed8(Operand)), 2)
  \/ At(OP_POP) /\ stk # << >> /\ Put(Drop(1), 1)
  \/ At(OP_DUP) /\ stk # << >> /\ Put(Append(stk, Top), 1)
  \/ Compute(OP_ADD, Below + Top)
  \/ Compute(OP_SUB, Below - Top)
  \/ Compute(OP_MUL, Below * Top)
  \/ At(OP_JMP) /\ HasOperand /\ Goto /\ UNCHANGED stk
  \/ /\ At(OP_JZ) /\ HasOperand /\ Operand < Len(code) /\ stk # << >>
     /\ IF Top = 0 THEN Goto ELSE Done(2) /\ UNCHANGED out
     /\ stk' = Drop(1)
  \/ /\ At(OP_PRINT) /\ stk # << >> /\ Len(out) < OUTPUT_SIZE
     /\ out' = Append(out, Top) /\ stk' = Drop(1) /\ Done(1)

Needs(n) == \/ n = 1 /\ \E op \in {OP_POP, OP_DUP, OP_PRINT, OP_JZ} : At(op)
            \/ n = 2 /\ \E op \in {OP_ADD, OP_SUB, OP_MUL} : At(op)
Jumps == At(OP_JMP) \/ At(OP_JZ)

Refuse ==
  \/ At(OP_HALT) /\ pc' = pc /\ Fault("VM_HALTED")
  \/ /\ \E n \in 1..2 : Needs(n) /\ Len(stk) < n
     /\ Fault("VM_ERR_STACK_UNDERFLOW")
  \/ /\ At(OP_PUSH) \/ At(OP_DUP)
     /\ Len(stk) = STACK_SIZE
     /\ Fault("VM_ERR_STACK_OVERFLOW")
  \/ /\ At(OP_PRINT) /\ Len(out) = OUTPUT_SIZE
     /\ Fault("VM_ERR_OUTPUT_BUFF_OVERFLOW")
  \/ /\ \/ pc >= Len(code)
        \/ (At(OP_PUSH) \/ Jumps) /\ ~HasOperand
        \/ Jumps /\ HasOperand /\ Operand >= Len(code)
     /\ pc' = pc /\ Fault("VM_ERR_PC_OUT_OF_RANGE")
  \/ /\ pc < Len(code) /\ code[pc + 1] \notin Opcodes
     /\ pc' = pc /\ Fault("VM_ERR_BAD_OPCODE")

Next == Execute \/ Refuse

Spec == Init /\ [][Next]_<<code, pc, stk, out, status>>
=============================================================================
