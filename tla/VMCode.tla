------------------------------- MODULE VMCode -------------------------------
(***************************************************************************)
(* What vm.c fixes about its bytecode and its values.                      *)
(***************************************************************************)
EXTENDS Integers

CONSTANT HALF          \* int32_t holds -HALF .. HALF-1
ASSUME HalfAssumption == HALF \in Nat /\ HALF >= 128

\* opcode_t
OP_PUSH == 1
OP_POP == 2
OP_DUP == 3
OP_ADD == 4
OP_SUB == 5
OP_MUL == 6
OP_JMP == 7
OP_JZ == 8
OP_PRINT == 9
OP_HALT == 255
Opcodes == {OP_PUSH, OP_POP, OP_DUP, OP_ADD, OP_SUB, OP_MUL, OP_JMP, OP_JZ,
            OP_PRINT, OP_HALT}

\* vm_status_t
Statuses == {"VM_OK", "VM_HALTED", "VM_ERR_STACK_OVERFLOW",
             "VM_ERR_STACK_UNDERFLOW", "VM_ERR_BAD_OPCODE",
             "VM_ERR_PC_OUT_OF_RANGE", "VM_ERR_OUTPUT_BUFF_OVERFLOW"}

Word == -HALF .. HALF - 1

\* (int8_t) of a code byte
Signed8(b) == IF b < 128 THEN b ELSE b - 256

\* The int32_t a two's complement build leaves for the result n.
Wrap(n) == ((n + HALF) % (2 * HALF)) - HALF
=============================================================================
