-------------------------------- MODULE MCVM --------------------------------
(***************************************************************************)
(* Every program of up to four bytes, and the longer ones that need more  *)
(* instructions than that to reach a case, some of them from vm_tests.c.   *)
(***************************************************************************)
EXTENDS VM, SequencesExt

Bytes == (0 .. 9) \cup {255}

LongPrograms == {
  <<1, 2, 1, 3, 4, 9, 255>>,                             \* t_add
  <<1, 10, 1, 3, 5, 9, 255>>,                            \* t_sub_order
  <<1, 4, 3, 6, 9, 1, 1, 1, 2, 2, 9, 255>>,              \* t_dup_pop
  <<1, 1, 9, 1, 2, 9, 1, 3, 9, 255>>,                    \* t_multiple_prints
  <<7, 5, 1, 1, 9, 1, 9, 9, 255>>,                       \* t_jmp
  <<1, 0, 8, 7, 1, 1, 9, 1, 2, 9, 255>>,                 \* t_jz_taken
  <<1, 5, 8, 9, 1, 1, 9, 255, 255, 1, 2, 9, 255>>,       \* t_jz_not_taken
  <<1, 3, 3, 9, 1, 1, 5, 3, 8, 14, 7, 2, 255, 255, 255>>, \* t_countdown
  <<1, 0, 8, 200, 255>>,                                 \* t_jump_out_of_range
  <<1, 0, 8>>,                                           \* t_truncated_operand
  <<1, 127, 3, 6, 3, 4, 9, 255>>,                        \* overflows by * and +
  <<1, 128, 1, 127, 5, 9, 255>>,                         \* overflows by -
  <<1, 1, 1, 2, 1, 3, 4, 255>>,                          \* one push too many
  <<1, 1, 3, 3, 4, 7, 2>>,                               \* loops on an error
  <<1, 0, 8, 0>>,                                        \* loops for ever
  <<1, 1, 8, 200, 8, 2, 8, 0>>
}

MCPrograms == BoundedSeq(Bytes, 4) \cup LongPrograms
=============================================================================
