------------------------------ MODULE PingPong ------------------------------
(***************************************************************************)
(* dma_ping_pong_buffer.c: the DMA interrupt fills one of two buffers      *)
(* while the main loop copies the other.  The interrupt runs to its end    *)
(* between any two steps of the main loop, whose steps are its accesses to *)
(* the shared fields.  A sample is the number of the block it came with.   *)
(***************************************************************************)
EXTENDS Integers

CONSTANTS BUFFER_SIZE,
          MAX_BLOCKS,      \* bound on the blocks the DMA delivers
          INTERRUPTS       \* how many may interrupt one process_ready_buffer

ASSUME PingPongAssumption ==
  BUFFER_SIZE \in Nat \ {0} /\ MAX_BLOCKS \in Nat /\ INTERRUPTS \in Nat

VARIABLES buffer,           \* buffer_a and buffer_b
          dma_filling_a, buffer_ready,
          phase, source, copied,     \* process_ready_buffer
          out,              \* what it has copied
          blocks,           \* blocks delivered by the DMA so far
          taken,            \* the last block handed to the program
          interrupts        \* interrupts during this process_ready_buffer

pingPongVars == <<buffer, dma_filling_a, buffer_ready, phase, source, copied,
                  out, blocks, taken, interrupts>>

Cells == 0 .. BUFFER_SIZE - 1

\* pp_init
PingPongInit == /\ buffer = [b \in {"a", "b"} |-> [j \in Cells |-> 0]]
                /\ dma_filling_a = TRUE /\ buffer_ready = FALSE
                /\ phase = "idle" /\ source = "a" /\ copied = 0
                /\ out = [j \in Cells |-> 0]
                /\ blocks = 0 /\ taken = 0 /\ interrupts = 0

Filling == IF dma_filling_a THEN "a" ELSE "b"
dma_isr_simulate ==
  /\ blocks < MAX_BLOCKS
  /\ phase # "idle" => interrupts < INTERRUPTS
  /\ blocks' = blocks + 1
  /\ interrupts' = IF phase = "idle" THEN 0 ELSE interrupts + 1
  /\ buffer' = [buffer EXCEPT ![Filling] = [j \in Cells |-> blocks']]
  /\ dma_filling_a' = ~dma_filling_a
  /\ buffer_ready' = TRUE
  /\ UNCHANGED <<phase, source, copied, out, taken>>

shared == <<buffer, dma_filling_a, blocks>>

\* if (buffer_ready == true)
CheckReady == /\ phase = "idle" /\ buffer_ready
              /\ phase' = "choose" /\ interrupts' = 0
              /\ UNCHANGED <<shared, buffer_ready, source, copied, out, taken>>

\* Slip: the buffer the DMA is filling is copied.
ChooseFilling == Filling
FullBuffer == IF dma_filling_a THEN "b" ELSE "a"
\* if (dma_filling_a == false)
ChooseBuffer == /\ phase = "choose"
                /\ source' = FullBuffer
                /\ phase' = "copy" /\ copied' = 0
                /\ UNCHANGED <<shared, buffer_ready, out, taken, interrupts>>

CopySample == /\ phase = "copy" /\ copied < BUFFER_SIZE
              /\ out' = [out EXCEPT ![copied] = buffer[source][copied]]
              /\ copied' = copied + 1
              /\ UNCHANGED <<shared, buffer_ready, phase, source, taken,
                             interrupts>>

\* Slip: the buffer is still marked ready when the copy is done.
HandOverAgain == /\ phase = "copy" /\ copied = BUFFER_SIZE
                 /\ phase' = "idle" /\ taken' = out[0]
                 /\ UNCHANGED <<shared, buffer_ready, source, copied, out,
                                interrupts>>
HandOver == /\ phase = "copy" /\ copied = BUFFER_SIZE
            /\ buffer_ready' = FALSE
            /\ phase' = "idle" /\ taken' = out[0]
            /\ UNCHANGED <<shared, source, copied, out, interrupts>>

process_ready_buffer == CheckReady \/ ChooseBuffer \/ CopySample \/ HandOver

PingPongNext == dma_isr_simulate \/ process_ready_buffer

PingPongSpec == PingPongInit /\ [][PingPongNext]_pingPongVars

-----------------------------------------------------------------------------
\* A copy is never torn: what is handed over is one block, as long as a copy
\* takes no longer than the DMA needs for a block.
Untorn == (phase = "copy" /\ copied = BUFFER_SIZE) =>
            \A j \in Cells : out[j] = out[0]

\* No block is handed over twice, nor an older one after a newer one.
NewerEachTime ==
  [][(phase = "copy" /\ phase' = "idle") => taken' > taken]_pingPongVars

PingPongTypeOK ==
  /\ buffer \in [{"a", "b"} -> [Cells -> 0 .. MAX_BLOCKS]]
  /\ dma_filling_a \in BOOLEAN /\ buffer_ready \in BOOLEAN
  /\ phase \in {"idle", "choose", "copy"} /\ source \in {"a", "b"}
  /\ copied \in 0 .. BUFFER_SIZE
  /\ out \in [Cells -> 0 .. MAX_BLOCKS]
  /\ blocks \in 0 .. MAX_BLOCKS /\ taken \in 0 .. MAX_BLOCKS
  /\ interrupts \in 0 .. INTERRUPTS
=============================================================================
