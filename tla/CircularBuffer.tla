--------------------------- MODULE CircularBuffer ---------------------------
(***************************************************************************)
(* circular_buffer.c: a lock-free ring of BUFFER_SIZE samples.  cb_push is *)
(* called from an interrupt, cb_pop from the main loop.  Each action does  *)
(* at most one access to state the other side writes, and the two sides    *)
(* interleave freely, which includes every point at which the interrupt    *)
(* can preempt the main loop.                                              *)
(***************************************************************************)
EXTENDS Naturals, Sequences

CONSTANTS BUFFER_SIZE,  \* slots of the ring, one of which always stays unused
          Sample        \* the int16_t values that are pushed

ASSUME BufferAssumption == BUFFER_SIZE \in Nat \ {0, 1}

VARIABLES data,         \* the ring
          write_idx,    \* slot the next sample goes to; written by cb_push
          read_idx,     \* slot of the oldest sample; written by cb_pop
          interrupts_disabled,
          ppc,          \* where cb_push is
          cpc,          \* where cb_pop is
          sample,       \* cb_push's argument
          out_sample,   \* the cell cb_pop writes to
          pushRes,      \* what the last cb_push returned, "pending" meanwhile
          popRes        \* what the last cb_pop returned, "pending" meanwhile

vars == <<data, write_idx, read_idx, interrupts_disabled, ppc, cpc,
          sample, out_sample, pushRes, popRes>>
producerVars == <<write_idx, interrupts_disabled, ppc, sample, pushRes>>
consumerVars == <<read_idx, cpc, out_sample, popRes>>

Slots == 0 .. BUFFER_SIZE - 1
\* The slot after i, where the ring wraps around.
NextSlot(i) == (i + 1) % BUFFER_SIZE

\* cb_init sets the indices only: the ring and the caller's cells hold
\* whatever was in memory.
Init == /\ data \in [Slots -> Sample]
        /\ write_idx = 0
        /\ read_idx = 0
        /\ interrupts_disabled = FALSE
        /\ ppc = "idle" /\ cpc = "idle"
        /\ sample \in Sample /\ out_sample \in Sample
        /\ pushRes = "none" /\ popRes = "none"

-----------------------------------------------------------------------------
(* cb_push.  next_write_idx is NextSlot(write_idx) throughout the call,    *)
(* since nothing but cb_push writes write_idx.                             *)

PushCall == /\ ppc = "idle"
            /\ sample' \in Sample
            /\ pushRes' = "pending"
            /\ ppc' = "check"
            /\ UNCHANGED <<data, write_idx, interrupts_disabled, consumerVars>>

\* Slip: the fullness test is forgotten.
PushUnchecked == /\ ppc = "check"
                 /\ ppc' = "store"
                 /\ UNCHANGED <<data, write_idx, interrupts_disabled, sample,
                                pushRes, consumerVars>>

PushCheck == /\ ppc = "check"
             /\ NextSlot(write_idx) # read_idx
             /\ ppc' = "store"
             /\ UNCHANGED <<data, write_idx, interrupts_disabled, sample,
                            pushRes, consumerVars>>

PushFull == /\ ppc = "check"
            /\ NextSlot(write_idx) = read_idx
            /\ ppc' = "idle"
            /\ pushRes' = "full"
            /\ UNCHANGED <<data, write_idx, interrupts_disabled, sample,
                           consumerVars>>

PushStore == /\ ppc = "store"
             /\ data' = [data EXCEPT ![write_idx] = sample]
             /\ ppc' = "disable"
             /\ UNCHANGED <<write_idx, interrupts_disabled, sample, pushRes,
                            consumerVars>>

DisableInterrupts == /\ ppc = "disable"
                     /\ interrupts_disabled' = TRUE
                     /\ ppc' = "publish"
                     /\ UNCHANGED <<data, write_idx, sample, pushRes,
                                    consumerVars>>

PushPublish == /\ ppc = "publish"
               /\ write_idx' = NextSlot(write_idx)
               /\ ppc' = "enable"
               /\ UNCHANGED <<data, interrupts_disabled, sample, pushRes,
                              consumerVars>>

EnableInterrupts == /\ ppc = "enable"
                    /\ interrupts_disabled' = FALSE
                    /\ ppc' = "idle"
                    /\ pushRes' = "accepted"
                    /\ UNCHANGED <<data, write_idx, sample, consumerVars>>

-----------------------------------------------------------------------------
(* cb_pop                                                                  *)

PopCall == /\ cpc = "idle"
           /\ popRes' = "pending"
           /\ cpc' = "check"
           /\ UNCHANGED <<data, producerVars, read_idx, out_sample>>

PopCheck == /\ cpc = "check"
            /\ read_idx # write_idx
            /\ cpc' = "read"
            /\ UNCHANGED <<data, producerVars, read_idx, out_sample, popRes>>

\* Slip: the ring counts as empty one sample too early.
PopEmptyEarly == /\ cpc = "check"
                 /\ NextSlot(read_idx) = write_idx
                 /\ cpc' = "idle"
                 /\ popRes' = "empty"
                 /\ UNCHANGED <<data, producerVars, read_idx, out_sample>>

PopEmpty == /\ cpc = "check"
            /\ read_idx = write_idx
            /\ cpc' = "idle"
            /\ popRes' = "empty"
            /\ UNCHANGED <<data, producerVars, read_idx, out_sample>>

\* Slip: the index is advanced before the sample is copied.
PopReadLate == /\ cpc = "read"
               /\ out_sample' = data[NextSlot(read_idx)]
               /\ cpc' = "advance"
               /\ UNCHANGED <<data, producerVars, read_idx, popRes>>

PopRead == /\ cpc = "read"
           /\ out_sample' = data[read_idx]
           /\ cpc' = "advance"
           /\ UNCHANGED <<data, producerVars, read_idx, popRes>>

PopAdvance == /\ cpc = "advance"
              /\ read_idx' = NextSlot(read_idx)
              /\ cpc' = "idle"
              /\ popRes' = "taken"
              /\ UNCHANGED <<data, producerVars, out_sample>>

Push == \/ PushCall \/ PushCheck \/ PushFull \/ PushStore
        \/ DisableInterrupts \/ PushPublish \/ EnableInterrupts
Pop == PopCall \/ PopCheck \/ PopEmpty \/ PopRead \/ PopAdvance
Next == Push \/ Pop

Spec == Init /\ [][Next]_vars
\* The main loop polls the buffer for ever; nothing is assumed of the producer.
FairSpec == Spec /\ WF_vars(Pop)

-----------------------------------------------------------------------------
(* The queue the ring stands for: its k-th oldest sample is k - 1 slots    *)
(* after read_idx, and there are as many as write_idx is ahead.            *)

Count == IF read_idx <= write_idx THEN write_idx - read_idx
                                  ELSE write_idx + BUFFER_SIZE - read_idx
SlotOf(k) == IF read_idx + k - 1 < BUFFER_SIZE
             THEN read_idx + k - 1
             ELSE read_idx + k - 1 - BUFFER_SIZE
Queue == [k \in 1 .. Count |-> data[SlotOf(k)]]

\* The push takes effect when write_idx is published, the call returns later.
PushOutcome == IF ppc = "enable" THEN "accepted" ELSE pushRes

Fifo == INSTANCE BoundedFifo
          WITH Capacity <- BUFFER_SIZE - 1, q <- Queue, arg <- sample,
               pushRes <- PushOutcome, out <- out_sample

\* Every step of the two sides is a step of the bounded queue: no sample is
\* lost, repeated, reordered or made up, a push is refused only at
\* BUFFER_SIZE - 1 samples and a pop only at none (cb_push and cb_pop in any
\* interleaving, from any contents of the uninitialised ring).
FifoSpec == Fifo!Spec

-----------------------------------------------------------------------------
TypeOK == /\ data \in [Slots -> Sample]
          /\ write_idx \in Slots /\ read_idx \in Slots
          /\ interrupts_disabled \in BOOLEAN
          /\ ppc \in {"idle", "check", "store", "disable", "publish", "enable"}
          /\ cpc \in {"idle", "check", "read", "advance"}
          /\ sample \in Sample /\ out_sample \in Sample
          /\ pushRes \in {"none", "pending", "full", "accepted"}
          /\ popRes \in {"none", "pending", "empty", "taken"}

\* The interrupt never stores to the slot that the main loop is about to read
\* or has read but not yet given up, although neither side locks anything:
\* the fullness test of cb_push keeps one slot between them.
NoSlotConflict ==
  ppc \in {"store", "disable", "publish"} /\ cpc \in {"read", "advance"}
    => write_idx # read_idx

\* A sample that has been published is eventually read, whatever the
\* interrupts do: the reader reaches every position the writer has reached.
Drained == \A i \in Slots : write_idx = i ~> read_idx = i
=============================================================================
