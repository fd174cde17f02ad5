----------------------- MODULE CircularBuffer_proofs -----------------------
(***************************************************************************)
(* Proofs about CircularBuffer for every BUFFER_SIZE > 1 and every set of  *)
(* samples: type correctness, the absence of slot conflicts, and that the  *)
(* two interleaved functions implement BoundedFifo.                        *)
(***************************************************************************)
EXTENDS CircularBuffer, SequenceTheorems, TLAPS

\* The slot after i, without the remainder: cb_push's and cb_pop's
\* "(i + 1) % BUFFER_SIZE" (lines 35 and 56).
LEMMA NextSlotIs ==
  \A i \in Slots : /\ NextSlot(i) = IF i = BUFFER_SIZE - 1 THEN 0 ELSE i + 1
                   /\ NextSlot(i) \in Slots
<1> TAKE i \in Slots
<1>1. CASE i = BUFFER_SIZE - 1
  <2>1. NextSlot(i) = BUFFER_SIZE % BUFFER_SIZE
    BY <1>1, BufferAssumption DEF NextSlot
  <2>2. BUFFER_SIZE % BUFFER_SIZE = 0
    BY BufferAssumption
  <2> QED BY <1>1, <2>1, <2>2, BufferAssumption DEF Slots
<1>2. CASE i # BUFFER_SIZE - 1
  <2>1. i + 1 \in 0 .. BUFFER_SIZE - 1
    BY <1>2, BufferAssumption DEF Slots
  <2>2. (i + 1) % BUFFER_SIZE = i + 1
    BY <2>1, BufferAssumption
  <2> QED BY <1>2, <2>1, <2>2 DEF NextSlot, Slots
<1> QED BY <1>1, <1>2

\* No slot has two predecessors (the wrap-around loses no slot).
LEMMA NextSlotInjective ==
  \A i, j \in Slots : NextSlot(i) = NextSlot(j) => i = j
BY NextSlotIs, BufferAssumption DEF Slots

-----------------------------------------------------------------------------
(* The inductive invariant.  What each side found out in its test stays    *)
(* true while the other side moves.                                        *)

Room == ppc \in {"store", "disable", "publish"} => NextSlot(write_idx) # read_idx
Stored == ppc \in {"disable", "publish"} => data[write_idx] = sample
Filled == cpc \in {"read", "advance"} => read_idx # write_idx
Copied == cpc = "advance" => out_sample = data[read_idx]
Calls == /\ ppc # "idle" <=> pushRes = "pending"
         /\ cpc # "idle" <=> popRes = "pending"
IInv == TypeOK /\ Room /\ Stored /\ Filled /\ Copied /\ Calls

\* Every initial state satisfies the inductive invariant.
LEMMA InitIInv == Init => IInv
<1>1. 0 \in Slots
  BY BufferAssumption DEF Slots
<1> QED
  BY <1>1 DEF Init, IInv, TypeOK, Room, Stored, Filled, Copied, Calls

\* Every step of cb_push and of cb_pop preserves the inductive invariant.
LEMMA NextIInv == IInv /\ [Next]_vars => IInv'
<1> SUFFICES ASSUME IInv, [Next]_vars PROVE IInv'
  OBVIOUS
<1> USE DEF IInv, TypeOK, Room, Stored, Filled, Copied, Calls
<1>1. CASE PushCall
  BY <1>1 DEF PushCall, consumerVars
<1>2. CASE PushCheck
  BY <1>2 DEF PushCheck, consumerVars
<1>3. CASE PushFull
  BY <1>3 DEF PushFull, consumerVars
<1>4. CASE PushStore
  BY <1>4 DEF PushStore, consumerVars
<1>5. CASE DisableInterrupts
  BY <1>5 DEF DisableInterrupts, consumerVars
<1>6. CASE PushPublish
  BY <1>6, NextSlotIs DEF PushPublish, consumerVars
<1>7. CASE EnableInterrupts
  BY <1>7 DEF EnableInterrupts, consumerVars
<1>8. CASE PopCall
  BY <1>8 DEF PopCall, producerVars
<1>9. CASE PopCheck
  BY <1>9 DEF PopCheck, producerVars
<1>10. CASE PopEmpty
  BY <1>10 DEF PopEmpty, producerVars
<1>11. CASE PopRead
  BY <1>11 DEF PopRead, producerVars
<1>12. CASE PopAdvance
  BY <1>12, NextSlotIs, NextSlotInjective DEF PopAdvance, producerVars
<1>13. CASE UNCHANGED vars
  BY <1>13 DEF vars
<1> QED
  BY <1>1, <1>2, <1>3, <1>4, <1>5, <1>6, <1>7, <1>8, <1>9, <1>10, <1>11,
     <1>12, <1>13 DEF Next, Push, Pop

\* The inductive invariant holds in every reachable state.
THEOREM Invariant == Spec => []IInv
BY InitIInv, NextIInv, PTL DEF Spec

\* Every variable keeps its range: both indices stay inside data[].
THEOREM TypeCorrect == Spec => []TypeOK
<1>1. IInv => TypeOK
  BY DEF IInv
<1> QED BY Invariant, <1>1, PTL

\* cb_push never stores to the slot cb_pop is reading.
THEOREM NoConflict == Spec => []NoSlotConflict
<1>1. IInv => NoSlotConflict
  BY DEF IInv, Filled, NoSlotConflict
<1> QED BY Invariant, <1>1, PTL

-----------------------------------------------------------------------------
(* Refinement: the ring implements BoundedFifo.                            *)

\* The queue the ring stands for has Count samples.
LEMMA QueueType ==
  ASSUME TypeOK
  PROVE  /\ Count \in 0 .. BUFFER_SIZE - 1
         /\ \A k \in 1 .. Count : SlotOf(k) \in Slots
         /\ Queue \in Seq(Sample)
         /\ Len(Queue) = Count
         /\ \A k \in 1 .. Count : Queue[k] = data[SlotOf(k)]
<1>1. Count \in 0 .. BUFFER_SIZE - 1
  BY BufferAssumption DEF TypeOK, Slots, Count
<1>2. \A k \in 1 .. Count : SlotOf(k) \in Slots
  BY BufferAssumption DEF TypeOK, Slots, Count, SlotOf
<1>3. Queue \in [1 .. Count -> Sample]
  BY <1>2 DEF Queue, TypeOK
<1> QED BY <1>1, <1>2, <1>3 DEF Queue

\* The tests of the indices say what they are meant to about the queue: full
\* (line 36) and empty (line 54), and the oldest sample is at read_idx.
LEMMA QueueTests ==
  ASSUME TypeOK
  PROVE  /\ NextSlot(write_idx) = read_idx <=> Count = BUFFER_SIZE - 1
         /\ read_idx = write_idx <=> Count = 0
         /\ read_idx # write_idx => Queue # <<>> /\ Head(Queue) = data[read_idx]
<1>1. NextSlot(write_idx) = read_idx <=> Count = BUFFER_SIZE - 1
  BY NextSlotIs, BufferAssumption DEF TypeOK, Slots, Count
<1>2. read_idx = write_idx <=> Count = 0
  BY BufferAssumption DEF TypeOK, Slots, Count
<1>3. ASSUME read_idx # write_idx
      PROVE  Queue # <<>> /\ Head(Queue) = data[read_idx]
  <2>1. Count \in 1 .. BUFFER_SIZE - 1
    BY <1>2, <1>3, QueueType, BufferAssumption
  <2>2. SlotOf(1) = read_idx
    BY BufferAssumption DEF TypeOK, Slots, SlotOf
  <2>3. Len(Queue) # 0 /\ Queue[1] = data[read_idx]
    BY <2>1, <2>2, QueueType
  <2> QED BY <2>3, QueueType
<1> QED BY <1>1, <1>2, <1>3

\* Publishing write_idx appends the stored sample to the queue.
LEMMA PublishAppends ==
  ASSUME IInv, PushPublish
  PROVE  Queue' = Append(Queue, sample)
<1> USE DEF IInv
<1>1. TypeOK'
  BY NextIInv DEF Next, Push
<1>2. NextSlot(write_idx) # read_idx /\ data[write_idx] = sample
  BY DEF PushPublish, Room, Stored
<1>3. write_idx' = NextSlot(write_idx) /\ UNCHANGED <<data, read_idx>>
  BY DEF PushPublish, consumerVars
<1>4. Count' = Count + 1
  <2>1. write_idx \in Slots /\ read_idx \in Slots
    BY DEF TypeOK
  <2>2. write_idx' = IF write_idx = BUFFER_SIZE - 1 THEN 0 ELSE write_idx + 1
    BY <1>3, <2>1, NextSlotIs
  <2>3. read_idx' = read_idx /\ write_idx' # read_idx
    BY <1>2, <1>3
  <2> HIDE DEF IInv
  <2> QED BY <2>1, <2>2, <2>3, BufferAssumption DEF Slots, Count
<1>5. SlotOf(Count + 1) = write_idx
  BY <1>4, BufferAssumption DEF TypeOK, Slots, Count, SlotOf
<1>6. Count \in Nat
  BY QueueType, BufferAssumption
<1>7. Queue' = [k \in 1 .. Count + 1 |-> data[SlotOf(k)]]
  BY <1>3, <1>4 DEF Queue, SlotOf
<1>8. \A k \in 1 .. Count + 1 : SlotOf(k) \in Slots
  <2> TAKE k \in 1 .. Count + 1
  <2>1. CASE k = Count + 1
    BY <2>1, <1>5 DEF TypeOK
  <2>2. CASE k # Count + 1
    BY <2>2, <1>6, QueueType
  <2> QED BY <2>1, <2>2
<1>9. Queue' \in Seq(Sample) /\ Len(Queue') = Count + 1
  BY <1>6, <1>7, <1>8 DEF TypeOK
<1>10. /\ Append(Queue, sample) \in Seq(Sample)
       /\ Len(Append(Queue, sample)) = Count + 1
  BY QueueType DEF TypeOK
<1>11. \A k \in 1 .. Count + 1 : Queue'[k] = Append(Queue, sample)[k]
  <2> TAKE k \in 1 .. Count + 1
  <2>q. Queue \in Seq(Sample) /\ Len(Queue) = Count
    BY QueueType
  <2>1. CASE k = Count + 1
    <3>1. Append(Queue, sample)[k] = sample
      BY <2>1, <2>q
    <3> QED BY <2>1, <3>1, <1>2, <1>5, <1>7
  <2>2. CASE k # Count + 1
    <3>1. k \in 1 .. Count
      BY <2>2, <1>6
    <3>2. Append(Queue, sample)[k] = Queue[k]
      BY <3>1, <2>q
    <3>3. Queue[k] = data[SlotOf(k)]
      BY <3>1, QueueType
    <3> QED BY <3>2, <3>3, <1>7
  <2> QED BY <2>1, <2>2
<1> QED BY <1>9, <1>10, <1>11, SeqEqual

\* Advancing read_idx removes the oldest sample.
LEMMA AdvanceRemoves ==
  ASSUME IInv, PopAdvance
  PROVE  Queue' = Tail(Queue)
<1> USE DEF IInv
<1>1. read_idx # write_idx
  BY DEF PopAdvance, Filled
<1>2. read_idx' = NextSlot(read_idx) /\ UNCHANGED <<data, write_idx>>
  BY DEF PopAdvance, producerVars
<1>i. write_idx \in Slots /\ read_idx \in Slots
  BY DEF TypeOK
<1>n. read_idx' = IF read_idx = BUFFER_SIZE - 1 THEN 0 ELSE read_idx + 1
  BY <1>2, <1>i, NextSlotIs
<1>3. Count' = Count - 1
  BY <1>1, <1>2, <1>i, <1>n, BufferAssumption DEF Slots, Count
<1>4. Count \in Nat \ {0}
  BY <1>1, QueueTests, QueueType, BufferAssumption
<1>5. \A k \in 1 .. Count - 1 : SlotOf(k)' = SlotOf(k + 1)
  BY <1>1, <1>i, <1>n, BufferAssumption DEF Slots, Count, SlotOf
<1>6. Queue' = [k \in 1 .. Count - 1 |-> data[SlotOf(k + 1)]]
  BY <1>2, <1>3, <1>5 DEF Queue
<1>7. \A k \in 1 .. Count - 1 : /\ k + 1 \in 1 .. Count
                                /\ Queue[k + 1] = data[SlotOf(k + 1)]
                                /\ SlotOf(k + 1) \in Slots
  BY <1>4, QueueType
<1>8. Queue' \in Seq(Sample) /\ Len(Queue') = Count - 1
  BY <1>4, <1>6, <1>7 DEF TypeOK
<1>9. /\ Tail(Queue) \in Seq(Sample)
      /\ Len(Tail(Queue)) = Count - 1
      /\ \A k \in 1 .. Count - 1 : Tail(Queue)[k] = Queue[k + 1]
  <2>1. Queue \in Seq(Sample) /\ Len(Queue) = Count /\ Queue # <<>>
    BY <1>1, QueueType, QueueTests
  <2> QED BY <2>1, HeadTailProperties
<1>10. \A k \in 1 .. Count - 1 : Queue'[k] = Tail(Queue)[k]
  BY <1>6, <1>7, <1>9
<1> QED BY <1>8, <1>9, <1>10, SeqEqual

\* A store to the ring does not show in the queue: its slot is outside.
LEMMA StoreInvisible ==
  ASSUME IInv, PushStore
  PROVE  Queue' = Queue
<1> USE DEF IInv
<1>1. data' = [data EXCEPT ![write_idx] = sample]
      /\ UNCHANGED <<write_idx, read_idx>>
  BY DEF PushStore, consumerVars
<1>2. \A k \in 1 .. Count : SlotOf(k) \in Slots /\ SlotOf(k) # write_idx
  BY QueueType, BufferAssumption DEF TypeOK, Slots, Count, SlotOf
<1>3. \A k \in 1 .. Count : data'[SlotOf(k)] = data[SlotOf(k)]
  BY <1>1, <1>2 DEF TypeOK
<1>4. Queue' = [k \in 1 .. Count |-> data'[SlotOf(k)]]
  BY <1>1 DEF Queue, Count, SlotOf
<1> QED BY <1>3, <1>4 DEF Queue

\* The empty ring of cb_init is the empty queue.
LEMMA InitRefines == Init => Fifo!Init
<1> SUFFICES ASSUME Init PROVE Fifo!Init
  OBVIOUS
<1>1. Count = 0
  BY DEF Init, Count
<1>2. Queue = <<>>
  BY <1>1 DEF Queue
<1> QED BY <1>2 DEF Init, Fifo!Init, PushOutcome

\* Every step of the ring is a step of the queue, or one it does not see.
LEMMA NextRefines == IInv /\ [Next]_vars => [Fifo!Next]_(Fifo!vars)
<1> SUFFICES ASSUME IInv, [Next]_vars PROVE [Fifo!Next]_(Fifo!vars)
  OBVIOUS
<1> USE DEF Fifo!Next, Fifo!vars
<1>a. ASSUME UNCHANGED <<data, write_idx, read_idx>> PROVE Queue' = Queue
  BY <1>a DEF Queue, Count, SlotOf
<1>b. TypeOK /\ Calls
  BY DEF IInv
<1>1. CASE PushCall
  BY <1>1, <1>a, <1>b DEF PushCall, Calls, PushOutcome, consumerVars, Fifo!PushCall, TypeOK
<1>2. CASE PushCheck
  BY <1>2, <1>a DEF PushCheck, PushOutcome, consumerVars
<1>3. CASE PushFull
  <2>1. Len(Queue) = BUFFER_SIZE - 1
    BY <1>3, <1>b, QueueTests, QueueType DEF PushFull
  <2> QED
    BY <1>3, <1>a, <1>b, <2>1
       DEF PushFull, Calls, PushOutcome, consumerVars, Fifo!Refuse
<1>4. CASE PushStore
  BY <1>4, StoreInvisible DEF PushStore, PushOutcome, consumerVars
<1>5. CASE DisableInterrupts
  BY <1>5, <1>a DEF DisableInterrupts, PushOutcome, consumerVars
<1>6. CASE PushPublish
  <2>1. Len(Queue) < BUFFER_SIZE - 1
    BY <1>6, <1>b, QueueTests, QueueType, BufferAssumption
       DEF PushPublish, IInv, Room
  <2>2. Queue' = Append(Queue, sample)
    BY <1>6, PublishAppends
  <2> QED
    BY <1>6, <1>b, <2>1, <2>2
       DEF PushPublish, Calls, PushOutcome, consumerVars, Fifo!Accept
<1>7. CASE EnableInterrupts
  BY <1>7, <1>a DEF EnableInterrupts, PushOutcome, consumerVars
<1>8. CASE PopCall
  BY <1>8, <1>a, <1>b
     DEF PopCall, Calls, PushOutcome, producerVars, Fifo!PopCall
<1>9. CASE PopCheck
  BY <1>9, <1>a DEF PopCheck, PushOutcome, producerVars
<1>10. CASE PopEmpty
  <2>1. Queue = <<>>
    BY <1>10, <1>b, QueueTests DEF PopEmpty, Queue
  <2> QED
    BY <1>10, <1>a, <1>b, <2>1
       DEF PopEmpty, Calls, PushOutcome, producerVars, Fifo!Nothing
<1>11. CASE PopRead
  <2>1. Queue # <<>> /\ Head(Queue) = data[read_idx]
    BY <1>11, <1>b, QueueTests DEF PopRead, IInv, Filled
  <2> QED
    BY <1>11, <1>a, <1>b, <2>1
       DEF PopRead, Calls, PushOutcome, producerVars, Fifo!Copy
<1>12. CASE PopAdvance
  <2>1. Queue # <<>> /\ Head(Queue) = out_sample
    BY <1>12, <1>b, QueueTests DEF PopAdvance, IInv, Filled, Copied
  <2>2. Queue' = Tail(Queue)
    BY <1>12, AdvanceRemoves
  <2> QED
    BY <1>12, <1>b, <2>1, <2>2
       DEF PopAdvance, Calls, PushOutcome, producerVars, Fifo!Remove
<1>13. CASE UNCHANGED vars
  BY <1>13, <1>a DEF vars, PushOutcome
<1> QED
  BY <1>1, <1>2, <1>3, <1>4, <1>5, <1>6, <1>7, <1>8, <1>9, <1>10, <1>11,
     <1>12, <1>13 DEF Next, Push, Pop

\* cb_push and cb_pop, interleaved in any way, are a bounded FIFO queue of
\* BUFFER_SIZE - 1 samples: none lost, repeated, reordered or made up.
THEOREM RefinesFifo == Spec => FifoSpec
BY InitRefines, NextRefines, Invariant, PTL DEF Spec, Fifo!Spec, FifoSpec
=============================================================================
