# Verification of c_practice_code

The repository is a collection of small C programs: embedded-style components
("beginner projects") and data structures and interpreters ("intermediate
projects"). Each file is a program of its own; nothing links two of them. The
modules here model the ones that keep state, check them with TLC and prove with
TLAPS all their safety properties.

## 1. Inventory

### Components that are modelled

| Component | Source | State | Operations and who calls them | What is hard | What makes it correct |
|---|---|---|---|---|---|
| Sample ring | `circular_buffer.c` | `data`, `write_idx`, `read_idx` | `cb_push` from an interrupt, `cb_pop` from the main loop | the interrupt preempts the main loop between any two accesses | a FIFO queue of `BUFFER_SIZE - 1` samples; no slot is written while it is read; what is published is read |
| Heap allocator | `heap_allocator.c` | the block headers inside `heap[]` | `my_malloc`, `my_free` | split and merge in any order, boundary sizes, unsigned differences | the list tiles the heap, free neighbours are merged, grants are disjoint, failures are genuine |
| Temperature component | `TEMP/Source/TEMP.c` | SPI buffers and job, `TEMP_M_*`, fault bits | `TEMP_Init` and `TEMP_Runnable` in a task, the SPI notification as an interrupt, `Get_Temperature` in a client's task | replies arrive after the call that asked; calls are refused; words are garbled | replies are decoded as what was asked for; silence is reported; readings keep their sign |
| Temperature component, second version | `TEMP/Source/SOLVED_TEMP.c` | as above, `TEMP_M_idReadPending` | as above | a flag outlives the transfer it was raised for; double reads | the ID kept is the sensor's answer or 0; measuring begins |
| Bytecode VM | `vm_sim/vm.c` | `pc`, `stack`, `sp`, `output`, `out_len` | `vm_step`, `vm_run` | arbitrary bytes as programs, faults in the middle of an instruction, calls after the end | instructions are all or nothing; indices stay in bounds; the end is final |
| Hash table | `hash_table.c` | buckets, allocated nodes and keys, `count` | `ht_init/insert/get/remove/destroy` | two allocations that fail separately, removal in chains, reuse of freed memory | it is a map; no leak, no dangling pointer; walks end |
| Linked list | `linked_list.c` | `head`, `count`, nodes | `list_push_front/remove/find/destroy` | loops counted on a `uint8_t`, without a look at NULL | it is a sequence; no loop leaves the chain |
| UART parser | `uart_byte_parser.c` | parser state and fields | `parser_feed_byte` per byte received | fields that outlive a frame; garbled bytes | exactly the well-formed frames are reported; it always resynchronises |
| Ping-pong buffer | `dma_ping_pong_buffer.c` | two buffers, two flags | `dma_isr_simulate` as an interrupt, `process_ready_buffer` in the main loop | the interrupt lands between test, choice and copy | a block handed over is whole and new |
| Hash table, practice copies | `hash_table_practice.c`, `hash_test/hash_table_practice.c` | as the hash table | as the hash table | both allocations are made before either is looked at | nothing outlives `ht_destroy` (it does not hold) |
| Polled debouncer | `mute_debounce.c` | three statics | `debounce_button` per poll | the clock wraps; a level that bounces restarts the delay | a level is confirmed only after the delay, and in the end |
| Button with interrupts | `button_press_volatile.c` | four volatile variables, three of the loop's | two interrupts, `main_loop_check` | the loop reads shared variables twice and three times | a press is confirmed only in a turn the button interrupted |
| Millisecond counter, watchdog | `32b_counter_uart.c`, `watchdog_timer.c` | the counter | the timer interrupt, `has_elapsed`, `is_watchdog_starved` | the counter wraps, and moves during a read | an interval is over exactly when it is |
| Configuration table | `string_parser.c` | entries, `count` right behind them | `config_parse_line`, `config_get` | uninitialised entries, truncation, the limit looked at too late | the first definition wins; ignored lines change nothing (it does not hold when full) |
| Shell | `cli_shell.c` | `argv`, the child waited for | `parse_line`, `execute`, beside the children | `argv` reused from line to line; children that stop | a program gets the words of its line; the shell waits until its child finishes (it does not hold for a child that stops) |
| Run-length encoder | `compress_repeat.c` | none | `rle_encode` | counts and an index of 8 bits | the output decodes to the input, and is the shortest |
| CRC-8 | `crc.c`, `crc_decoder.c` | none | `crc8`, `crc8_verify` | a bit that must be taken again after every shift | every burst of up to 8 bits is refused |

### Components that are not modelled

* The timed ring (`ring_buffer_timed.c`): its `cb_pop` takes three samples
  whatever there are, so a pop hands out what nobody pushed, and no text says
  what it should do instead. The sound ring is `circular_buffer.c`.
* The rotary encoder: a pure table of sixteen entries, without state.
* Out of reach or without state: the audio, filter, robot and navigation
  exercises (floating point), the bit manipulation exercises (single
  expressions), the door lock (recursion on standard input, reads past an
  unterminated array), the raylib game.

The hazards of the code, modelled or not, are in `PROJECT.json` with the line
where each bites and the properties that catch it.

## 2. Plan

Done, in this order: ring, heap, the two temperature components, VM, hash table,
list, UART parser, ping-pong buffer; then the two debouncers, the millisecond
counter, the configuration table, the shell, the two pure functions and the
practice copy of the hash table; proofs for the ring, the heap, the clocks and
the ping-pong buffer; proofs for the VM, the temperature components, the hash
table, the parser's refinement, the configuration table, the shell, the list,
the run-length encoder and the CRC. The small programs share one run, `programs`,
and one proof module.

Next: the parts of the liveness arguments that are safety properties (a walk's
distance from its end, which never grows).

## 3. Modules

| Module | Models | Abstract specification it implements |
|---|---|---|
| `CircularBuffer` | `circular_buffer.c` | `BoundedFifo` |
| `HeapAllocator` | `heap_allocator.c` | `AbstractAllocator` |
| `TempSensor` | what the two temperature components share | |
| `Temp`, `SolvedTemp` | `TEMP.c`, `SOLVED_TEMP.c` (both extend `TempSensor`) | |
| `VMCode`, `VM` | `vm.c` | `StackMachine` |
| `HashTable` | `hash_table.c` | `KeyedMap` |
| `HashTablePractice` | `hash_table_practice.c` (extends `HashTable`) | |
| `LinkedList` | `linked_list.c` | `DataList` |
| `UartParser` | `uart_byte_parser.c` | `FrameReceiver` |
| `PingPong` | `dma_ping_pong_buffer.c` | |
| `Debounce`, `ButtonPress` | `mute_debounce.c`, `button_press_volatile.c` | |
| `MsCounter` | `32b_counter_uart.c`, `watchdog_timer.c` | |
| `Config`, `Shell` | `string_parser.c`, `cli_shell.c` | |
| `RunLength`, `Crc8` | `compress_repeat.c`; `crc.c` and `crc_decoder.c` | |
| `MCPrograms` | extends the small programs, `MCConfig` and `MCShell`; a behaviour runs one of them | |
| other `MC*` | give the constants their values for TLC | |
| `CircularBuffer_proofs`, `HeapAllocator_proofs`, `VM_proofs`, `HashTable_proofs` | theorems about the module named, and their proofs | |
| `Temp_proofs`, `SolvedTemp_proofs` | the same; both rest on the lemmas of `TempSensor_proofs` | |
| `Programs_proofs` | theorems about `MsCounter`, `Debounce`, `ButtonPress`, `PingPong`, `UartParser`, `Config`, `Shell`, `LinkedList`, `RunLength` and `Crc8` | |

Variables and actions keep the names of the C fields and functions where they
can. In each module a definition marked *Slip* is a plausible mistake in the
definition that follows it; it is not part of the specification, and putting it
in the place of that definition must make a property fail.

### How the code becomes actions

* **Interrupts and preemption** (`CircularBuffer`, `PingPong`, `Temp`,
  `SolvedTemp`). One action does at most one access to a variable another actor
  writes. Code that really runs to completion (the DMA interrupt, the SPI
  notification) is one action. In `CircularBuffer` both sides interleave freely,
  which allows more than an interrupt over a main loop does; what holds there
  holds for the real schedule. Program order is what the repository's builds give
  (no optimisation flag, `volatile` indices).
* **Sequential code** (`HeapAllocator`, `HashTable`, `LinkedList`). A call is a
  first step, one step per turn of its loop and a last step, so that "every call
  returns" says something.
  The caller is any caller who keeps to the contract: frees what it owns, uses a
  table between its initialisation and its destruction.
* **Allocation.** `malloc` returns any free address or fails, each time.
* **Temperature components.** `TEMP_Init` runs before its task is scheduled
  again, so its assignments are one step and each SPI call is another. The sensor
  and the driver are external: a call may be refused, a transfer delivers any of
  the given words. Temperatures are counts of 0.03125 degC, so that the
  floating-point scaling becomes exact. The outer state of the diagnostic manager
  is the set of fault bits.
* **VM.** One action per opcode. Signed overflow is undefined in C; the build
  wraps, also under the sanitizers of `run_tests.sh`, which report and go on, so
  `Wrap` is what remains in the word. The caller may step on after any status.
* **Hash table.** `Hash` is a parameter: the chains must be right for every way
  of colliding. `NULL` is a legal value, as it is in the code.
* **Linked list.** `WIDTH` stands for the 256 values of the loop counter, and the
  assumption of the module is the caller's side: fewer elements than that. Beyond
  it the loops run off the chain, as the hazard says.
* **UART parser.** `byte`, the argument of the last call, is kept in the state so
  that the receiver it implements cannot pick another byte.
* **Counters and debouncers.** `CLOCK`, `MS_VALUES` and `UINT32_VALUES` are the
  2^32 values of a time. `steady` and `age` count the true milliseconds that the
  wrapped differences stand for. `safe_read_counter` is three steps, since the
  timer interrupt does not look at `interrupts_disabled`; in `ButtonPress` each
  read of a volatile variable is a step. The button's counts are kept modulo 2,
  as the code only looks at their parity.
* **Configuration table.** A line is its kind and the characters before and
  behind its first `=`. A new table holds junk. `count` lies where the entry
  behind the last would begin, so clearing that entry's key sets `count` to 0 and
  the value cleared next is that of entry 0: this is what a build without
  optimisation does with the overrun (`EntryAt`, `Cleared`). The 24 bytes behind
  `count` that are cleared as well belong to the caller and are left out.
* **Shell.** A word is what `strtok` returns; wording, `MAX_LINE` and the text of
  the errors are left out. Children start, are stopped, go on and end at any
  time, and a fork or an exec may fail.
* **Pure functions.** `rle_encode` is a recursive function of its input, with one
  value per turn of the loop, and so is `crc8`, on bytes that are functions from
  bits to 0 and 1; the run enumerates the inputs.
* **Ping-pong buffer.** A sample is the number of its block. `INTERRUPTS` bounds
  the interrupts during one copy: with two the copy is torn, and nothing in the
  code prevents that, so `Untorn` is stated for a copy that is faster than a
  block.

## 4. Runs

| Run | Instance and why it is enough | What it shows |
|---|---|---|
| `circ` | 4 slots, 2 values: empty, partly full, full, wrapped; a value tells two orders apart | FIFO refinement, no slot conflict, what is published is read |
| `heap` | 208 bytes, the 24-byte header of a 64-bit build; requests of 0, 20, 57, 250: empty, rounded, split or whole, never fitting | tiling, merging, ownership, no wrap of `leftover`, genuine failure, every walk ends, allocator refinement |
| `temp` | 4-bit registers: 2 filler bits and counts -2..1 with 1 out of range; intact and garbled words | routing, reported silence, identity before readings, sign, and that the receive error settles |
| `solved` | the same | the ID kept is the sensor's answer or 0 (also after a refusal, and with the reply routed by the flag alone), readings rounded towards zero, measuring begins |
| `solved_misrouted`, `solved_getrace` | the same | findings 1 and 2 below |
| `vm` | all programs of up to 4 bytes over the opcodes, 0 and 255, and 16 longer ones, most of them from `vm_tests.c`; stack and output of 2; 8-bit words so that overflow is near | all-or-nothing instructions, finality, termination of forward-only programs; an index outside its array would stop TLC |
| `hash` | 3 keys in 2 buckets, two colliding; 3 nodes and 3 keys of memory | map refinement, no leak, no dangling pointer, walks end |
| `practice_leak` | 2 keys in one of 2 buckets, memory for both | finding 3 |
| `config_ignored` | as in `programs` | finding 4 |
| `shell_stopped` | as in `programs` | finding 5 |
| `programs` | one of the programs in the table below per behaviour | see there |

| Program of `programs` | Instance | What is shown |
|---|---|---|
| `list` | 4 nodes under a counter of 5 values, 2 elements | `WalkInList`, `ListSpec`: loops stay on the chain at the counter's limit; sequence refinement |
| `uart` | 3-bit bytes, payload of at most 2, a start byte that may occur inside a frame | `FrameSpec`, `NeverWedged`: exactly the intact frames are reported; resynchronisation |
| `pingpong` | 3 samples per block, 8 blocks, one interrupt per copy | `Untorn`, `NewerEachTime`: copies are whole and new |
| `button` | a time of 4 values, a delay of 2 | `ConfirmedOnlyWhenInterrupted` |
| `debounce` | a time of 8 values, a delay of 2: polls before, at and behind the delay and the wrap | `DebouncedIsSteady`, `Settles` |
| `counter` | a time of 4 values, every duration | `VerdictIsTrue` |
| `config` | 2 entries, keys and values of up to 2 characters stored, lines with 0 to 3, of every kind | `FirstDefinitionWins` |
| `shell` | 3 places in `argv`, 6 lines of 0 to 4 words, 2 pids | `ArgsAreTheLine`: the line's words, or its first ones when there are too many; `Reaped`: no child but one seen stopped is left behind |
| `rle` | bytes of 8 values, so that runs split at 7 and the index wraps after 4 pairs; all inputs of up to 9 bytes of two values; room for 0 to 8 bytes | `RleRoundTrip` |
| `crc` | 8-bit bytes, the polynomial of the code, messages of 1 and 2 bytes, every burst at every place | `CrcDetectsBursts` |

Bounds that are not in the code: `MAX_BLOCKS` (block numbers in `PingPong`; the
state is otherwise periodic after two blocks), the sets of words, sizes, keys and
programs, and the sizes above; `MAX_INPUT` and `MAX_ROOM` bound the encoder's
calls. `CHECK_DEADLOCK FALSE` is set for `programs`, where the ping-pong blocks
are used up, the shell ends with its input and the two functions have no more
inputs, for `shell_stopped`, for the same reason, and for `practice_leak`, where a write through NULL ends the program.

### Fairness

* `CircularBuffer`: weak fairness of the consumer's steps only. The main loop
  polls; nothing says an interrupt ever comes.
* `HeapAllocator`, `HashTable`: a call that has begun goes on; it is a loop in
  one thread. No fairness on making calls.
* `VM`: `vm_run` takes its next turn. Stepping by hand has no fairness.
* `Temp`: the scheduler starts the runnables (every 100 ms in the code's
  comments) and accepted transfers complete. Nothing makes the driver accept one.
  `SolvedTemp` adds, for `MeasuringBegins` only, that a driver asked again and
  again does not refuse for ever.
* `UartParser`: bytes keep arriving. Without that the parser just waits.
* `Debounce`: the counter counts, and a delay that is over again and again is
  met by a poll (strong fairness, since the difference wraps and is small again
  after 2^32 ms): the caller polls more often than the counter wraps.

### Findings

1. `SOLVED_TEMP.c:425`: a refused start-up transfer leaves
   `TEMP_M_idReadPending` up, and a routine reply is then taken for the ID; the
   comment at 266-268 says leaving it up prevents this. What is stored is the 0
   of bytes 4..5 (`IdIsTheSensorsAnswer`), but the flag is down.
2. `SOLVED_TEMP.c:384` (and `TEMP.c:297-299`): the temperature is compared and
   then read again, so an out-of-range reading can be handed out; the comment at
   381-382 says it cannot.
3. `hash_table_practice.c:88-93`: a failed allocation of the key loses the node,
   which `ht_destroy` cannot find; what `ht_tests.c:223` has AddressSanitizer look
   for is there. `hash_table.c:94-97` frees the node.
4. `string_parser.c:30`: with a full table any line of two characters or more,
   a comment too, sets `count` to 0; the comment at line 24 says such lines are
   ignored.
5. `cli_shell.c:77`: `waitpid` is called with `WUNTRACED` and returns for a
   stopped child; the comment at 88-90 says the parent blocks until the child
   finishes. `Reaped` says what is left of that promise.

Disagreements met that have no run:

* `SOLVED_TEMP.c:448`: `(sint16)raw / 4` is not `raw >> 2` for negative words
  with filler bits of 1; the comment at 104-106 says it is. `ReadingRounded`
  says which of the two is published.
* `mute_debounce.c:26`: a poll exactly at the delay does not confirm the level;
  the comment at 16-17 says "at least" the delay. `DebouncedIsSteady` forbids
  only what is confirmed before it, and so holds of either.
* `cli_shell.c:31`: a line of `MAX_ARGS` words or more leaves no NULL in `argv`,
  where the comment at 48-52 says there must be one. `ArgsAreTheLine` says of
  such a line only which words are in `argv`.
* `compress_repeat.c:17`: the 8-bit index wraps with the 128th pair and is
  returned; the comment at 4-7 says the number of bytes written is.
* `string_parser.c:51` promises the value of a key, and keys longer than 31
  characters are never found.
* The loops of `crc.c:11` and `string_parser.c:34` do not end for 256 bytes or
  more.

## 5. Proofs

`CircularBuffer_proofs` proves, for every ring of at least two slots and every
set of samples, `TypeOK`, `NoSlotConflict` and `FifoSpec`. The invariant that is
preserved says which values the indices may have at each program point of either
side: the slot between `write_idx` and its successor belongs to the producer
while it stores, and the consumer reads inside the part that is published. The
queue of the abstract specification is the slots from `read_idx` to `write_idx`;
each step maps to a step of `BoundedFifo` or to a stutter.

`HeapAllocator_proofs` proves, for every heap and header size that are multiples
of 8 and every set of requests, all safety properties of the `heap` run and the
refinement of `AbstractAllocator`. Its invariant `IInv` is the conjunction of

* `List(hdr)`: the headers tile the heap, each linked to the one that begins
  where it ends. This is stated of the function `hdr`, with one lemma for a split
  and one for a merge, so that the steps of `my_malloc` and `my_free` only apply
  them;
* `LocalsOK` and `OwnedOK`: the locals of a call are blocks of the list, the
  caller's pointers are the payloads of the blocks in use;
* `Merged`: while a block is being freed, it alone may have a free neighbour, and
  that one lies before it;
* `MallocWalked`, `FreeWalked`: no block before `current` fits, and `prev` is the
  block before `current`.

`Tiling` alone is not inductive: a merge keeps it only because the block merged
is the list's next one, which is what `FreeWalked` records.

`VM_proofs` proves, for every program, stack and output size and word width,
that every index stays in its array and every value in its word (`TypeOK`), that
the end is final (`FatalIsFinal`) and that the machine implements `StackMachine`
(`MachineSpec`). `FatalIsFinal` needs the invariant `Stays`: the status that ended
the program is the one the instruction at `pc` gives again. The mapping takes
`stack` and `sp` to the sequence of the first `sp` cells; lemmas say what a push
and a pop do to such a front, and a refused instruction changes neither front.

`Temp_proofs` and `SolvedTemp_proofs` hold for registers of any width (`HALF`),
any words and any limit. Routing is not inductive alone: `RouteInv` adds which
runnable is in progress and where (`Starter`), which length it has set up
(`LengthSetUp`), that nothing happens before `TEMP_Init` (`Untouched`) and, for
`SilenceIsReported`, that `TEMP_Init` about to report success has its transfer in
flight or answered (`Answered`). In `SolvedTemp` the flag takes the place of
`ID_checked`, and the invariant (`Marked`) holds as long as no `INIT_FAULT` was
reported, that is, when `TEMP_Init` came first. `IdIsTheSensorsAnswer` rests on
it, and on `IdInv`: the reply to the ID sequence is still to come, and bytes 4..5
and the ID are 0, or it has come and comes only once. `ReadingMatchesWord` is the
arithmetic of the sign and the shift. Two theorems go beyond the runs: `IdKept`
(the accepted ID is never written again) and `IdReplyIsRouted`, a part of
`RouteInv`.

`HashTable_proofs` proves `TypeOK`, `NoLeak` and `MapSpec` for every hash, every
capacity and every set of keys and addresses. The invariant `HashInv` says which
blocks are allocated and to whom a key belongs (`MemoryOK`, `OwnKeys`), that
`count` is their number (`Counted`), and that the buckets' chains hold every node
in the bucket of its key, once (`Chained`). A chain is described without
induction, by the set `after[a]` of the nodes behind each node `a`; three lemmas
say that dropping the head, dropping an inner node and adding a head leave
chains. The refinement maps the table to the set of its key-value pairs; a walk
that reaches NULL has seen every node of its bucket, so no pair has the key.

`Programs_proofs` begins with induction on the natural numbers, in the form "a
set that contains 0 and the successor of each of its members contains them all".
It follows from the library's theorem that `<` is well-founded, since the
library's own induction theorems take an operator the provers cannot instantiate.
The recursive functions `Parity`, `Elements`, `Decoded` and the loops of
`rle_encode` and `crc8` are taken apart with it: a witness that satisfies the recursive
equation and, where it matters, a proof that it is the only one.

* The clocks: the three programs that subtract times of a counter which wraps,
  for every width of the counter and every delay. Each invariant says what the
  difference stands for. In `MsCounter` the counter, and what was read of it, is
  `age` behind `start_time`, or `age - MS_VALUES` when it wrapped, as long as
  `age` has not reached `MS_VALUES`; while a new start is being read, the same
  is said of `temp`. In `Debounce` it is said of `last_time_ms` while a level
  waits to be confirmed. In `ButtonPress` an undisturbed turn that sees an odd
  count compares `raw_change_time` with itself, so it never reaches the
  confirmation. All rest on one lemma, `Difference`, which takes the remainder
  out of the unsigned difference.
* The ping-pong buffer: `NewerEachTime` for every `BUFFER_SIZE` and any number
  of interrupts, and `Untorn` under the hypothesis that a copy is interrupted at
  most once (`INTERRUPTS <= 1`); with two interrupts it is false, since the DMA
  is then back in the buffer being copied. The first invariant says that the
  full buffer holds the last block and that every sample being copied, or copied
  already, is newer than the last block handed over; the second, that the DMA
  fills the buffer being copied only when the one interruption is spent.
* The parser: `UartTypeOK`, the index invariant, and `FrameSpec`. What is
  received so far is the sequence of the fields the state has filled
  (`ReceiverInv`), and `checksum_calc` is its parity; each branch of
  `parser_feed_byte` is a step of the receiver. Nothing is assumed of the
  operation on bytes that stands for the exclusive or, except that its results
  are bytes.
* The configuration table: as long as the table was not written beyond its end,
  entry `d - 1` is the `d`-th pair accepted (`ConfigInv`), whatever the memory
  held before and however keys and values are cut off.
* The shell: `Reaped` is inductive as it stands. For `ArgsAreTheLine`, `ArgvInv`
  says that `argv` holds the line being run, up to its end, and that a child
  that has not become its program yet has the same `argv`. What the program gets
  is the line only for fewer than `MAX_ARGS` words; for more, the theorem speaks
  of the places of `argv` alone, behind which there is no NULL.
* The list: `ListInv` says that there is a sequence `c` of all the nodes, each
  linked to the next, and that a walk that has made `i` turns is at `c[i + 1]`,
  its `prev` at `c[i]`, with no match behind it; `list_destroy` has freed the
  first `i`. From that follow `WalkInList` and `ListSpec`, where the elements
  are the data along `c`. TLC checked `ListInv` before it was proved. The
  assumption that the nodes are fewer than the counter's values is needed:
  without it `i` goes round.
* The run-length encoder: `RleRoundTrip`, for every input, every room and every
  even `RLE_BYTES`. Behind byte `w` of the input (`Fits`) the output holds every
  pair of the first `w` bytes but the last, and decodes to the bytes in front of
  that pair; `count` and `last_byte` are the pair that is missing, and `count`
  is one more than the remainder that tells where a pair begins. A flush either
  finds no room, and then the pairs so far need more than there is, or writes
  that pair without touching the others (`WriteNext`). This rests on
  `SmallModulus`, that is on the hypothesis that the index does not wrap.
* The CRC: `CrcDetectsBursts`, for every odd polynomial and all messages of fewer
  than 255 bytes (the loop of `crc8` counts them in 8 bits). A turn of the loop
  over the bits respects exclusive or and takes no byte but 0 to 0 (`OneBitXor`,
  `OneBitZero`; here the polynomial has to be odd), and so do eight. A burst of
  byte `bits`, moved `s` places to the left across two bytes, changes the register
  by what `bits` becomes after `s` turns (`WindowTurns`), which is not 0, and what
  follows cannot cancel it (`BurstSeen`).

The assumptions are those named in the modules (`BufferAssumption`,
`HeapAssumption`, `VMAssumption`, `HalfAssumption`, `SensorAssumption`,
`HashAssumption`, `MsAssumption`, `DebounceAssumption`, `ButtonAssumption`,
`PingPongAssumption`, `UartAssumption`, `ConfigAssumption`, `ShellAssumption`,
`ListAssumption`, `RleAssumption`, `CrcAssumption`); every run of a module evaluates them on its instance. They say
what the code's constants and types give: sizes are positive, words fit their
width, there are finitely many addresses, NULL is none of them, a line is a
sequence of words.

Model-checked only: liveness under fairness (`Drained`, both `Returns`,
`Terminates`, `MeasuringBegins`, `NeverWedged`, `RxErrorSettles`, `Settles`),
which is out of the prover's reach.
