-------------------------- MODULE Programs_proofs ---------------------------
(***************************************************************************)
(* Theorems about the small programs: the clocks (MsCounter, Debounce and  *)
(* ButtonPress), PingPong, UartParser, Config, Shell, LinkedList,          *)
(* RunLength and Crc8.                                                     *)
(***************************************************************************)
EXTENDS MsCounter, Debounce, ButtonPress, PingPong, UartParser, Config, Shell,
        LinkedList, RunLength, Crc8, FiniteSetTheorems,
        WellFoundedInduction, TLAPS

(* Induction on the natural numbers, in terms of sets: < is well-founded.  *)

Below == {ss \in Nat \X Nat : ss[1] < ss[2]}

LEMMA BelowWF == IsWellFoundedOn(Below, Nat)
BY NatLessThanWellFounded DEF OpToRel, Below

\* Every set of naturals that is not empty has a least element.
LEMMA LeastElement ==
  ASSUME NEW T \in SUBSET Nat, T # {}
  PROVE  \E x \in T : \A y \in T : x <= y
<1>1. \E x \in T : \A y \in T : ~ (<<y, x>> \in Below)
  BY BelowWF, WFMin
<1>2. \A x, y \in Nat : <<y, x>> \in Below <=> y < x
  BY DEF Below
<1>3. PICK x \in T : \A y \in T : ~ (<<y, x>> \in Below)
  BY <1>1
<1>4. \A y \in T : x \in Nat /\ y \in Nat /\ ~(y < x)
  BY <1>2, <1>3
<1> QED BY <1>4

\* Induction: a set with 0 in it, and the successor of what is in it.
LEMMA Induction ==
  ASSUME NEW S, 0 \in S, \A n \in Nat : n \in S => n + 1 \in S
  PROVE  Nat \subseteq S
<1> DEFINE T == {n \in Nat : n \notin S}
<1> SUFFICES ASSUME T # {} PROVE FALSE
  OBVIOUS
<1>1. PICK x \in T : \A y \in T : x <= y
  BY LeastElement
<1>2. x - 1 \in Nat /\ x - 1 \in S
  BY <1>1
<1> QED BY <1>1, <1>2

\* Two sequences with the same elements.
LEMMA SameSequence ==
  ASSUME NEW S, NEW s \in Seq(S), NEW t \in Seq(S), Len(s) = Len(t),
         \A k \in 1 .. Len(s) : s[k] = t[k]
  PROVE  s = t
OBVIOUS

\* As many values as arguments, when no value is there twice.
LEMMA InjectiveImage ==
  ASSUME NEW S, IsFiniteSet(S), NEW f, \A a, b \in S : f[a] = f[b] => a = b
  PROVE  /\ IsFiniteSet({f[a] : a \in S})
         /\ Cardinality({f[a] : a \in S}) = Cardinality(S)
<1> DEFINE T == {f[a] : a \in S}
           g == [a \in S |-> f[a]]
<1>1. g \in Bijection(S, T)
  BY DEF Bijection, Injection, Surjection, IsInjective
<1>2. ExistsBijection(S, T)
  BY <1>1 DEF ExistsBijection
<1> HIDE DEF T, g
<1>3. IsFiniteSet(T) /\ Cardinality(T) = Cardinality(S)
  BY <1>2, FS_Bijection
<1> QED BY <1>3 DEF T

-----------------------------------------------------------------------------
(* Counters that go round.                                                *)

\* The unsigned difference of two times, without the remainder.
LEMMA Difference ==
  ASSUME NEW M \in Nat \ {0}, NEW a \in 0 .. M - 1, NEW b \in 0 .. M - 1
  PROVE  (a - b) % M = IF a >= b THEN a - b ELSE a - b + M
<1>1. CASE a >= b
  <2>1. a - b \in 0 .. M - 1
    BY <1>1
  <2>2. (a - b) % M = a - b
    BY <2>1
  <2> QED BY <1>1, <2>2
<1>2. CASE a < b
  <2> DEFINE d == a - b
  <2>1. d \in Int /\ -M <= d /\ d < 0
    BY <1>2
  <2> HIDE DEF d
  <2>2. d % M = d + M
    BY <2>1
  <2> QED BY <1>2, <2>2 DEF d
<1> QED BY <1>1, <1>2

\* The next value of a counter, without the remainder.
LEMMA Successor ==
  ASSUME NEW M \in Nat \ {0}, NEW a \in 0 .. M - 1
  PROVE  (a + 1) % M = IF a = M - 1 THEN 0 ELSE a + 1
<1>1. CASE a = M - 1
  <2>1. M % M = 0
    OBVIOUS
  <2> QED BY <1>1, <2>1
<1>2. CASE a # M - 1
  <2>1. a + 1 \in 0 .. M - 1
    BY <1>2
  <2>2. (a + 1) % M = a + 1
    BY <2>1
  <2> QED BY <1>2, <2>2
<1> QED BY <1>1, <1>2

-----------------------------------------------------------------------------
(* MsCounter: what the counter and what was read of it say of the time     *)
(* that really passed, as long as they did not go round unseen.            *)

\* Now is a milliseconds behind then, on a counter of MS_VALUES.
Behind(then, now, a) ==
  a < MS_VALUES => now = then + a \/ now = then + a - MS_VALUES

\* The time from which age counts.
Origin == IF wanted = "start" /\ step \in {"enable", "use"} THEN temp
          ELSE start_time

CounterInv == /\ CounterTypeOK
              /\ Behind(Origin, ms_counter, age)
              /\ (wanted # "start" /\ step \in {"enable", "use"}) =>
                   Behind(start_time, temp, age_read)
              /\ VerdictIsTrue

LEMMA CounterInitInv == CounterInit => CounterInv
<1> SUFFICES ASSUME CounterInit PROVE CounterInv
  OBVIOUS
<1> USE MsAssumption
<1>1. CounterTypeOK
  <2>1. /\ interrupts_disabled \in BOOLEAN /\ verdict \in BOOLEAN
        /\ interrupts_disabled <=> step \in {"read", "enable"}
    BY ZenonT(20) DEF CounterInit
  <2>2. 0 \in Times /\ 0 \in 0 .. MS_VALUES
    BY DEF Times
  <2> QED BY <2>1, <2>2 DEF CounterInit, CounterTypeOK
<1>2. Origin = start_time /\ Behind(start_time, ms_counter, age)
  BY DEF CounterInit, Behind, Origin, Times
<1> QED BY <1>1, <1>2 DEF CounterInit, CounterInv, VerdictIsTrue

LEMMA TimerKeepsInv == CounterInv /\ timer_isr_simulate => CounterInv'
<1> SUFFICES ASSUME CounterInv, timer_isr_simulate PROVE CounterInv'
  OBVIOUS
<1> USE MsAssumption DEF timer_isr_simulate
<1>1. ms_counter' = IF ms_counter = MS_VALUES - 1 THEN 0 ELSE ms_counter + 1
  BY Successor DEF CounterInv, CounterTypeOK, Times
<1>2. CounterTypeOK'
  BY <1>1 DEF CounterInv, CounterTypeOK, Times
<1>3. Behind(Origin, ms_counter, age)'
  <2>1. Origin \in Times /\ Origin' = Origin
    BY DEF CounterInv, CounterTypeOK, Origin
  <2> QED BY <1>1, <2>1 DEF CounterInv, CounterTypeOK, Behind, Times
<1> QED BY <1>2, <1>3 DEF CounterInv, Behind, VerdictIsTrue

LEMMA ReadKeepsInv ==
  CounterInv /\ (disable_interrupts \/ ReadCounter \/ enable_interrupts)
    => CounterInv'
<1> SUFFICES ASSUME CounterInv,
                    disable_interrupts \/ ReadCounter \/ enable_interrupts
             PROVE  CounterInv'
  OBVIOUS
<1> USE MsAssumption
<1>1. CASE disable_interrupts
  BY <1>1 DEF disable_interrupts, CounterInv, CounterTypeOK, Behind, Origin,
              VerdictIsTrue, Times
<1>2. CASE ReadCounter
  BY <1>2 DEF ReadCounter, CounterInv, CounterTypeOK, Behind, Origin,
              VerdictIsTrue, Times
<1>3. CASE enable_interrupts
  BY <1>3 DEF enable_interrupts, CounterInv, CounterTypeOK, Behind, Origin,
              VerdictIsTrue, Times
<1> QED BY <1>1, <1>2, <1>3

\* What has_elapsed and is_watchdog_starved compute is right, as far as the
\* counter can tell.
LEMMA ElapsedIsTrue ==
  ASSUME NEW then \in Times, NEW now \in Times, NEW a \in 0 .. MS_VALUES,
         NEW duration \in Times, Behind(then, now, a)
  PROVE  IF Elapsed(then, now, duration) THEN a >= duration
         ELSE a < duration \/ a = MS_VALUES
<1>1. (now - then) % MS_VALUES =
        IF now >= then THEN now - then ELSE now - then + MS_VALUES
  BY Difference, MsAssumption DEF Times
<1> QED BY <1>1, MsAssumption DEF Elapsed, Behind, Times

LEMMA FinishKeepsInv ==
  CounterInv /\ Finish /\ (Begin \/ has_elapsed \/ is_watchdog_starved)
    => CounterInv'
<1> SUFFICES ASSUME CounterInv, Finish,
                    Begin \/ has_elapsed \/ is_watchdog_starved
             PROVE  CounterInv'
  OBVIOUS
<1> USE MsAssumption DEF Finish
<1>1. CASE Begin
  <2>1. wanted' = "start" /\ start_time' = temp /\ verdict' = FALSE
    BY <1>1 DEF Begin
  <2>2. CounterTypeOK'
    BY <2>1 DEF CounterInv, CounterTypeOK
  <2>3. Origin = temp /\ Origin' = temp
    BY <1>1, <2>1 DEF Begin, Origin
  <2> QED BY <2>1, <2>2, <2>3 DEF CounterInv, Behind, VerdictIsTrue
<1>2. CASE has_elapsed \/ is_watchdog_starved
  <2>1. /\ wanted \in {"elapsed", "starved"} /\ UNCHANGED start_time
        /\ verdict' = Elapsed(start_time, temp, duration_ms)
    BY <1>2 DEF has_elapsed, is_watchdog_starved
  <2>2. verdict' \in BOOLEAN
    BY <2>1 DEF Elapsed
  <2>3. IF verdict' THEN age_read >= duration_ms
        ELSE age_read < duration_ms \/ age_read = MS_VALUES
    BY <2>1, ElapsedIsTrue DEF CounterInv, CounterTypeOK
  <2>4. VerdictIsTrue'
    BY <2>1, <2>3 DEF VerdictIsTrue
  <2>5. CounterTypeOK'
    BY <2>1, <2>2 DEF CounterInv, CounterTypeOK
  <2> QED BY <2>1, <2>4, <2>5 DEF CounterInv, Behind, Origin
<1> QED BY <1>1, <1>2

LEMMA CounterInvariant == CounterSpec => []CounterInv
<1>1. CounterInit => CounterInv
  BY CounterInitInv
<1>2. CounterInv /\ [CounterNext]_counterVars => CounterInv'
  <2> SUFFICES ASSUME CounterInv, [CounterNext]_counterVars PROVE CounterInv'
    OBVIOUS
  <2>1. CASE timer_isr_simulate
    BY <2>1, TimerKeepsInv
  <2>2. CASE disable_interrupts \/ ReadCounter \/ enable_interrupts
    BY <2>2, ReadKeepsInv
  <2>3. CASE Finish /\ (Begin \/ has_elapsed \/ is_watchdog_starved)
    BY <2>3, FinishKeepsInv
  <2>4. CASE UNCHANGED counterVars
    BY <2>4 DEF counterVars, CounterInv, CounterTypeOK, Behind, Origin,
                VerdictIsTrue
  <2> QED BY <2>1, <2>2, <2>3, <2>4 DEF CounterNext
<1> QED BY <1>1, <1>2, PTL DEF CounterSpec

\* The fields of the counter programs keep their ranges.
THEOREM CounterTyped == CounterSpec => []CounterTypeOK
<1>1. CounterInv => CounterTypeOK
  BY DEF CounterInv
<1> QED BY <1>1, CounterInvariant, PTL

\* has_elapsed and is_watchdog_starved never declare an interval over early,
\* and declare it over when it is, wherever the counter wraps.
THEOREM VerdictHolds == CounterSpec => []VerdictIsTrue
<1>1. CounterInv => VerdictIsTrue
  BY DEF CounterInv
<1> QED BY <1>1, CounterInvariant, PTL
-----------------------------------------------------------------------------
(* Debounce: while a level waits to be confirmed and is not steady yet,    *)
(* last_time_ms is the moment it was first polled.                         *)

DebounceInv ==
  /\ DebounceTypeOK
  /\ (prev_raw # lst_state /\ steady <= DEBOUNCE_DELAY_MS) =>
       current_time_ms \in {last_time_ms + steady,
                           last_time_ms + steady - CLOCK}

LEMMA DebounceInitInv == DebounceInit => DebounceInv
<1> SUFFICES ASSUME DebounceInit PROVE DebounceInv
  OBVIOUS
<1>1. /\ prev_raw \in BOOLEAN /\ lst_state \in BOOLEAN
      /\ prev_raw = lst_state
  BY Zenon DEF DebounceInit
<1> QED BY <1>1, DebounceAssumption
        DEF DebounceInit, DebounceInv, DebounceTypeOK

LEMMA DebounceTickKeepsInv == DebounceInv /\ DebounceTick => DebounceInv'
<1> SUFFICES ASSUME DebounceInv, DebounceTick PROVE DebounceInv'
  OBVIOUS
<1>1. current_time_ms' =
        IF current_time_ms = CLOCK - 1 THEN 0 ELSE current_time_ms + 1
  BY Successor, DebounceAssumption
     DEF DebounceTick, DebounceInv, DebounceTypeOK
<1> QED BY <1>1, DebounceAssumption
           DEF DebounceTick, DebounceInv, DebounceTypeOK

\* A poll confirms nothing but what the polls have shown for long enough.
LEMMA PollConfirmsSteady ==
  ASSUME DebounceInv, NEW raw \in BOOLEAN, debounce_button(raw)
  PROVE  /\ DebounceInv'
         /\ lst_state' # lst_state =>
              lst_state' = prev_raw /\ steady > DEBOUNCE_DELAY_MS
<1> USE DebounceAssumption DEF DebounceInv, DebounceTypeOK, debounce_button
<1>1. CASE raw # prev_raw
  <2>1. last_time_ms' = current_time_ms
    BY <1>1 DEF Restarted
  <2>2. ~DelayPassed(last_time_ms')
    <3>1. (current_time_ms - current_time_ms) % CLOCK = 0
      BY Difference
    <3> QED BY <2>1, <3>1 DEF DelayPassed
  <2>3. lst_state' = lst_state
    BY <2>2
  <2> QED BY <1>1, <2>1, <2>3
<1>2. CASE raw = prev_raw
  <2>1. last_time_ms' = last_time_ms /\ steady' = steady
    BY <1>2 DEF Restarted
  <2>2. CASE lst_state' = lst_state
    BY <1>2, <2>1, <2>2
  <2>3. CASE lst_state' # lst_state
    <3>1. DelayPassed(last_time_ms) /\ lst_state' = raw
      BY <2>1, <2>3
    <3>2. prev_raw # lst_state
      BY <1>2, <2>3, <3>1
    <3>3. steady > DEBOUNCE_DELAY_MS
      <4> SUFFICES ASSUME steady <= DEBOUNCE_DELAY_MS PROVE FALSE
        OBVIOUS
      <4>1. (current_time_ms - last_time_ms) % CLOCK = steady
        BY <3>2, Difference
      <4> QED BY <3>1, <4>1 DEF DelayPassed
    <3> QED BY <1>2, <2>1, <3>1, <3>3
  <2> QED BY <2>2, <2>3
<1> QED BY <1>1, <1>2

LEMMA DebounceInvariant == DebounceSpec => []DebounceInv
<1>1. DebounceInit => DebounceInv
  BY DebounceInitInv
<1>2. DebounceInv /\ [DebounceNext]_debounceVars => DebounceInv'
  <2> SUFFICES ASSUME DebounceInv, [DebounceNext]_debounceVars
               PROVE  DebounceInv'
    OBVIOUS
  <2>1. CASE DebounceTick
    BY <2>1, DebounceTickKeepsInv
  <2>2. CASE Poll
    BY <2>2, PollConfirmsSteady DEF Poll
  <2>3. CASE UNCHANGED debounceVars
    BY <2>3 DEF debounceVars, DebounceInv, DebounceTypeOK
  <2> QED BY <2>1, <2>2, <2>3 DEF DebounceNext
<1> QED BY <1>1, <1>2, PTL DEF DebounceSpec

\* The statics of debounce_button keep their ranges.
THEOREM DebounceTyped == DebounceSpec => []DebounceTypeOK
<1>1. DebounceInv => DebounceTypeOK
  BY DEF DebounceInv
<1> QED BY <1>1, DebounceInvariant, PTL

\* debounce_button confirms only a level which every poll of at least the last
\* DEBOUNCE_DELAY_MS has shown, for every delay and counter width.
THEOREM ConfirmsOnlySteady == DebounceSpec => DebouncedIsSteady
<1>1. DebounceInv /\ [DebounceNext]_debounceVars =>
        [lst_state' # lst_state =>
           lst_state' = prev_raw /\ steady >= DEBOUNCE_DELAY_MS]_debounceVars
  <2> SUFFICES ASSUME DebounceInv, DebounceNext, lst_state' # lst_state
               PROVE  lst_state' = prev_raw /\ steady >= DEBOUNCE_DELAY_MS
    BY DEF debounceVars
  <2>1. CASE DebounceTick
    BY <2>1 DEF DebounceTick
  <2>2. CASE Poll
    <3>1. lst_state' = prev_raw /\ steady > DEBOUNCE_DELAY_MS
      BY <2>2, PollConfirmsSteady DEF Poll
    <3> QED BY <3>1, DebounceAssumption DEF DebounceInv, DebounceTypeOK
  <2> QED BY <2>1, <2>2 DEF DebounceNext
<1> QED BY <1>1, DebounceInvariant, PTL DEF DebounceSpec, DebouncedIsSteady

-----------------------------------------------------------------------------
(* ButtonPress: what a turn of the loop knows while the button interrupt   *)
(* has not come since it first looked.                                     *)

ButtonInv ==
  /\ ButtonTypeOK
  /\ noticed = 0 =>
       /\ (loop = "compare" /\ Odd) => last_change_time = raw_change_time
       /\ loop = "stamp" => Odd
       /\ loop = "look" => ~Odd
       /\ loop # "confirm"

LEMMA ButtonTypeKept ==
  ButtonTypeOK /\ [ButtonNext]_buttonVars => ButtonTypeOK'
<1> SUFFICES ASSUME ButtonTypeOK, [ButtonNext]_buttonVars
             PROVE  ButtonTypeOK'
  OBVIOUS
<1> USE ButtonAssumption DEF ButtonTypeOK, loopVars, irqVars
<1>1. CASE button_timer_isr
  <2>1. ms' \in 0 .. UINT32_VALUES - 1
    BY <1>1, Successor DEF button_timer_isr
  <2> QED BY <1>1, <2>1 DEF button_timer_isr
<1>2. CASE \E level \in BOOLEAN : button_isr_simulate(level)
  <2> PICK level \in BOOLEAN : button_isr_simulate(level)
    BY <1>2
  <2>1. raw_event_count' \in 0 .. 1
    BY Successor DEF button_isr_simulate
  <2> QED BY <2>1 DEF button_isr_simulate
<1>3. CASE FirstLook \/ Stamp \/ Compare \/ SecondLook
  BY <1>3 DEF FirstLook, Stamp, Compare, SecondLook, LoopStep, Kept
<1>4. CASE Confirm
  <2>1. confirmed_press_count' \in 0 .. 1
    BY <1>4, Successor DEF Confirm
  <2>2. confirmed_press_count' % 2 # 0 <=> confirmed_press_count' = 1
    <3>1. confirmed_press_count' \in {0, 1}
      BY <2>1
    <3>2. 0 % 2 = 0 /\ 1 % 2 = 1 /\ 1 # 0
      OBVIOUS
    <3> QED BY <3>1, <3>2, Zenon
  <2>3. /\ debounced_state' \in BOOLEAN
        /\ debounced_state' <=> confirmed_press_count' = 1
    <3>1. debounced_state' = (confirmed_press_count' % 2 # 0)
      BY <1>4 DEF Confirm
    <3> HIDE DEF loopVars, irqVars
    <3> QED BY <2>2, <3>1, Zenon
  <2> QED BY <1>4, <2>1, <2>3 DEF Confirm, LoopStep
<1>5. CASE UNCHANGED buttonVars
  BY <1>5 DEF buttonVars
<1> QED BY <1>1, <1>2, <1>3, <1>4, <1>5 DEF ButtonNext, main_loop_check

\* A change compared with itself is not DEBOUNCE_DELAY_MS old.
LEMMA NoDelay ==
  ButtonTypeOK /\ last_change_time = raw_change_time => ~DelayOver
BY Difference, ButtonAssumption DEF ButtonTypeOK, DelayOver

LEMMA ButtonStepKeepsInv ==
  ButtonInv /\ [ButtonNext]_buttonVars => ButtonInv'
<1> SUFFICES ASSUME ButtonInv, [ButtonNext]_buttonVars PROVE ButtonInv'
  OBVIOUS
<1>1. ButtonTypeOK'
  BY ButtonTypeKept DEF ButtonInv
<1> USE <1>1 DEF ButtonInv, loopVars, irqVars, LoopStep, Kept, Odd
<1>2. CASE button_timer_isr
  BY <1>2 DEF button_timer_isr
<1>3. CASE \E level \in BOOLEAN : button_isr_simulate(level)
  BY <1>3 DEF button_isr_simulate, ButtonTypeOK
<1>4. CASE FirstLook
  BY <1>4 DEF FirstLook
<1>5. CASE Stamp
  BY <1>5 DEF Stamp
<1>6. CASE Compare
  BY <1>6, NoDelay DEF Compare
<1>7. CASE SecondLook
  BY <1>7 DEF SecondLook
<1>8. CASE Confirm
  BY <1>8 DEF Confirm
<1>9. CASE UNCHANGED buttonVars
  BY <1>9 DEF buttonVars
<1> QED BY <1>2, <1>3, <1>4, <1>5, <1>6, <1>7, <1>8, <1>9
        DEF ButtonNext, main_loop_check

LEMMA ButtonInvariant == ButtonSpec => []ButtonInv
<1>1. ButtonInit => ButtonInv
  <2> SUFFICES ASSUME ButtonInit PROVE ButtonInv
    OBVIOUS
  <2>1. /\ debounced_state \in BOOLEAN /\ raw_state \in BOOLEAN
        /\ ~debounced_state
    BY Zenon DEF ButtonInit
  <2> QED BY <2>1, ButtonAssumption DEF ButtonInit, ButtonInv, ButtonTypeOK
<1> QED BY <1>1, ButtonStepKeepsInv, PTL DEF ButtonSpec

\* The variables of the two interrupts and of the main loop keep their ranges,
\* and debounced_state is the parity of the confirmed presses.
THEOREM ButtonTyped == ButtonSpec => []ButtonTypeOK
<1>1. ButtonInv => ButtonTypeOK
  BY DEF ButtonInv
<1> QED BY <1>1, ButtonInvariant, PTL

\* main_loop_check confirms a press only in a turn which the button
\* interrupted, for every delay and counter width.
THEOREM PressesNeedInterrupts == ButtonSpec => ConfirmedOnlyWhenInterrupted
<1>1. ButtonInv /\ [ButtonNext]_buttonVars =>
        [confirmed_press_count' # confirmed_press_count
           => noticed > 0]_buttonVars
  <2> SUFFICES ASSUME ButtonInv, ButtonNext,
                      confirmed_press_count' # confirmed_press_count
               PROVE  noticed > 0
    BY DEF buttonVars, loopVars
  <2>1. Confirm
    BY DEF ButtonNext, main_loop_check, button_timer_isr, button_isr_simulate,
           FirstLook, Stamp, Compare, SecondLook, Kept, loopVars
  <2>2. noticed # 0
    BY <2>1 DEF Confirm, LoopStep, ButtonInv
  <2> QED BY <2>2 DEF ButtonInv, ButtonTypeOK
<1> QED BY <1>1, ButtonInvariant, PTL
        DEF ButtonSpec, ConfirmedOnlyWhenInterrupted

-----------------------------------------------------------------------------
(* PingPong: the buffer that is full holds the last block; what is being   *)
(* copied, and what is copied of it, is newer than what was handed over.   *)

BufferFull == \A j \in Cells : buffer[FullBuffer][j] = blocks

Newer(n) == n > taken /\ n <= blocks

PingPongInv ==
  /\ PingPongTypeOK
  /\ BufferFull
  /\ \A b \in {"a", "b"}, j \in Cells : buffer[b][j] <= blocks
  /\ taken <= blocks
  /\ ((buffer_ready /\ phase = "idle") \/ phase = "choose") => taken < blocks
  /\ phase = "copy" => /\ \A j \in Cells : Newer(buffer[source][j])
                       /\ \A j \in 0 .. copied - 1 : Newer(out[j])

LEMMA PingPongInitInv == PingPongInit => PingPongInv
<1> SUFFICES ASSUME PingPongInit PROVE PingPongInv
  OBVIOUS
<1>1. /\ dma_filling_a \in BOOLEAN /\ buffer_ready \in BOOLEAN
      /\ ~buffer_ready
  BY Zenon DEF PingPongInit
<1>2. PingPongTypeOK
  BY <1>1, PingPongAssumption DEF PingPongInit, PingPongTypeOK
<1> QED BY <1>1, <1>2, PingPongAssumption
        DEF PingPongInit, PingPongInv, BufferFull, FullBuffer

\* What the interrupt does to the two buffers.
LEMMA InterruptFills ==
  ASSUME PingPongTypeOK, dma_isr_simulate
  PROVE  /\ blocks' = blocks + 1 /\ blocks' \in 0 .. MAX_BLOCKS
         /\ FullBuffer' = Filling /\ Filling \in {"a", "b"}
         /\ \A j \in Cells : buffer'[Filling][j] = blocks'
         /\ \A b \in {"a", "b"} \ {Filling} : buffer'[b] = buffer[b]
         /\ PingPongTypeOK'
         /\ UNCHANGED <<phase, source, copied, out, taken>>
<1> USE PingPongAssumption
<1> DEFINE new == [j \in Cells |-> blocks']
<1>1. /\ blocks' = blocks + 1 /\ blocks' \in 0 .. MAX_BLOCKS
      /\ buffer' = [buffer EXCEPT ![Filling] = new]
      /\ dma_filling_a' = ~dma_filling_a /\ dma_filling_a' \in BOOLEAN
      /\ Filling \in {"a", "b"}
      /\ UNCHANGED <<phase, source, copied, out, taken>>
  BY DEF dma_isr_simulate, PingPongTypeOK, Filling
<1>2. new \in [Cells -> 0 .. MAX_BLOCKS] /\ \A j \in Cells : new[j] = blocks'
  BY <1>1
<1>3. interrupts' \in 0 .. INTERRUPTS
  BY DEF dma_isr_simulate, PingPongTypeOK
<1> HIDE DEF new
<1>4. buffer' \in [{"a", "b"} -> [Cells -> 0 .. MAX_BLOCKS]]
  BY <1>1, <1>2 DEF PingPongTypeOK
<1>5. buffer_ready' \in BOOLEAN
  BY Zenon DEF dma_isr_simulate
<1>6. PingPongTypeOK'
  BY <1>1, <1>3, <1>4, <1>5 DEF PingPongTypeOK
<1>7. FullBuffer' = Filling
  BY <1>1 DEF FullBuffer, Filling, PingPongTypeOK
<1>8. /\ buffer'[Filling] = new
      /\ \A b \in {"a", "b"} \ {Filling} : buffer'[b] = buffer[b]
  BY <1>1 DEF PingPongTypeOK
<1> QED BY <1>1, <1>2, <1>6, <1>7, <1>8

LEMMA InterruptKeepsInv ==
  ASSUME PingPongInv, dma_isr_simulate
  PROVE  PingPongInv'
<1> USE PingPongAssumption DEF PingPongInv
<1>1. /\ blocks' = blocks + 1 /\ blocks' \in 0 .. MAX_BLOCKS
      /\ FullBuffer' = Filling /\ Filling \in {"a", "b"}
      /\ \A j \in Cells : buffer'[Filling][j] = blocks'
      /\ \A b \in {"a", "b"} \ {Filling} : buffer'[b] = buffer[b]
      /\ PingPongTypeOK'
      /\ UNCHANGED <<phase, source, copied, out, taken>>
  BY InterruptFills
<1>2. taken \in Nat /\ blocks \in Nat /\ taken' < blocks'
  BY <1>1 DEF PingPongTypeOK
<1>3. \A b \in {"a", "b"}, j \in Cells :
        /\ buffer[b][j] \in Nat
        /\ buffer'[b][j] = blocks' \/ buffer'[b][j] = buffer[b][j]
  BY <1>1 DEF PingPongTypeOK
<1>4. \A b \in {"a", "b"}, j \in Cells : buffer'[b][j] <= blocks'
  BY <1>1, <1>2, <1>3
<1>5. ASSUME phase = "copy"
      PROVE  /\ \A j \in Cells : Newer(buffer[source][j])'
             /\ \A j \in 0 .. copied' - 1 : Newer(out[j])'
  <2>1. \A j \in Cells : Newer(buffer[source][j])'
    BY <1>1, <1>2, <1>3, <1>4, <1>5 DEF Newer, PingPongTypeOK
  <2>2. \A j \in 0 .. copied - 1 : out[j] \in Nat
    BY DEF PingPongTypeOK, Cells
  <2> QED BY <1>1, <1>2, <1>5, <2>1, <2>2 DEF Newer
<1> QED BY <1>1, <1>2, <1>4, <1>5 DEF BufferFull

LEMMA LoopKeepsInv ==
  ASSUME PingPongInv, process_ready_buffer
  PROVE  PingPongInv'
<1> USE PingPongAssumption DEF PingPongInv, shared
<1>1. CASE CheckReady
  BY <1>1 DEF CheckReady, PingPongTypeOK, BufferFull, FullBuffer
<1>2. CASE ChooseBuffer
  <2>1. PingPongTypeOK'
    BY <1>2 DEF ChooseBuffer, PingPongTypeOK, FullBuffer
  <2>2. /\ source' = FullBuffer /\ FullBuffer' = FullBuffer /\ copied' = 0
        /\ phase' = "copy" /\ taken < blocks
        /\ UNCHANGED <<buffer, blocks, taken>>
    BY <1>2 DEF ChooseBuffer, FullBuffer
  <2>3. taken \in Nat /\ blocks \in Nat
    BY DEF PingPongTypeOK
  <2>4. BufferFull'
    BY <2>2 DEF BufferFull
  <2>5. \A j \in Cells : Newer(buffer[source][j])'
    BY <2>2, <2>3, <2>4 DEF BufferFull, Newer
  <2> QED BY <2>1, <2>2, <2>3, <2>4, <2>5
<1>3. CASE CopySample
  <2>1. /\ copied \in Cells /\ copied' = copied + 1 /\ phase = "copy"
        /\ out' = [out EXCEPT ![copied] = buffer[source][copied]]
        /\ buffer[source][copied] \in 0 .. MAX_BLOCKS
        /\ UNCHANGED <<buffer, dma_filling_a, blocks, buffer_ready, phase,
                       source, taken, interrupts>>
    BY <1>3 DEF CopySample, PingPongTypeOK, Cells
  <2>2. PingPongTypeOK'
    BY <2>1 DEF PingPongTypeOK, Cells
  <2>3. \A j \in 0 .. copied' - 1 : out'[j] = IF j = copied
                                              THEN buffer[source][copied]
                                              ELSE out[j]
    BY <2>1 DEF PingPongTypeOK, Cells
  <2>4. \A j \in 0 .. copied' - 1 : Newer(out[j])'
    BY <2>1, <2>3 DEF Newer, PingPongTypeOK, Cells
  <2> QED BY <2>1, <2>2, <2>4 DEF BufferFull, FullBuffer, Newer
<1>4. CASE HandOver
  <2>1. phase = "copy" /\ copied = BUFFER_SIZE /\ taken' = out[0]
    BY <1>4 DEF HandOver
  <2>2. Newer(out[0])
    BY <2>1
  <2>3. ~buffer_ready' /\ buffer_ready' \in BOOLEAN /\ phase' = "idle"
    BY <1>4, Zenon DEF HandOver
  <2>4. PingPongTypeOK'
    BY <1>4, <2>1, <2>3 DEF HandOver, PingPongTypeOK, Cells
  <2> QED BY <1>4, <2>1, <2>2, <2>3, <2>4
          DEF HandOver, BufferFull, FullBuffer, Newer
<1> QED BY <1>1, <1>2, <1>3, <1>4 DEF process_ready_buffer

LEMMA PingPongInvariant == PingPongSpec => []PingPongInv
<1>1. PingPongInv /\ [PingPongNext]_pingPongVars => PingPongInv'
  <2> SUFFICES ASSUME PingPongInv, [PingPongNext]_pingPongVars
               PROVE  PingPongInv'
    OBVIOUS
  <2>1. CASE dma_isr_simulate
    BY <2>1, InterruptKeepsInv
  <2>2. CASE process_ready_buffer
    BY <2>2, LoopKeepsInv
  <2>3. CASE UNCHANGED pingPongVars
    BY <2>3 DEF pingPongVars, PingPongInv, PingPongTypeOK, BufferFull,
                FullBuffer, Newer
  <2> QED BY <2>1, <2>2, <2>3 DEF PingPongNext
<1> QED BY <1>1, PingPongInitInv, PTL DEF PingPongSpec

\* What process_ready_buffer hands over is newer than all it handed over
\* before, for every size of the buffers and however often it is interrupted.
THEOREM CopiesNewer == PingPongSpec => NewerEachTime
<1>1. PingPongInv /\ [PingPongNext]_pingPongVars =>
        [(phase = "copy" /\ phase' = "idle") => taken' > taken]_pingPongVars
  <2> SUFFICES ASSUME PingPongInv, PingPongNext,
                      phase = "copy", phase' = "idle"
               PROVE  taken' > taken
    BY DEF pingPongVars
  <2>1. HandOver
    BY DEF PingPongNext, process_ready_buffer, dma_isr_simulate, CheckReady,
           ChooseBuffer, CopySample
  <2> QED BY <2>1, PingPongAssumption DEF HandOver, PingPongInv, Newer
<1> QED BY <1>1, PingPongInvariant, PTL DEF PingPongSpec, NewerEachTime

\* The DMA fills the buffer being copied only when it has interrupted the
\* copy once already, so what is copied is all of one block.
CopyInv ==
  phase = "copy" =>
    /\ source \in {"a", "b"} /\ (source = Filling => interrupts >= 1)
    /\ \A j \in Cells : buffer[source][j] = buffer[source][0]
    /\ \A j \in 0 .. copied - 1 : out[j] = buffer[source][0]

LEMMA CopyStep ==
  ASSUME INTERRUPTS <= 1, PingPongInv, CopyInv, PingPongNext
  PROVE  CopyInv'
<1> USE PingPongAssumption DEF PingPongInv, CopyInv, shared
<1>1. CASE dma_isr_simulate
  <2> SUFFICES ASSUME phase = "copy" PROVE CopyInv'
    BY <1>1 DEF dma_isr_simulate
  <2>1. interrupts = 0 /\ interrupts' = 1
    BY <1>1 DEF dma_isr_simulate, PingPongTypeOK
  <2>2. source \in {"a", "b"} \ {Filling}
    BY <2>1
  <2>3. buffer'[source] = buffer[source]
    BY <1>1, <2>2, InterruptFills
  <2> QED BY <1>1, <2>1, <2>3 DEF dma_isr_simulate
<1>2. CASE CheckReady
  BY <1>2 DEF CheckReady
<1>3. CASE ChooseBuffer
  BY <1>3 DEF ChooseBuffer, BufferFull, FullBuffer, Filling, Cells
<1>4. CASE CopySample
  <2>1. copied \in Cells
    BY <1>4 DEF CopySample, PingPongTypeOK, Cells
  <2>2. \A j \in 0 .. copied : out'[j] = buffer[source][0]
    BY <1>4, <2>1 DEF CopySample, PingPongTypeOK, Cells
  <2> QED BY <1>4, <2>1, <2>2 DEF CopySample, Filling, Cells
<1>5. CASE HandOver
  BY <1>5 DEF HandOver
<1> QED BY <1>1, <1>2, <1>3, <1>4, <1>5
        DEF PingPongNext, process_ready_buffer

\* What process_ready_buffer hands over is one block of the DMA, for every
\* size of the buffers, as long as a copy is interrupted at most once.
THEOREM CopiesUntorn ==
  ASSUME INTERRUPTS <= 1
  PROVE  PingPongSpec => []Untorn
<1>1. PingPongInit => CopyInv
  BY DEF PingPongInit, CopyInv
<1>2. PingPongInv /\ CopyInv /\ [PingPongNext]_pingPongVars => CopyInv'
  <2>1. CopyInv /\ UNCHANGED pingPongVars => CopyInv'
    BY DEF pingPongVars, CopyInv, Filling
  <2> QED BY <2>1, CopyStep
<1>3. CopyInv => Untorn
  BY PingPongAssumption DEF CopyInv, Untorn, Cells
<1> QED BY <1>1, <1>2, <1>3, PingPongInvariant, PTL DEF PingPongSpec

-----------------------------------------------------------------------------
(* UartParser: the index of the payload.                                   *)

LEMMA FeedKeepsType ==
  ASSUME UartTypeOK, NEW b \in Bytes, byte' = b, parser_feed_byte(b)
  PROVE  UartTypeOK'
<1> USE UartAssumption DEF UartTypeOK, States, Slots, GoTo, Sum
<1>1. CASE WaitStart(b)
  BY <1>1 DEF WaitStart
<1>2. CASE WaitCmd(b)
  BY <1>2 DEF WaitCmd
<1>3. CASE WaitLen(b)
  <2>1. valid' = FALSE /\ payload_idx = 0 /\ b \in Nat
    BY <1>3 DEF WaitLen, RefuseLen, AcceptLen
  <2>2. CASE RefuseLen(b)
    BY <1>3, <2>1, <2>2 DEF WaitLen, RefuseLen
  <2>3. CASE AcceptLen(b)
    <3>1. checksum_calc' \in Bytes
      BY <2>3 DEF AcceptLen
    <3>2. len' = b /\ b \in 0 .. MAX_PAYLOAD
      BY <2>1, <2>3 DEF AcceptLen
    <3>3. state' = IF b = 0 THEN "WAIT_CHECKSUM" ELSE "WAIT_PAYLOAD"
      BY <2>3 DEF AcceptLen
    <3>4. valid' \in BOOLEAN
      BY <2>1
    <3> HIDE DEF GoTo, Sum
    <3> QED BY <1>3, <2>1, <3>1, <3>2, <3>3, <3>4 DEF WaitLen
  <2> QED BY <1>3, <2>2, <2>3 DEF WaitLen
<1>4. CASE WaitPayload(b)
  <2>1. payload_idx <= len - 1 /\ valid' = FALSE
    BY <1>4 DEF WaitPayload
  <2>2. Store(b) /\ payload_idx' = NextIndex
    BY <1>4, <2>1 DEF WaitPayload
  <2>3. payload' \in [Slots -> Bytes] /\ checksum_calc' \in Bytes
    BY <2>2 DEF Store
  <2>4. /\ state' = IF LastByte THEN "WAIT_CHECKSUM" ELSE state
        /\ UNCHANGED <<cmd, len>> /\ valid' \in BOOLEAN
    BY <1>4, <2>1 DEF WaitPayload
  <2>5. /\ payload_idx' \in Slots
        /\ IF LastByte THEN payload_idx' = 0 ELSE payload_idx' < len
    BY <1>4, <2>1, <2>2 DEF WaitPayload, NextIndex, LastByte
  <2> HIDE DEF GoTo, Sum
  <2> QED BY <1>4, <2>3, <2>4, <2>5 DEF WaitPayload
<1>5. CASE WaitChecksum(b)
  BY <1>5 DEF WaitChecksum
<1> QED BY <1>1, <1>2, <1>3, <1>4, <1>5 DEF parser_feed_byte

LEMMA UartInitTyped == UartInit => UartTypeOK
<1> SUFFICES ASSUME UartInit PROVE UartTypeOK
  OBVIOUS
<1>1. valid \in BOOLEAN
  BY Zenon DEF UartInit
<1> QED BY <1>1, UartAssumption DEF UartInit, UartTypeOK, States, Slots

\* Whatever bytes arrive, payload_idx stays below len while a payload is
\* awaited, so parser_feed_byte never writes outside payload nor swallows a
\* byte for ever, and is 0 everywhere else.
THEOREM UartTyped == UartSpec => []UartTypeOK
<1>1. UartInit => UartTypeOK
  BY UartInitTyped
<1>2. UartTypeOK /\ [UartNext]_uartVars => UartTypeOK'
  <2> SUFFICES ASSUME UartTypeOK, [UartNext]_uartVars PROVE UartTypeOK'
    OBVIOUS
  <2>1. CASE UartNext
    BY <2>1, FeedKeepsType DEF UartNext
  <2>2. CASE UNCHANGED uartVars
    BY <2>2 DEF uartVars, UartTypeOK
  <2> QED BY <2>1, <2>2
<1> QED BY <1>1, <1>2, PTL DEF UartSpec

(* The checksum: the recursion that defines Parity, one element at a time. *)

\* x is the exclusive or of the first k elements, for every k up to m.
Xors(x, s, m) ==
  x = [k \in 0 .. m |-> IF k = 0 THEN 0 ELSE ByteXor(x[k - 1], s[k])]

LEMMA XorsExist ==
  ASSUME NEW s, NEW m \in Nat
  PROVE  \E x : Xors(x, s, m)
<1> DEFINE Done == {k \in Nat : \E x : Xors(x, s, k)}
<1>1. 0 \in Done
  <2> DEFINE x == [k \in {0} |-> 0]
  <2>1. 0 .. 0 = {0}
    OBVIOUS
  <2>2. Xors(x, s, 0)
    BY <2>1 DEF Xors
  <2> HIDE DEF x
  <2> QED BY <2>2
<1>2. ASSUME NEW k \in Nat, k \in Done PROVE k + 1 \in Done
  <2>1. PICK x : Xors(x, s, k)
    BY <1>2
  <2> DEFINE y == [j \in 0 .. k + 1 |-> IF j <= k THEN x[j]
                                        ELSE ByteXor(x[k], s[k + 1])]
  <2>2. /\ \A j \in 0 .. k : y[j] = x[j]
        /\ y[k + 1] = ByteXor(x[k], s[k + 1])
    OBVIOUS
  <2>3. \A j \in 0 .. k : x[j] = IF j = 0 THEN 0 ELSE ByteXor(x[j - 1], s[j])
    BY <2>1 DEF Xors
  <2>4. ASSUME NEW j \in 0 .. k + 1
        PROVE  y[j] = IF j = 0 THEN 0 ELSE ByteXor(y[j - 1], s[j])
    <3>1. CASE j = k + 1
      <4>1. j - 1 = k /\ j # 0 /\ y[k] = x[k]
        BY <2>2, <3>1
      <4> QED BY <2>2, <3>1, <4>1
    <3>2. CASE j # k + 1
      <4>1. j \in 0 .. k /\ (j # 0 => j - 1 \in 0 .. k)
        BY <3>2
      <4> HIDE DEF y
      <4> QED BY <2>2, <2>3, <4>1
    <3> QED BY <3>1, <3>2
  <2>5. Xors(y, s, k + 1)
    BY <2>4 DEF Xors
  <2> HIDE DEF y
  <2> QED BY <2>5
<1> HIDE DEF Done
<1>3. Nat \subseteq Done
  BY <1>1, <1>2, Induction
<1> QED BY <1>3 DEF Done

\* There is only one such x, and it does not look behind m.
LEMMA XorsAgree ==
  ASSUME NEW s, NEW t, NEW m \in Nat, NEW n \in Nat, m <= n,
         \A k \in 1 .. m : s[k] = t[k],
         NEW x, Xors(x, s, m), NEW y, Xors(y, t, n)
  PROVE  \A k \in 0 .. m : x[k] = y[k]
<1> DEFINE Same == {k \in Nat : k <= m => x[k] = y[k]}
<1>1. 0 \in Same
  BY DEF Xors
<1>2. ASSUME NEW k \in Nat, k \in Same PROVE k + 1 \in Same
  <2> SUFFICES ASSUME k + 1 <= m PROVE x[k + 1] = y[k + 1]
    OBVIOUS
  <2>1. k + 1 \in 1 .. m /\ k + 1 \in 0 .. n /\ (k + 1) - 1 = k /\ k + 1 # 0
    OBVIOUS
  <2>2. x[k + 1] = ByteXor(x[k], s[k + 1])
    BY <2>1 DEF Xors
  <2>3. y[k + 1] = ByteXor(y[k], t[k + 1])
    BY <2>1 DEF Xors
  <2>4. x[k] = y[k]
    BY <1>2, <2>1
  <2> QED BY <2>1, <2>2, <2>3, <2>4
<1> HIDE DEF Same
<1>3. Nat \subseteq Same
  BY <1>1, <1>2, Induction
<1> QED BY <1>3 DEF Same

LEMMA ParityOf ==
  ASSUME NEW s, Len(s) \in Nat
  PROVE  \E x : Xors(x, s, Len(s)) /\ Receiver!Parity(s) = x[Len(s)]
<1> DEFINE x == CHOOSE x : Xors(x, s, Len(s))
<1>1. Xors(x, s, Len(s))
  BY XorsExist
<1>2. Receiver!Parity(s) = x[Len(s)]
  BY DEF Receiver!Parity, Xors
<1> HIDE DEF x
<1> QED BY <1>1, <1>2

LEMMA ParityOfNone == Receiver!Parity(<< >>) = 0
<1>1. PICK x : /\ Xors(x, << >>, Len(<< >>))
               /\ Receiver!Parity(<< >>) = x[Len(<< >>)]
  BY ParityOf
<1> QED BY <1>1 DEF Xors

LEMMA ParityStep ==
  ASSUME NEW s \in Seq(Nat), NEW b \in Nat
  PROVE  Receiver!Parity(Append(s, b)) = ByteXor(Receiver!Parity(s), b)
<1> DEFINE t == Append(s, b)
           m == Len(s)
<1>1. /\ m \in Nat /\ Len(t) = m + 1 /\ t[m + 1] = b
      /\ \A k \in 1 .. m : s[k] = t[k]
  OBVIOUS
<1> HIDE DEF t, m
<1>2. PICK x : Xors(x, s, m) /\ Receiver!Parity(s) = x[m]
  BY <1>1, ParityOf DEF m
<1>3. PICK y : Xors(y, t, m + 1) /\ Receiver!Parity(t) = y[m + 1]
  BY <1>1, ParityOf
<1>4. x[m] = y[m]
  BY <1>1, <1>2, <1>3, XorsAgree
<1>5. y[m + 1] = ByteXor(y[m], t[m + 1])
  <2>1. m + 1 \in 0 .. m + 1 /\ (m + 1) - 1 = m /\ m + 1 # 0
    BY <1>1
  <2> QED BY <1>3, <2>1 DEF Xors
<1> QED BY <1>1, <1>2, <1>3, <1>4, <1>5 DEF t

(* The refinement.  Frame is what the fields stand for.                    *)

Frame == CASE state = "WAIT_LEN" -> <<cmd>>
           [] state = "WAIT_PAYLOAD" -> Header(payload_idx)
           [] state = "WAIT_CHECKSUM" -> Header(len)
           [] OTHER -> << >>

ReceiverInv == /\ UartTypeOK
               /\ checksum_calc = Receiver!Parity(Frame)

\* Header(k), over values.
Fields(c, l, p, k) == <<c, l>> \o [j \in 1 .. k |-> p[j - 1]]

LEMMA FieldsAre ==
  ASSUME NEW c \in Nat, NEW l \in Nat, NEW p, NEW k \in Nat,
         \A j \in 0 .. k - 1 : p[j] \in Nat
  PROVE  /\ Fields(c, l, p, k) \in Seq(Nat) /\ Len(Fields(c, l, p, k)) = 2 + k
         /\ Fields(c, l, p, k)[1] = c /\ Fields(c, l, p, k)[2] = l
         /\ \A j \in 1 .. k : Fields(c, l, p, k)[2 + j] = p[j - 1]
<1> DEFINE tail == [j \in 1 .. k |-> p[j - 1]]
<1>1. tail \in Seq(Nat) /\ Len(tail) = k
  <2>1. \A j \in 1 .. k : p[j - 1] \in Nat
    BY Z3
  <2>2. tail \in [1 .. k -> Nat]
    BY <2>1
  <2> QED BY <2>2
<1>2. \A j \in 1 .. k : tail[j] = p[j - 1]
  OBVIOUS
<1> HIDE DEF tail
<1>3. <<c, l>> \in Seq(Nat) /\ Len(<<c, l>>) = 2
  OBVIOUS
<1>4. Fields(c, l, p, k) = <<c, l>> \o tail
  BY DEF Fields, tail
<1>5. /\ Fields(c, l, p, k) \in Seq(Nat) /\ Len(Fields(c, l, p, k)) = 2 + k
      /\ Fields(c, l, p, k)[1] = c /\ Fields(c, l, p, k)[2] = l
  BY <1>1, <1>3, <1>4
<1>6. ASSUME NEW j \in 1 .. k PROVE Fields(c, l, p, k)[2 + j] = p[j - 1]
  BY <1>1, <1>2, <1>3, <1>4, <1>6
<1> QED BY <1>5, <1>6

\* One more payload byte.
LEMMA FieldsAppend ==
  ASSUME NEW c \in Nat, NEW l \in Nat, NEW p, NEW q, NEW k \in Nat,
         \A j \in 0 .. k - 1 : p[j] \in Nat /\ q[j] = p[j],
         q[k] \in Nat
  PROVE  Fields(c, l, q, k + 1) = Append(Fields(c, l, p, k), q[k])
<1> DEFINE s == Fields(c, l, p, k)
           t == Fields(c, l, q, k + 1)
<1>1. /\ s \in Seq(Nat) /\ Len(s) = 2 + k /\ s[1] = c /\ s[2] = l
      /\ \A j \in 1 .. k : s[2 + j] = p[j - 1]
  BY FieldsAre
<1>2. /\ t \in Seq(Nat) /\ Len(t) = 2 + (k + 1) /\ t[1] = c /\ t[2] = l
      /\ \A j \in 1 .. k + 1 : t[2 + j] = q[j - 1]
  <2>1. \A j \in 0 .. (k + 1) - 1 : q[j] \in Nat
    OBVIOUS
  <2> QED BY <2>1, FieldsAre
<1> HIDE DEF s, t
<1> DEFINE u == Append(s, q[k])
<1>3. /\ u \in Seq(Nat) /\ Len(u) = 3 + k /\ u[3 + k] = q[k]
      /\ \A j \in 1 .. 2 + k : u[j] = s[j]
  BY <1>1
<1> HIDE DEF u
<1>4. ASSUME NEW j \in 1 .. 3 + k PROVE t[j] = u[j]
  <2>1. CASE j <= 2
    BY <1>1, <1>2, <1>3, <2>1
  <2>2. CASE j > 2
    <3> DEFINE x == j - 2
    <3>1. x \in 1 .. k + 1 /\ j = 2 + x /\ x - 1 \in 0 .. k
      BY <2>2
    <3> HIDE DEF x
    <3>2. t[j] = q[x - 1]
      BY <1>2, <3>1
    <3>3. CASE x = k + 1
      BY <1>3, <3>1, <3>2, <3>3
    <3>4. CASE x # k + 1
      <4>1. x \in 1 .. k /\ x - 1 \in 0 .. k - 1
        BY <3>1, <3>4
      <4>2. s[j] = p[x - 1] /\ u[j] = s[j]
        BY <1>1, <1>3, <3>1, <4>1
      <4> QED BY <3>2, <4>1, <4>2
    <3> QED BY <3>3, <3>4
  <2> QED BY <2>1, <2>2
<1>5. t = u
  BY <1>2, <1>3, <1>4, SameSequence
<1> QED BY <1>5 DEF s, t, u

\* The payload that is there.
LEMMA PayloadIs ==
  ASSUME UartTypeOK
  PROVE  /\ cmd \in Nat /\ len \in 0 .. MAX_PAYLOAD /\ len \in Nat
         /\ payload_idx \in 0 .. MAX_PAYLOAD
         /\ MAX_PAYLOAD \in Nat /\ checksum_calc \in Nat
         /\ \A j \in 0 .. MAX_PAYLOAD - 1 : payload[j] \in Nat
<1>1. /\ MAX_PAYLOAD \in Nat \ {0} /\ Bytes \subseteq Nat
      /\ cmd \in Bytes /\ len \in 0 .. MAX_PAYLOAD /\ checksum_calc \in Bytes
      /\ payload \in [0 .. MAX_PAYLOAD - 1 -> Bytes]
      /\ payload_idx \in 0 .. MAX_PAYLOAD - 1
  BY UartAssumption DEF UartTypeOK, Slots
<1>2. \A j \in 0 .. MAX_PAYLOAD - 1 : payload[j] \in Nat
  BY <1>1
<1>3. MAX_PAYLOAD \in Nat /\ payload_idx \in 0 .. MAX_PAYLOAD
  BY <1>1
<1> QED BY <1>1, <1>2, <1>3

LEMMA FrameIs ==
  ASSUME UartTypeOK
  PROVE  /\ Frame \in Seq(Nat)
         /\ state \in {"WAIT_START", "WAIT_CMD"} => Frame = << >>
         /\ state = "WAIT_LEN" => Frame = <<cmd>>
         /\ state = "WAIT_PAYLOAD" => Frame = Fields(cmd, len, payload,
                                                     payload_idx)
         /\ state = "WAIT_CHECKSUM" => Frame = Fields(cmd, len, payload, len)
<1>1. /\ state \in {"WAIT_START", "WAIT_CMD"} => Frame = << >>
      /\ state = "WAIT_LEN" => Frame = <<cmd>>
      /\ state = "WAIT_PAYLOAD" => Frame = Fields(cmd, len, payload,
                                                  payload_idx)
      /\ state = "WAIT_CHECKSUM" => Frame = Fields(cmd, len, payload, len)
  BY DEF Frame, Header, Fields
<1>2. CASE state \in {"WAIT_START", "WAIT_CMD"}
  <2>1. Frame = << >>
    BY <1>1, <1>2
  <2>2. Frame \in Seq(Nat)
    BY <2>1
  <2> QED BY <1>1, <2>2
<1>3. CASE state = "WAIT_LEN"
  <2>1. <<cmd>> \in Seq(Nat)
    BY PayloadIs
  <2> QED BY <1>1, <1>3, <2>1
<1>4. CASE state \in {"WAIT_PAYLOAD", "WAIT_CHECKSUM"}
  <2>1. PICK k \in 0 .. MAX_PAYLOAD : Frame = Fields(cmd, len, payload, k)
    BY <1>1, <1>4, PayloadIs
  <2>2. k \in Nat /\ \A j \in 0 .. k - 1 : payload[j] \in Nat
    BY PayloadIs
  <2>3. Fields(cmd, len, payload, k) \in Seq(Nat)
    BY <2>2, PayloadIs, FieldsAre
  <2> QED BY <1>1, <2>1, <2>3
<1> QED BY <1>1, <1>2, <1>3, <1>4 DEF UartTypeOK, States

\* A byte of a frame: it is appended, and the checksum goes along.
Taken(b) == /\ Frame' = Append(Frame, b)
            /\ checksum_calc' = ByteXor(checksum_calc, b)
            /\ state' # "WAIT_START" /\ valid' = FALSE

LEMMA ByteTaken ==
  ASSUME UartTypeOK, NEW b \in Bytes,
         parser_feed_byte(b), state \notin {"WAIT_START", "WAIT_CHECKSUM"},
         state = "WAIT_LEN" => b <= MAX_PAYLOAD
  PROVE  /\ Taken(b) /\ ~Receiver!Complete(Frame)
         /\ Len(Frame) = 1 => b <= MAX_PAYLOAD
<1>t. b \in Nat /\ Frame \in Seq(Nat) /\ MAX_PAYLOAD \in Nat
  BY FrameIs, UartAssumption
<1>1. CASE WaitCmd(b)
  <2>1. /\ Frame = << >> /\ state' = "WAIT_LEN" /\ cmd' = b /\ valid' = FALSE
        /\ Sum(b)
    BY <1>1, FrameIs DEF WaitCmd, GoTo
  <2>2. Frame' = <<b>>
    BY <2>1 DEF Frame
  <2> QED BY <2>1, <2>2 DEF Taken, Sum, Receiver!Complete
<1>2. CASE WaitLen(b)
  <2>1. /\ Frame = <<cmd>> /\ AcceptLen(b) /\ payload_idx' = 0 /\ cmd' = cmd
    BY <1>2, <1>t, FrameIs DEF WaitLen, RefuseLen, UartTypeOK
  <2>2. /\ state' = IF b = 0 THEN "WAIT_CHECKSUM" ELSE "WAIT_PAYLOAD"
        /\ len' = b /\ valid' = FALSE /\ Sum(b) /\ b <= MAX_PAYLOAD
    BY <2>1 DEF AcceptLen, GoTo
  <2>3. Frame' = <<cmd, b>>
    <3>1. Frame' = <<cmd', len'>> \o [j \in 1 .. 0 |-> payload'[j - 1]]
      BY <2>1, <2>2 DEF Frame, Header
    <3>2. [j \in 1 .. 0 |-> payload'[j - 1]] = << >>
      OBVIOUS
    <3>3. <<cmd, b>> \o << >> = <<cmd, b>>
      BY <1>t, PayloadIs
    <3> QED BY <2>1, <2>2, <3>1, <3>2, <3>3
  <2>4. Append(<<cmd>>, b) = <<cmd, b>> /\ Len(<<cmd>>) = 1
    <3> DEFINE s == <<cmd>>
               t == <<cmd, b>>
    <3>1. s \in Seq(Nat) /\ Len(s) = 1 /\ s[1] = cmd
      BY PayloadIs
    <3>2. t \in Seq(Nat) /\ Len(t) = 2 /\ t[1] = cmd /\ t[2] = b
      BY <1>t, PayloadIs
    <3> HIDE DEF s, t
    <3>3. /\ Append(s, b) \in Seq(Nat) /\ Len(Append(s, b)) = 2
          /\ Append(s, b)[1] = cmd /\ Append(s, b)[2] = b
      <4>1. \A x \in Seq(Nat) : /\ Append(x, b) \in Seq(Nat)
                                /\ Len(Append(x, b)) = Len(x) + 1
                                /\ Append(x, b)[Len(x) + 1] = b
                                /\ \A j \in 1 .. Len(x) :
                                     Append(x, b)[j] = x[j]
        BY <1>t
      <4>2. Len(s) + 1 = 2 /\ 1 \in 1 .. Len(s)
        BY <3>1
      <4>3. Append(s, b)[1] = s[1]
        BY <3>1, <4>1, <4>2
      <4> QED BY <3>1, <4>1, <4>2, <4>3
    <3>4. \A j \in 1 .. 2 : Append(s, b)[j] = t[j]
      BY <3>2, <3>3
    <3>5. Append(s, b) = t
      BY <3>2, <3>3, <3>4, SameSequence
    <3> QED BY <3>1, <3>5 DEF s, t
  <2> QED BY <1>2, <2>1, <2>2, <2>3, <2>4
          DEF Taken, Sum, Receiver!Complete, WaitLen
<1>3. CASE WaitPayload(b)
  <2> DEFINE k == payload_idx
  <2>1. /\ k \in Slots /\ k < len /\ len \in 0 .. MAX_PAYLOAD
        /\ Frame = Fields(cmd, len, payload, k)
    BY <1>3, FrameIs DEF WaitPayload, UartTypeOK
  <2>2. /\ k <= len - 1 /\ k \in Nat /\ k + 1 \in 0 .. MAX_PAYLOAD
    BY <1>t, <2>1 DEF Slots
  <2>3. /\ Store(b) /\ payload_idx' = NextIndex /\ UNCHANGED <<cmd, len>>
        /\ GoTo(IF LastByte THEN "WAIT_CHECKSUM" ELSE state)
        /\ state = "WAIT_PAYLOAD"
    BY <1>3, <2>2 DEF WaitPayload
  <2>4. Frame' = Fields(cmd, len, payload', k + 1)
    <3>1. CASE LastByte
      <4>1. state' = "WAIT_CHECKSUM" /\ len = k + 1
        BY <2>1, <2>2, <2>3, <3>1 DEF LastByte, GoTo
      <4> QED BY <2>3, <4>1 DEF Frame, Header, Fields
    <3>2. CASE ~LastByte
      <4>1. state' = "WAIT_PAYLOAD" /\ payload_idx' = k + 1
        BY <2>3, <3>2 DEF NextIndex, GoTo
      <4> QED BY <2>3, <4>1 DEF Frame, Header, Fields
    <3> QED BY <3>1, <3>2
  <2>5. /\ payload'[k] = b /\ \A j \in 0 .. k - 1 : payload'[j] = payload[j]
    <3>1. \A j \in 0 .. k - 1 : j \in Slots /\ j # k
      BY <1>t, <2>1, <2>2 DEF Slots
    <3> QED BY <2>1, <2>3, <3>1 DEF Store, UartTypeOK
  <2>6. \A j \in 0 .. k - 1 : payload[j] \in Nat
    BY <1>t, <2>2, PayloadIs
  <2>7. cmd \in Nat /\ len \in Nat
    BY PayloadIs
  <2>8. Frame' = Append(Frame, b)
    BY <1>t, <2>1, <2>2, <2>4, <2>5, <2>6, <2>7, FieldsAppend
  <2>9. Len(Frame) = 2 + k /\ Frame[2] = len
    BY <2>1, <2>2, <2>6, <2>7, FieldsAre
  <2>10. ~Receiver!Complete(Frame)
    BY <2>1, <2>2, <2>9 DEF Receiver!Complete
  <2>11. state' # "WAIT_START" /\ valid' = FALSE
    BY <2>3 DEF GoTo
  <2> QED BY <2>2, <2>3, <2>8, <2>9, <2>10, <2>11 DEF Taken, Store, Sum
<1> QED BY <1>1, <1>2, <1>3 DEF parser_feed_byte, WaitStart, WaitChecksum

Shows == <<byte, state # "WAIT_START", Frame,
           IF valid THEN Header(len) ELSE << >>>>

LEMMA FeedStep ==
  ASSUME ReceiverInv, NEW b \in Bytes, byte' = b, parser_feed_byte(b)
  PROVE  Receiver!Feed(b) /\ checksum_calc' = Receiver!Parity(Frame')
<1> USE DEF ReceiverInv
<1>t. b \in Nat /\ Frame \in Seq(Nat) /\ MAX_PAYLOAD \in Nat
  BY FrameIs, UartAssumption
<1>1. CASE WaitStart(b)
  <2>1. /\ state = "WAIT_START" /\ checksum_calc' = checksum_calc
        /\ state' = IF b = START_BYTE THEN "WAIT_CMD" ELSE "WAIT_START"
        /\ valid' = FALSE
    BY <1>1 DEF WaitStart, GoTo
  <2>2. Frame = << >> /\ Frame' = << >>
    BY <2>1 DEF Frame
  <2>3. (state' # "WAIT_START") = (b = START_BYTE)
    BY <2>1, SMT
  <2>4. Receiver!Feed(b)
    BY <2>1, <2>2, <2>3 DEF Receiver!Feed, Frame
  <2> QED BY <2>1, <2>2, <2>4
<1>2. CASE state \notin {"WAIT_START", "WAIT_CHECKSUM"} /\
           (state = "WAIT_LEN" => b <= MAX_PAYLOAD)
  <2>1. Taken(b) /\ ~Receiver!Complete(Frame)
        /\ (Len(Frame) = 1 => b <= MAX_PAYLOAD)
    BY <1>2, ByteTaken
  <2>2. checksum_calc' = Receiver!Parity(Frame')
    BY <1>t, <2>1, ParityStep DEF Taken
  <2>3. (state' # "WAIT_START") = (state # "WAIT_START")
    BY <1>2, <2>1 DEF Taken
  <2>4. Receiver!Feed(b)
    BY <1>t, <1>2, <2>1, <2>3 DEF Taken, Receiver!Feed, Frame
  <2> QED BY <2>2, <2>4
<1>3. CASE state = "WAIT_LEN" /\ b > MAX_PAYLOAD
  <2>1. /\ state' = "WAIT_START" /\ valid' = FALSE /\ checksum_calc' = 0
        /\ Frame = <<cmd>>
    BY <1>t, <1>3, FrameIs
       DEF parser_feed_byte, WaitStart, WaitCmd, WaitLen, WaitPayload,
           WaitChecksum, RefuseLen, AcceptLen, GoTo
  <2>2. Frame' = << >>
    BY <2>1 DEF Frame
  <2>3. Len(Frame) = 1
    BY <2>1
  <2>4. ~Receiver!Complete(Frame)
    BY <2>3 DEF Receiver!Complete
  <2>5. Receiver!Feed(b)
    BY <1>3, <2>1, <2>2, <2>3, <2>4
       DEF Receiver!Feed, Receiver!Hunting, Frame
  <2> QED BY <2>1, <2>2, <2>5, ParityOfNone
<1>4. CASE WaitChecksum(b)
  <2>1. /\ state = "WAIT_CHECKSUM" /\ state' = "WAIT_START"
        /\ checksum_calc' = 0 /\ UNCHANGED <<cmd, len, payload>>
        /\ Frame = Fields(cmd, len, payload, len)
    BY <1>4, FrameIs DEF WaitChecksum
  <2>2. Frame' = << >>
    BY <2>1 DEF Frame
  <2>3. valid' = (b = Receiver!Parity(Frame))
    BY <1>4 DEF WaitChecksum
  <2>4. Header(len)' = Frame
    BY <2>1 DEF Header, Fields
  <2>5. Receiver!Complete(Frame)
    <3>1. \A j \in 0 .. len - 1 : payload[j] \in Nat
      BY PayloadIs
    <3>2. Len(Frame) = 2 + len /\ Frame[2] = len /\ len \in Nat
      BY <2>1, <3>1, PayloadIs, FieldsAre
    <3> QED BY <3>2 DEF Receiver!Complete
  <2>6. Receiver!Feed(b)
    BY <2>1, <2>2, <2>3, <2>4, <2>5
       DEF Receiver!Feed, Receiver!Hunting, Frame
  <2> QED BY <2>1, <2>2, <2>6, ParityOfNone
<1> QED BY <1>t, <1>1, <1>2, <1>3, <1>4
        DEF parser_feed_byte, WaitCmd, WaitLen, WaitPayload

\* The state machine is a receiver of frames: it accepts exactly the frames
\* whose checksum is right, whatever came before them.
THEOREM RefinesReceiver == UartSpec => FrameSpec
<1>1. UartInit => Receiver!Init /\ ReceiverInv
  <2> SUFFICES ASSUME UartInit PROVE Receiver!Init /\ ReceiverInv
    OBVIOUS
  <2>1. Frame = << >> /\ state = "WAIT_START" /\ valid = FALSE /\ byte = 0
    BY DEF UartInit, Frame
  <2>2. checksum_calc = Receiver!Parity(Frame)
    BY <2>1, ParityOfNone DEF UartInit
  <2>3. UartTypeOK
    BY UartInitTyped
  <2>4. Receiver!Init
    BY <2>1 DEF Receiver!Init, Frame
  <2> QED BY <2>2, <2>3, <2>4 DEF ReceiverInv
<1>2. ReceiverInv /\ [UartNext]_uartVars
        => ReceiverInv' /\ [Receiver!Next]_Shows
  <2> SUFFICES ASSUME ReceiverInv, [UartNext]_uartVars
               PROVE  ReceiverInv' /\ [Receiver!Next]_Shows
    OBVIOUS
  <2>1. ASSUME NEW b \in Bytes, byte' = b, parser_feed_byte(b)
        PROVE  ReceiverInv' /\ Receiver!Next
    <3>1. Receiver!Feed(b) /\ checksum_calc' = Receiver!Parity(Frame')
      BY <2>1, FeedStep
    <3>2. UartTypeOK'
      BY <2>1, FeedKeepsType DEF ReceiverInv
    <3> QED BY <2>1, <3>1, <3>2 DEF ReceiverInv, Receiver!Next
  <2>2. CASE UNCHANGED uartVars
    BY <2>2 DEF uartVars, ReceiverInv, UartTypeOK, Shows, Frame, Header
  <2> QED BY <2>1, <2>2 DEF UartNext
<1>3. Shows = <<byte, state # "WAIT_START",
                CASE state = "WAIT_LEN" -> <<cmd>>
                  [] state = "WAIT_PAYLOAD" -> Header(payload_idx)
                  [] state = "WAIT_CHECKSUM" -> Header(len)
                  [] OTHER -> << >>,
                IF valid THEN Header(len) ELSE << >>>>
  BY DEF Shows, Frame
<1> QED BY <1>1, <1>2, <1>3, PTL
        DEF UartSpec, FrameSpec, Receiver!Spec, Shows, Frame

-----------------------------------------------------------------------------
(* Config: the entries are the lines accepted, in their order.             *)

LEMMA StringOps ==
  ASSUME NEW s, IsString(s)
  PROVE  /\ Len(s) \in Nat
         /\ s \o SubSeq(<< >>, Len(s) + 1, 0) = s
         /\ \A max \in Nat \ {0} : /\ IsString(Cut(s, max))
                                   /\ Len(Cut(s, max)) < max
<1> DEFINE Chars == {s[x] : x \in DOMAIN s}
<1>1. s \in Seq(Chars)
  BY DEF IsString
<1> HIDE DEF Chars
<1>2. s \o SubSeq(<< >>, Len(s) + 1, 0) = s
  BY <1>1
<1>3. ASSUME NEW max \in Nat \ {0}
      PROVE  IsString(Cut(s, max)) /\ Len(Cut(s, max)) < max
  <2> DEFINE c == Cut(s, max)
  <2>1. c \in Seq(Chars) /\ Len(c) < max
    BY <1>1 DEF Cut
  <2>2. \A t : t \in Seq(Chars) => t \in Seq({t[x] : x \in DOMAIN t})
    OBVIOUS
  <2> HIDE DEF c
  <2>3. IsString(c)
    BY <2>1, <2>2 DEF IsString
  <2> QED BY <2>1, <2>3 DEF c
<1> QED BY <1>1, <1>2, <1>3

Entry(line) == [key |-> Key(line), value |-> Value(line)]

\* Until the table is written beyond its end, it holds the pairs accepted.
ConfigInv ==
  /\ overrun \in BOOLEAN
  /\ ~overrun => /\ accepted \in Seq(Lines) /\ Len(accepted) = entry_count
                 /\ entry_count \in 0 .. MAX_ENTRIES
                 /\ DOMAIN entries = 0 .. MAX_ENTRIES - 1
                 /\ \A d \in 1 .. entry_count :
                      entries[d - 1] = Entry(accepted[d])

LEMMA ConfigStep == ConfigInv /\ [ConfigNext]_configVars => ConfigInv'
<1> SUFFICES ASSUME ConfigInv, [ConfigNext]_configVars PROVE ConfigInv'
  OBVIOUS
<1> USE DEF ConfigInv
<1>m. MAX_ENTRIES \in Nat \ {0}
  BY ConfigAssumption
<1>1. CASE UNCHANGED configVars
  BY <1>1 DEF configVars
<1>2. ASSUME NEW line \in Lines, config_parse_line(line) PROVE ConfigInv'
  <2>1. overrun' = (overrun \/ Full) /\ overrun' \in BOOLEAN
    BY <1>2, Zenon DEF config_parse_line
  <2> SUFFICES ASSUME ~overrun'
               PROVE  /\ accepted' \in Seq(Lines)
                      /\ Len(accepted') = entry_count'
                      /\ entry_count' \in 0 .. MAX_ENTRIES
                      /\ DOMAIN entries' = 0 .. MAX_ENTRIES - 1
                      /\ \A d \in 1 .. entry_count' :
                           entries'[d - 1] = Entry(accepted'[d])
    BY <2>1
  <2>2. ~overrun /\ ~Full
    BY <2>1
  <2>3. /\ entry_count \in 0 .. MAX_ENTRIES - 1 /\ EntryAt = entry_count
        /\ Cleared = [entries EXCEPT ![entry_count] =
                                        [key |-> << >>, value |-> << >>]]
    BY <2>2, ConfigAssumption DEF Full, EntryAt, Cleared
  <2>4. CASE line.kind # "pair"
    <3>1. /\ entries' = Cleared /\ entry_count' = entry_count
          /\ accepted' = accepted
      BY <1>2, <2>3, <2>4 DEF config_parse_line
    <3>2. \A d \in 1 .. entry_count : entries'[d - 1] = entries[d - 1]
      <4> SUFFICES ASSUME NEW d \in 1 .. entry_count
                   PROVE  entries'[d - 1] = entries[d - 1]
        OBVIOUS
      <4>1. d - 1 \in 0 .. MAX_ENTRIES - 1 /\ d - 1 # entry_count
        BY <1>m, <2>3
      <4> QED BY <2>2, <2>3, <3>1, <4>1
    <3>3. DOMAIN entries' = DOMAIN entries
      BY <2>3, <3>1
    <3> QED BY <2>2, <2>3, <3>1, <3>2, <3>3
  <2>5. CASE line.kind = "pair"
    <3>1. /\ entries' =
               [Cleared EXCEPT ![EntryAt].key = Over(Key(line), @),
                               ![EntryAt].value = Over(Value(line), @)]
          /\ entry_count' = entry_count + 1
          /\ accepted' = Append(accepted, line)
      BY <1>2, <2>3, <2>5 DEF config_parse_line, StorePair
    <3>2. /\ Over(Key(line), << >>) = Key(line)
          /\ Over(Value(line), << >>) = Value(line)
      BY StringOps, ConfigAssumption DEF Over, Key, Value
    <3>3. /\ DOMAIN entries' = DOMAIN entries
          /\ entries'[entry_count] = Entry(line)
          /\ \A e \in DOMAIN entries :
               e # entry_count => entries'[e] = entries[e]
      BY <2>2, <2>3, <3>1, <3>2 DEF Entry
    <3>4. /\ accepted' \in Seq(Lines) /\ Len(accepted') = entry_count + 1
          /\ accepted'[entry_count + 1] = line
          /\ \A d \in 1 .. entry_count : accepted'[d] = accepted[d]
      BY <2>2, <2>3, <3>1
    <3>5. ASSUME NEW d \in 1 .. entry_count + 1
          PROVE  entries'[d - 1] = Entry(accepted'[d])
      <4>1. CASE d = entry_count + 1
        <5>1. d - 1 = entry_count
          BY <2>3, <4>1
        <5> QED BY <3>3, <3>4, <4>1, <5>1
      <4>2. CASE d # entry_count + 1
        <5>1. /\ d \in 1 .. entry_count /\ d - 1 \in 0 .. MAX_ENTRIES - 1
              /\ d - 1 # entry_count
          BY <1>m, <2>3, <4>2
        <5> QED BY <2>2, <3>3, <3>4, <5>1
      <4> QED BY <4>1, <4>2
    <3> QED BY <1>m, <2>2, <2>3, <3>1, <3>3, <3>4, <3>5
  <2> QED BY <2>4, <2>5
<1> QED BY <1>1, <1>2 DEF ConfigNext

\* config_get answers with the value of the first line that gave the key one,
\* for every text of the file, as long as config_parse_line kept within the
\* table.
THEOREM FirstWins == ConfigSpec => []FirstDefinitionWins
<1>1. config_init => ConfigInv
  <2> SUFFICES ASSUME config_init PROVE ConfigInv
    OBVIOUS
  <2>1. /\ accepted \in Seq(Lines) /\ Len(accepted) = 0 /\ entry_count = 0
        /\ overrun = FALSE /\ DOMAIN entries = 0 .. MAX_ENTRIES - 1
    BY DEF config_init
  <2>2. 0 \in 0 .. MAX_ENTRIES /\ 1 .. 0 = {}
    BY ConfigAssumption
  <2> QED BY <2>1, <2>2 DEF ConfigInv
<1>2. ConfigInv => FirstDefinitionWins
  <2> SUFFICES ASSUME ConfigInv, ~overrun,
                      NEW line \in Lines, NEW k, k = Key(line)
               PROVE  \/ Definitions(k) = {} /\ config_get(k) = NO_VALUE
                      \/ \E d \in Definitions(k) :
                           /\ \A e \in Definitions(k) : d <= e
                           /\ config_get(k) = Value(accepted[d])
    BY DEF FirstDefinitionWins
  <2> USE DEF ConfigInv
  <2>1. Len(k) \in Nat /\ Len(k) <= MAX_KEY_LEN /\ MAX_KEY_LEN \in Nat
    BY StringOps, ConfigAssumption DEF Key
  <2>2. /\ Definitions(k) \subseteq 1 .. entry_count
        /\ \A d \in 1 .. entry_count :
             /\ d \in Definitions(k) <=> entries[d - 1].key = k
             /\ entries[d - 1].value = Value(accepted[d])
    <3>1. DOMAIN accepted = 1 .. entry_count
      OBVIOUS
    <3>2. \A d \in 1 .. entry_count :
            /\ entries[d - 1].key = Key(accepted[d])
            /\ entries[d - 1].value = Value(accepted[d])
      <4> SUFFICES ASSUME NEW d \in 1 .. entry_count
                   PROVE  /\ entries[d - 1].key = Key(accepted[d])
                          /\ entries[d - 1].value = Value(accepted[d])
        OBVIOUS
      <4>1. entries[d - 1] = Entry(accepted[d])
        OBVIOUS
      <4> QED BY <4>1 DEF Entry
    <3> QED BY <3>1, <3>2 DEF Definitions
  <2>3. CASE Definitions(k) = {}
    <3>1. FirstAt(k) = {}
      BY <2>2, <2>3 DEF FirstAt
    <3> QED BY <2>3, <3>1 DEF config_get
  <2>4. CASE Definitions(k) # {}
    <3>1. PICK d \in Definitions(k) : \A e \in Definitions(k) : d <= e
      BY <2>2, <2>4, LeastElement
    <3>2. FirstAt(k) = {d - 1}
      BY <2>2, <3>1 DEF FirstAt
    <3>3. (CHOOSE e \in FirstAt(k) : TRUE) = d - 1
      BY <3>2
    <3>4. config_get(k) = entries[d - 1].value
      BY <2>1, <3>2, <3>3 DEF config_get
    <3>5. entries[d - 1].value = Value(accepted[d])
      BY <2>2
    <3> QED BY <3>1, <3>4, <3>5
  <2> QED BY <2>3, <2>4
<1> QED BY <1>1, <1>2, ConfigStep, PTL DEF ConfigSpec

-----------------------------------------------------------------------------
(* Shell: the words argv was filled with are those of the line being run.  *)

\* Every child the shell forks is reaped before the next prompt, unless
\* waitpid reported it stopped: whatever the children do, and wherever fork
\* fails.
THEOREM ReapedHolds == ShellSpec => []Reaped
<1>1. ShellInit => Reaped
  BY DEF ShellInit, Reaped
<1>2. Reaped /\ [ShellNext]_shellVars => Reaped'
  <2> SUFFICES ASSUME Reaped, [ShellNext]_shellVars PROVE Reaped'
    OBVIOUS
  <2> USE DEF Reaped
  <2>1. CASE EndOfInput \/ (\E words \in CommandLines : ReadLine(words))
             \/ ForkFails
    BY <2>1 DEF EndOfInput, ReadLine, ForkFails
  <2>2. CASE fork
    BY <2>2 DEF fork, Becomes
  <2>3. CASE waitpid
    BY <2>3 DEF waitpid, Reports, Others
  <2>4. CASE ChildStep
    <3>1. /\ DOMAIN processes' = DOMAIN processes
          /\ UNCHANGED <<at, waited, left>>
      BY <2>4 DEF ChildStep, Execute, End, Stop, Continue, Turns, Becomes
    <3> QED BY <3>1
  <2>5. CASE UNCHANGED shellVars
    BY <2>5 DEF shellVars
  <2> QED BY <2>1, <2>2, <2>3, <2>4, <2>5 DEF ShellNext, ShellStep
<1> QED BY <1>1, <1>2, PTL DEF ShellSpec

\* The words of the line, and the NULL behind them, are in front of whatever
\* earlier lines left.
Holds(args, words) ==
  \A p \in Places : /\ p < Len(words) => args[p] = words[p + 1]
                    /\ p = Len(words) => args[p] = NO_WORD

Process(x) == \E ph, s, a : x = Child(ph, s, a)

LEMMA ChildIs ==
  ASSUME NEW ph, NEW s, NEW a
  PROVE  /\ Process(Child(ph, s, a))
         /\ Child(ph, s, a).phase = ph /\ Child(ph, s, a).argv = a
         /\ \A t : [Child(ph, s, a) EXCEPT !.stopped = t] = Child(ph, t, a)
<1>1. Process(Child(ph, s, a))
  BY Zenon DEF Process
<1>2. Child(ph, s, a).phase = ph /\ Child(ph, s, a).argv = a
  BY DEF Child
<1>3. \A t : [Child(ph, s, a) EXCEPT !.stopped = t] = Child(ph, t, a)
  BY DEF Child
<1> QED BY <1>1, <1>2, <1>3

\* The child the shell waits for is its own, with the shell's argv until it
\* execs.
ArgvInv ==
  /\ command \in CommandLines \cup {<< >>}
  /\ at \in {"parsed", "waiting"} => Holds(argv, command)
  /\ \A q \in DOMAIN processes : Process(processes[q])
  /\ at = "waiting" =>
       /\ waited \in DOMAIN processes
       /\ processes[waited].phase = "child" => processes[waited].argv = argv

LEMMA ParsedLine ==
  ASSUME NEW words \in CommandLines
  PROVE  Holds(parse_line(words), words)
<1>1. Len(words) \in Nat
  BY ShellAssumption
<1> QED BY <1>1, ShellAssumption DEF Holds, parse_line, Places

LEMMA ArgvStep == ArgvInv /\ [ShellNext]_shellVars => ArgvInv'
<1> SUFFICES ASSUME ArgvInv, [ShellNext]_shellVars PROVE ArgvInv'
  OBVIOUS
<1> USE DEF ArgvInv
<1>1. CASE EndOfInput \/ ForkFails
  BY <1>1 DEF EndOfInput, ForkFails
<1>2. ASSUME NEW words \in CommandLines, ReadLine(words) PROVE ArgvInv'
  BY <1>2, ParsedLine DEF ReadLine
<1>3. CASE fork
  <2>1. PICK p \in Pids \ DOMAIN processes :
          /\ waited' = p
          /\ processes' = Becomes(p, Child("child", FALSE, argv))
    BY <1>3 DEF fork
  <2> DEFINE c == Child("child", FALSE, argv)
  <2>2. Process(c) /\ c.argv = argv
    BY DEF Process, Child
  <2> HIDE DEF c
  <2>3. /\ p \in DOMAIN processes' /\ processes'[p] = c
        /\ \A q \in DOMAIN processes' :
             q # p => q \in DOMAIN processes /\ processes'[q] = processes[q]
    BY <2>1 DEF Becomes, c
  <2>4. \A q \in DOMAIN processes' : Process(processes'[q])
    BY <2>2, <2>3
  <2> QED BY <1>3, <2>1, <2>2, <2>3, <2>4 DEF fork
<1>4. CASE waitpid
  <2>1. \A q \in DOMAIN processes' : /\ q \in DOMAIN processes
                                     /\ processes'[q] = processes[q]
    BY <1>4 DEF waitpid, Others
  <2>2. \A q \in DOMAIN processes' : Process(processes'[q])
    BY <2>1
  <2> QED BY <1>4, <2>2 DEF waitpid
<1>5. ASSUME NEW p \in DOMAIN processes,
             Execute(p) \/ End(p) \/ Stop(p) \/ Continue(p)
      PROVE  ArgvInv'
  <2>1. PICK ph, s, a : processes[p] = Child(ph, s, a)
    BY DEF Process
  <2>2. PICK c : /\ Turns(p, c) /\ Process(c)
                 /\ c.phase = "child" => /\ processes[p].phase = "child"
                                         /\ c.argv = processes[p].argv
    <3>1. CASE Execute(p)
      BY <3>1 DEF Execute, Child, Process
    <3>2. CASE End(p)
      BY <3>2 DEF End, Child, Process
    <3>3. CASE Stop(p) \/ Continue(p)
      <4>1. PICK t : Turns(p, [processes[p] EXCEPT !.stopped = t])
        BY <3>3 DEF Stop, Continue
      <4>2. /\ [processes[p] EXCEPT !.stopped = t] = Child(ph, t, a)
            /\ Process(Child(ph, t, a))
            /\ Child(ph, t, a).phase = processes[p].phase
            /\ Child(ph, t, a).argv = processes[p].argv
        BY <2>1, ChildIs
      <4> QED BY <4>1, <4>2
    <3> QED BY <1>5, <3>1, <3>2, <3>3
  <2>3. /\ DOMAIN processes' = DOMAIN processes /\ processes'[p] = c
        /\ \A q \in DOMAIN processes : q # p => processes'[q] = processes[q]
        /\ UNCHANGED <<argv, at, waited, command>>
    BY <2>2 DEF Turns, Becomes
  <2>4. \A q \in DOMAIN processes' : Process(processes'[q])
    BY <2>2, <2>3
  <2> QED BY <2>2, <2>3, <2>4
<1>6. CASE UNCHANGED shellVars
  BY <1>6 DEF shellVars
<1> QED BY <1>1, <1>2, <1>3, <1>4, <1>5, <1>6
        DEF ShellNext, ShellStep, ChildStep

\* A child runs the line the shell last read, word for word, if the line has
\* fewer than MAX_ARGS words.  If it has as many or more, argv ends without a
\* NULL, and all that is said is that it holds the words the line begins with.
THEOREM ArgsHold == ShellSpec => []ArgsAreTheLine
<1>1. ShellInit => ArgvInv
  BY DEF ShellInit, ArgvInv
<1>2. ArgvInv => ArgsAreTheLine
  <2>0. ArgvInv /\ at = "waiting" /\ ~(Len(command) < MAX_ARGS) =>
          \A p \in Places : argv[p] = command[p + 1]
    <3>1. ArgvInv => Len(command) \in Nat
      BY ShellAssumption DEF ArgvInv
    <3> QED BY <3>1, ShellAssumption DEF ArgvInv, Holds, Places
  <2> SUFFICES ASSUME ArgvInv, at = "waiting", Len(command) < MAX_ARGS
               PROVE  ArgsOf(argv) = command
    BY <2>0 DEF ArgvInv, ArgsAreTheLine
  <2>1. /\ Len(command) \in Nat /\ Len(command) \in Places
        /\ command = [w \in 1 .. Len(command) |-> command[w]]
        /\ \A w \in 1 .. Len(command) : command[w] # NO_WORD
    <3>1. \A x : x \in Seq({x[w] : w \in DOMAIN x}) =>
                   Len(x) \in Nat /\ x = [w \in 1 .. Len(x) |-> x[w]]
      OBVIOUS
    <3>2. CASE command = << >>
      BY <3>2, ShellAssumption DEF Places
    <3>3. CASE command \in CommandLines
      <4>1. /\ command \in Seq({command[w] : w \in DOMAIN command})
            /\ \A w \in 1 .. Len(command) : command[w] # NO_WORD
        BY <3>3, ShellAssumption
      <4>2. /\ Len(command) \in Nat
            /\ command = [w \in 1 .. Len(command) |-> command[w]]
        BY <3>1, <4>1
      <4> QED BY <4>1, <4>2, ShellAssumption DEF Places
    <3> QED BY <3>2, <3>3 DEF ArgvInv
  <2> DEFINE ends == {p \in Places : argv[p] = NO_WORD}
             end == CHOOSE p \in ends : \A q \in ends : p <= q
  <2>2. /\ Len(command) \in ends
        /\ \A q \in ends : Len(command) <= q
    BY <2>1 DEF ArgvInv, Holds, Places
  <2>3. end = Len(command)
    <3>1. \A p \in ends : (\A q \in ends : p <= q) => p = Len(command)
      BY <2>1, <2>2 DEF Places
    <3> QED BY <2>2, <3>1
  <2>4. \A w \in 1 .. Len(command) : argv[w - 1] = command[w]
    <3>1. \A w \in 1 .. Len(command) :
            w - 1 \in Places /\ w - 1 < Len(command) /\ (w - 1) + 1 = w
      BY <2>1, ShellAssumption DEF Places
    <3>2. \A p \in Places : p < Len(command) => argv[p] = command[p + 1]
      BY DEF ArgvInv, Holds
    <3> QED BY <3>1, <3>2
  <2>5. [w \in 1 .. Len(command) |-> argv[w - 1]] = command
    BY <2>1, <2>4
  <2> QED BY <2>2, <2>3, <2>5 DEF ArgsOf
<1> QED BY <1>1, <1>2, ArgvStep, PTL DEF ShellSpec

-----------------------------------------------------------------------------
(* LinkedList.  First chains as such: c lists the nodes from h on.         *)

ListNode == [data : Data, next : NodeAddrs \cup {NULL}]

IsChain(h, m, ns, c) ==
  /\ m \in Nat /\ c \in [1 .. m -> NodeAddrs]
  /\ \A j, k \in 1 .. m : c[j] = c[k] => j = k
  /\ h = IF m = 0 THEN NULL ELSE c[1]
  /\ \A k \in 1 .. m : /\ c[k] \in DOMAIN ns
                       /\ ns[c[k]].next = IF k = m THEN NULL ELSE c[k + 1]

\* All the nodes there are.
Whole(m, ns, c) == \A a \in DOMAIN ns : \E k \in 1 .. m : c[k] = a

LEMMA ChainCounts ==
  ASSUME NEW h, NEW m, NEW ns, NEW c, IsChain(h, m, ns, c), Whole(m, ns, c),
         DOMAIN ns \subseteq NodeAddrs
  PROVE  Cardinality(DOMAIN ns) = m /\ m <= Cardinality(NodeAddrs)
<1>1. /\ m \in Nat /\ \A j, k \in 1 .. m : c[j] = c[k] => j = k
      /\ \A k \in 1 .. m : c[k] \in DOMAIN ns
  BY DEF IsChain
<1>2. IsFiniteSet(1 .. m) /\ Cardinality(1 .. m) = m
  BY <1>1, FS_Interval
<1>3. DOMAIN ns = {c[k] : k \in 1 .. m}
  BY <1>1 DEF Whole
<1>4. Cardinality({c[k] : k \in 1 .. m}) = Cardinality(1 .. m)
  BY <1>1, <1>2, InjectiveImage
<1>5. Cardinality(DOMAIN ns) <= Cardinality(NodeAddrs)
  BY FS_Subset, ListAssumption
<1> QED BY <1>2, <1>3, <1>4, <1>5

\* A node in front.
Prefixed(c, m, a) == [k \in 1 .. m + 1 |-> IF k = 1 THEN a ELSE c[k - 1]]

LEMMA PushChain ==
  ASSUME NEW h, NEW m, NEW ns, NEW c, IsChain(h, m, ns, c), Whole(m, ns, c),
         NEW a \in NodeAddrs, a \notin DOMAIN ns,
         NEW ns2, DOMAIN ns2 = DOMAIN ns \cup {a}, ns2[a].next = h,
         \A x \in DOMAIN ns : ns2[x] = ns[x]
  PROVE  /\ IsChain(a, m + 1, ns2, Prefixed(c, m, a))
         /\ Whole(m + 1, ns2, Prefixed(c, m, a))
<1> DEFINE d == Prefixed(c, m, a)
<1>1. /\ m \in Nat /\ d[1] = a
      /\ \A k \in 1 .. m : k + 1 \in 1 .. m + 1 /\ d[k + 1] = c[k]
      /\ \A k \in 1 .. m + 1 : k = 1 \/ (k - 1 \in 1 .. m /\ d[k] = c[k - 1])
  BY DEF IsChain, Prefixed
<1>2. \A k \in 1 .. m : c[k] \in DOMAIN ns /\ c[k] \in NodeAddrs /\ c[k] # a
  BY DEF IsChain
<1>3. d \in [1 .. m + 1 -> NodeAddrs]
  BY <1>1, <1>2 DEF Prefixed
<1> HIDE DEF d
<1>4. \A j, k \in 1 .. m + 1 : d[j] = d[k] => j = k
  <2> SUFFICES ASSUME NEW j \in 1 .. m + 1, NEW k \in 1 .. m + 1, d[j] = d[k]
               PROVE  j = k
    OBVIOUS
  <2>1. CASE j = 1 \/ k = 1
    BY <1>1, <1>2, <2>1
  <2>2. CASE j # 1 /\ k # 1
    <3>1. /\ j - 1 \in 1 .. m /\ k - 1 \in 1 .. m
          /\ c[j - 1] = c[k - 1]
      BY <1>1, <2>2
    <3>2. j - 1 = k - 1
      BY <3>1 DEF IsChain
    <3> QED BY <1>1, <3>2
  <2> QED BY <2>1, <2>2
<1>5. ASSUME NEW k \in 1 .. m + 1
      PROVE  /\ d[k] \in DOMAIN ns2
             /\ ns2[d[k]].next = IF k = m + 1 THEN NULL ELSE d[k + 1]
  <2>1. CASE k = 1
    <3>1. h = IF m = 0 THEN NULL ELSE c[1]
      BY DEF IsChain
    <3>2. CASE m = 0
      BY <1>1, <2>1, <3>1, <3>2
    <3>3. CASE m # 0
      <4>1. 1 \in 1 .. m /\ d[1 + 1] = c[1] /\ k # m + 1
        BY <1>1, <2>1, <3>3
      <4> QED BY <1>1, <2>1, <3>1, <3>3, <4>1
    <3> QED BY <3>2, <3>3
  <2>2. CASE k # 1
    <3> DEFINE j == k - 1
    <3>1. j \in 1 .. m /\ d[k] = c[j] /\ k = j + 1 /\ (k = m + 1 <=> j = m)
      BY <1>1, <2>2
    <3>2. k # m + 1 => d[k + 1] = c[k] /\ k \in 1 .. m
      BY <1>1, <2>2
    <3> HIDE DEF j
    <3>3. ns[c[j]].next = IF j = m THEN NULL ELSE c[j + 1]
      BY <3>1 DEF IsChain
    <3>4. d[k] \in DOMAIN ns /\ ns2[d[k]] = ns[c[j]]
      BY <1>2, <3>1
    <3> QED BY <3>1, <3>2, <3>3, <3>4
  <2> QED BY <2>1, <2>2
<1>6. IsChain(a, m + 1, ns2, d)
  BY <1>1, <1>3, <1>4, <1>5 DEF IsChain
<1>7. Whole(m + 1, ns2, d)
  BY <1>1 DEF Whole
<1> QED BY <1>6, <1>7 DEF d

\* A node less.
Shorter(c, m, p) == [k \in 1 .. m - 1 |-> IF k < p THEN c[k] ELSE c[k + 1]]

LEMMA DropChain ==
  ASSUME NEW h, NEW m, NEW ns, NEW c, IsChain(h, m, ns, c), Whole(m, ns, c),
         NEW p \in 1 .. m,
         NEW ns2, DOMAIN ns2 = DOMAIN ns \ {c[p]},
         \A a \in DOMAIN ns2 :
           ns2[a].next = IF p > 1 /\ a = c[p - 1] THEN ns[c[p]].next
                         ELSE ns[a].next
  PROVE  /\ IsChain(IF p = 1 THEN ns[c[p]].next ELSE h, m - 1, ns2,
                    Shorter(c, m, p))
         /\ Whole(m - 1, ns2, Shorter(c, m, p))
<1> DEFINE d == Shorter(c, m, p)
           h2 == IF p = 1 THEN ns[c[p]].next ELSE h
           old(k) == IF k < p THEN k ELSE k + 1
<1>1. /\ m \in Nat /\ m - 1 \in Nat /\ p \in Nat
      /\ \A k \in 1 .. m - 1 : /\ old(k) \in 1 .. m /\ old(k) # p
                               /\ d[k] = c[old(k)]
  BY DEF IsChain, Shorter
<1>2. /\ \A k \in 1 .. m : c[k] \in DOMAIN ns /\ c[k] \in NodeAddrs
      /\ \A j, k \in 1 .. m : c[j] = c[k] => j = k
      /\ \A k \in 1 .. m : ns[c[k]].next = IF k = m THEN NULL ELSE c[k + 1]
      /\ h = IF m = 0 THEN NULL ELSE c[1]
  BY DEF IsChain
<1>3. d \in [1 .. m - 1 -> NodeAddrs]
  <2>1. \A k \in 1 .. m - 1 : d[k] \in NodeAddrs
    BY <1>1, <1>2
  <2> QED BY <2>1 DEF Shorter
<1> HIDE DEF d
<1>4. \A j, k \in 1 .. m - 1 : d[j] = d[k] => j = k
  BY <1>1, <1>2
<1>5. ASSUME NEW k \in 1 .. m - 1
      PROVE  /\ d[k] \in DOMAIN ns2
             /\ ns2[d[k]].next = IF k = m - 1 THEN NULL ELSE d[k + 1]
  <2>1. d[k] \in DOMAIN ns2
    BY <1>1, <1>2
  <2>2. CASE k = p - 1
    <3>1. p > 1 /\ d[k] = c[p - 1] /\ p = k + 1
      BY <1>1, <2>2
    <3>2. ns2[d[k]].next = ns[c[p]].next
      BY <2>1, <3>1
    <3>3. ns[c[p]].next = IF p = m THEN NULL ELSE c[p + 1]
      BY <1>2
    <3>4. p = m <=> k = m - 1
      BY <1>1, <3>1
    <3>5. k # m - 1 => k + 1 \in 1 .. m - 1 /\ d[k + 1] = c[p + 1]
      BY <1>1, <3>1
    <3> QED BY <2>1, <3>2, <3>3, <3>4, <3>5
  <2>3. CASE k # p - 1
    <3>1. ~(p > 1 /\ d[k] = c[p - 1])
      <4>1. ASSUME p > 1 PROVE d[k] # c[p - 1]
        <5>1. p - 1 \in 1 .. m /\ old(k) # p - 1
          BY <1>1, <2>3, <4>1
        <5> QED BY <1>1, <1>2, <5>1
      <4> QED BY <4>1
    <3>2. ns2[d[k]].next = ns[c[old(k)]].next
      BY <1>1, <2>1, <3>1
    <3>3. ns[c[old(k)]].next = IF old(k) = m THEN NULL ELSE c[old(k) + 1]
      BY <1>1, <1>2
    <3>4. old(k) = m <=> k = m - 1
      BY <1>1, <2>3
    <3>5. k # m - 1 => /\ k + 1 \in 1 .. m - 1 /\ old(k + 1) = old(k) + 1
                       /\ d[k + 1] = c[old(k + 1)]
      BY <1>1, <2>3
    <3> QED BY <2>1, <3>2, <3>3, <3>4, <3>5
  <2> QED BY <2>2, <2>3
<1>6. h2 = IF m - 1 = 0 THEN NULL ELSE d[1]
  <2>1. CASE p = 1
    <3>1. h2 = IF m = 1 THEN NULL ELSE c[1 + 1]
      BY <1>2, <2>1
    <3>2. m # 1 => 1 \in 1 .. m - 1 /\ d[1] = c[1 + 1]
      BY <1>1, <2>1
    <3> QED BY <1>1, <3>1, <3>2
  <2>2. CASE p # 1
    <3>1. 1 \in 1 .. m - 1 /\ d[1] = c[1] /\ m # 0
      BY <1>1, <2>2
    <3> QED BY <1>1, <1>2, <2>2, <3>1
  <2> QED BY <2>1, <2>2
<1>7. IsChain(h2, m - 1, ns2, d)
  BY <1>1, <1>3, <1>4, <1>5, <1>6 DEF IsChain
<1>8. Whole(m - 1, ns2, d)
  <2> SUFFICES ASSUME NEW a \in DOMAIN ns2
               PROVE  \E k \in 1 .. m - 1 : d[k] = a
    BY DEF Whole
  <2>1. PICK j \in 1 .. m : c[j] = a
    BY DEF Whole
  <2>2. j # p
    BY <2>1
  <2>3. CASE j < p
    <3>1. j \in 1 .. m - 1 /\ d[j] = c[j]
      BY <1>1, <2>3
    <3> QED BY <2>1, <3>1
  <2>4. CASE j > p
    <3>1. j - 1 \in 1 .. m - 1 /\ old(j - 1) = j
      BY <1>1, <2>4
    <3>2. d[j - 1] = c[j]
      BY <1>1, <3>1
    <3> QED BY <2>1, <3>1, <3>2
  <2> QED BY <1>1, <2>2, <2>3, <2>4
<1> QED BY <1>7, <1>8 DEF d

LEMMA DropFirst ==
  ASSUME NEW h, NEW m, NEW ns, NEW c, IsChain(h, m, ns, c), Whole(m, ns, c),
         m > 0, NEW ns2, DOMAIN ns2 = DOMAIN ns \ {h},
         \A a \in DOMAIN ns2 : ns2[a] = ns[a]
  PROVE  /\ IsChain(ns[h].next, m - 1, ns2, Shorter(c, m, 1))
         /\ Whole(m - 1, ns2, Shorter(c, m, 1))
<1>1. m \in Nat /\ h = c[1] /\ 1 \in 1 .. m
  BY DEF IsChain
<1>2. PICK p : p = 1
  OBVIOUS
<1>3. p \in 1 .. m /\ h = c[p] /\ ~(p > 1)
  BY <1>1, <1>2
<1>4. \A a \in DOMAIN ns2 :
        ns2[a].next = IF p > 1 /\ a = c[p - 1] THEN ns[c[p]].next
                      ELSE ns[a].next
  BY <1>3
<1>5. /\ IsChain(IF p = 1 THEN ns[c[p]].next ELSE h, m - 1, ns2,
                 Shorter(c, m, p))
      /\ Whole(m - 1, ns2, Shorter(c, m, p))
  BY <1>3, <1>4, DropChain
<1> QED BY <1>2, <1>3, <1>5

-----------------------------------------------------------------------------
(* Where a call has got to in the list: i nodes on, the i before it not    *)
(* what it looks for; list_destroy has freed those.                        *)

First == IF pc = "destroy" THEN current ELSE head
Left == IF pc = "destroy" THEN count - i ELSE count
Walking == pc \in {"remove", "find"}

Typed == /\ pc \in {"idle", "push", "remove", "find", "destroy"}
         /\ data \in Data
         /\ nodes \in [DOMAIN nodes -> ListNode]
         /\ DOMAIN nodes \subseteq NodeAddrs
         /\ count \in Nat /\ count <= Cardinality(NodeAddrs)
         /\ i \in 0 .. count
         /\ pc # "idle" => ret = NULL

Walked(c) == Walking =>
  /\ current = IF i < count THEN c[i + 1] ELSE NULL
  /\ prev = IF i = 0 THEN NULL ELSE c[i]
  /\ \A k \in 1 .. i : nodes[c[k]].data # data

ListInv == /\ Typed
           /\ \E c : /\ IsChain(First, Left, nodes, c)
                     /\ Whole(Left, nodes, c)
                     /\ Walked(c)

LEMMA Addresses == /\ IsFiniteSet(NodeAddrs) /\ Cardinality(NodeAddrs) \in Nat
                   /\ WIDTH \in Nat /\ Cardinality(NodeAddrs) < WIDTH
                   /\ NULL \notin NodeAddrs /\ NULL \notin Data
                   /\ TRUE \notin NodeAddrs /\ FALSE \notin NodeAddrs
BY ListAssumption, FS_CardinalityType

LEMMA ListInvInit == ListInit => ListInv
<1> SUFFICES ASSUME ListInit PROVE ListInv
  OBVIOUS
<1>1. Typed
  BY Addresses DEF ListInit, Typed, ListNode
<1> DEFINE c == [k \in 1 .. 0 |-> NULL]
<1>2. First = NULL /\ Left = 0 /\ DOMAIN nodes = {} /\ ~Walking
  BY DEF ListInit, First, Left, Walking
<1>3. /\ IsChain(First, Left, nodes, c) /\ Whole(Left, nodes, c)
      /\ Walked(c)
  BY <1>2 DEF IsChain, Whole, Walked
<1> QED BY <1>1, <1>3 DEF ListInv

\* A chain that is the same, or less of it.
LEMMA FrameChain ==
  ASSUME NEW h, NEW m, NEW ns, NEW c, IsChain(h, m, ns, c), m > 0,
         NEW p \in 1 .. m
  PROVE  /\ c[p] \in DOMAIN ns /\ c[p] \in NodeAddrs
         /\ h = c[1] /\ m \in Nat
         /\ ns[c[p]].next = NULL <=> p = m
         /\ p # m => ns[c[p]].next = c[p + 1]
         /\ c[p] = h <=> p = 1
<1>1. /\ m \in Nat /\ h = c[1] /\ 1 \in 1 .. m
      /\ \A k \in 1 .. m : c[k] \in DOMAIN ns /\ c[k] \in NodeAddrs
      /\ \A j, k \in 1 .. m : c[j] = c[k] => j = k
      /\ ns[c[p]].next = IF p = m THEN NULL ELSE c[p + 1]
  BY DEF IsChain
<1>2. p # m => p + 1 \in 1 .. m
  BY <1>1
<1> QED BY <1>1, <1>2, Addresses

\* What a step of the list rests on.
InStep(c) == /\ Typed /\ IsChain(First, Left, nodes, c)
             /\ Whole(Left, nodes, c) /\ Walked(c)

LEMMA CallStep ==
  ASSUME NEW c, InStep(c), ListCall
  PROVE  ListInv'
<1>1. pc = "idle" /\ First = head /\ Left = count
  BY DEF InStep, ListCall, First, Left
<1>2. Typed'
  BY DEF InStep, Typed, ListCall
<1>3. First' = head /\ Left' = count
  BY DEF InStep, Typed, ListCall, First, Left
<1>4. IsChain(First, Left, nodes, c)' /\ Whole(Left, nodes, c)'
  BY <1>1, <1>3 DEF InStep, ListCall, IsChain, Whole
<1>5. Walked(c)'
  <2>1. count \in Nat
    BY DEF InStep, Typed
  <2>2. head = IF count = 0 THEN NULL ELSE c[1]
    BY <1>1 DEF InStep, IsChain
  <2> QED BY <2>1, <2>2 DEF ListCall, Walked, Walking
<1> QED BY <1>2, <1>4, <1>5 DEF ListInv

\* A call that ends: where its loop was does not matter any more.
LEMMA LeaveStep ==
  ASSUME NEW c, Leave, Typed',
         IsChain(head', count', nodes', c), Whole(count', nodes', c)
  PROVE  ListInv'
<1>1. First' = head' /\ Left' = count' /\ ~Walking'
  BY DEF Leave, First, Left, Walking
<1>2. IsChain(First, Left, nodes, c)' /\ Whole(Left, nodes, c)'
  BY <1>1 DEF IsChain, Whole
<1> QED BY <1>1, <1>2 DEF ListInv, Walked

LEMMA PushStep ==
  ASSUME NEW c, InStep(c), list_push_front
  PROVE  ListInv'
<1>1. IsChain(head, count, nodes, c) /\ Whole(count, nodes, c)
  BY DEF InStep, list_push_front, First, Left
<1>2. CASE UNCHANGED <<head, count, nodes>>
  <2>1. Typed'
    BY <1>2 DEF InStep, Typed, list_push_front, Leave
  <2>2. IsChain(head', count', nodes', c) /\ Whole(count', nodes', c)
    BY <1>1, <1>2
  <2> QED BY <2>1, <2>2, LeaveStep DEF list_push_front
<1>3. ASSUME NEW a \in NodeAddrs \ DOMAIN nodes,
             nodes' = With(nodes, a, [data |-> data, next |-> head]),
             count' = count + 1, head' = a
      PROVE  ListInv'
  <2> DEFINE n == [data |-> data, next |-> head]
  <2>1. /\ DOMAIN nodes' = DOMAIN nodes \cup {a}
        /\ nodes'[a] = n /\ nodes'[a].next = head
        /\ \A x \in DOMAIN nodes : nodes'[x] = nodes[x]
    BY <1>3 DEF With
  <2>2. n \in ListNode
    BY <1>1 DEF InStep, Typed, ListNode, IsChain
  <2>3. /\ IsChain(a, count + 1, nodes', Prefixed(c, count, a))
        /\ Whole(count + 1, nodes', Prefixed(c, count, a))
    BY <1>1, <2>1, PushChain
  <2>4. count + 1 <= Cardinality(NodeAddrs)
    <3>1. DOMAIN nodes' \subseteq NodeAddrs
      BY <2>1 DEF InStep, Typed
    <3> QED BY <2>3, <3>1, ChainCounts
  <2>5. nodes' \in [DOMAIN nodes' -> ListNode]
    BY <1>3, <2>1, <2>2 DEF InStep, Typed, With
  <2>6. Typed'
    BY <1>3, <2>1, <2>4, <2>5
       DEF InStep, Typed, list_push_front, Leave
  <2> QED BY <1>3, <2>3, <2>6, LeaveStep DEF list_push_front
<1> QED BY <1>2, <1>3 DEF list_push_front

\* A turn of a walk, with an element that does not match.
LEMMA WalkStep ==
  ASSUME NEW c, InStep(c), Walking, i < count, ~Matches, Follow, Turn,
         UNCHANGED <<head, nodes>>
  PROVE  ListInv'
<1>1. pc # "destroy" /\ First = head /\ Left = count
  BY DEF Walking, First, Left
<1>2. /\ IsChain(head, count, nodes, c) /\ Whole(count, nodes, c)
      /\ count \in Nat /\ i \in 0 .. count /\ count <= Cardinality(NodeAddrs)
  BY <1>1 DEF InStep, Typed
<1>3. i' = i + 1 /\ i + 1 \in 1 .. count /\ i \in Nat
  <2>1. i + 1 \in 0 .. WIDTH - 1
    BY <1>2, Addresses
  <2> QED BY <1>2, <2>1, Addresses DEF Turn
<1>4. Typed'
  BY <1>3 DEF InStep, Typed, Turn
<1>5. First' = head /\ Left' = count
  BY <1>1 DEF First, Left, Turn
<1>6. IsChain(First, Left, nodes, c)' /\ Whole(Left, nodes, c)'
  BY <1>2, <1>5 DEF IsChain, Whole
<1>7. current = c[i + 1] /\ prev' = c[i + 1]
  BY DEF InStep, Walked, Follow
<1>8. nodes[c[i + 1]].next = IF i + 1 = count THEN NULL ELSE c[i + 1 + 1]
  BY <1>2, <1>3 DEF IsChain
<1>9. current' = IF i' < count' THEN c[i' + 1] ELSE NULL
  BY <1>2, <1>3, <1>7, <1>8 DEF Follow, Turn
<1>10. \A k \in 1 .. i' : nodes'[c[k]].data # data'
  <2>1. \A k \in 1 .. i : nodes[c[k]].data # data
    BY DEF InStep, Walked
  <2>2. nodes[c[i + 1]].data # data
    BY <1>7 DEF Matches
  <2> QED BY <1>3, <2>1, <2>2 DEF Turn
<1>11. prev' = IF i' = 0 THEN NULL ELSE c[i']
  BY <1>3, <1>7
<1>12. Walked(c)'
  BY <1>9, <1>10, <1>11 DEF Walked
<1> QED BY <1>4, <1>6, <1>12 DEF ListInv

\* The removal of the element the walk is at.
LEMMA Unlinked ==
  ASSUME NEW c, InStep(c), InLoop("remove"), Unlink
  PROVE  /\ IsChain(head', count - 1, nodes', Shorter(c, count, i + 1))
         /\ Whole(count - 1, nodes', Shorter(c, count, i + 1))
         /\ DOMAIN nodes' = DOMAIN nodes \ {c[i + 1]}
         /\ nodes' \in [DOMAIN nodes' -> ListNode]
         /\ \A a \in DOMAIN nodes' : nodes'[a].data = nodes[a].data
<1> DEFINE p == i + 1
<1>1. /\ IsChain(head, count, nodes, c) /\ Whole(count, nodes, c)
      /\ count \in Nat /\ count > 0 /\ p \in 1 .. count /\ i \in Nat
      /\ i < count
      /\ nodes \in [DOMAIN nodes -> ListNode]
  BY DEF InStep, Typed, InLoop, First, Left
<1>2. /\ current = c[p] /\ prev = IF i = 0 THEN NULL ELSE c[i]
      /\ p - 1 = i /\ (p = 1 <=> i = 0) /\ (p > 1 <=> i # 0)
  BY <1>1 DEF InStep, Walked, Walking, InLoop
<1> HIDE DEF p
<1>3. /\ c[p] \in DOMAIN nodes /\ head = c[1]
      /\ nodes[c[p]].next = NULL <=> p = count
      /\ p # count => nodes[c[p]].next = c[p + 1]
      /\ c[p] = head <=> p = 1
  BY <1>1, FrameChain
<1>4. /\ DOMAIN nodes' = DOMAIN nodes \ {c[p]}
      /\ \A a \in DOMAIN nodes' :
           /\ nodes'[a].next = IF p > 1 /\ a = c[p - 1]
                               THEN nodes[c[p]].next ELSE nodes[a].next
           /\ nodes'[a].data = nodes[a].data
           /\ nodes'[a] \in ListNode
      /\ head' = IF p = 1 THEN nodes[c[p]].next ELSE head
  <2>1. CASE head = current
    <3>1. p = 1
      BY <1>2, <1>3, <2>1
    <3>2. nodes' = Without(nodes, current)
      BY <2>1 DEF Unlink
    <3>3. head' = nodes[c[p]].next
      BY <1>1, <1>2, <1>3, <2>1, <3>1 DEF Unlink
    <3> QED BY <1>1, <1>2, <3>1, <3>2, <3>3 DEF Without
  <2>2. CASE head # current
    <3>1. p # 1 /\ i # 0
      BY <1>2, <1>3, <2>2
    <3>2. ~(nodes[current].next = NULL /\ count = 1)
      BY <1>1, <3>1, <1>2
    <3>3. /\ head' = head
          /\ nodes' = Without([nodes EXCEPT ![prev].next =
                                              nodes[current].next], current)
      BY <2>2, <3>2 DEF Unlink
    <3>4. prev = c[i] /\ i \in 1 .. count
      BY <1>1, <1>2, <3>1
    <3>5. prev \in DOMAIN nodes
      BY <1>1, <3>4, FrameChain
    <3>6. nodes[current].next \in NodeAddrs \cup {NULL}
      BY <1>1, <1>2, <1>3 DEF ListNode
    <3>7. \A a \in DOMAIN nodes : nodes[a] \in ListNode
      BY <1>1
    <3> QED BY <1>2, <3>1, <3>3, <3>4, <3>5, <3>6, <3>7 DEF Without, ListNode
  <2> QED BY <2>1, <2>2
<1>5. /\ IsChain(head', count - 1, nodes', Shorter(c, count, p))
      /\ Whole(count - 1, nodes', Shorter(c, count, p))
  <2>1. \A a \in DOMAIN nodes' :
           nodes'[a].next = IF p > 1 /\ a = c[p - 1] THEN nodes[c[p]].next
                            ELSE nodes[a].next
    BY <1>4
  <2>2. DOMAIN nodes' = DOMAIN nodes \ {c[p]}
    BY <1>4
  <2>3. head' = IF p = 1 THEN nodes[c[p]].next ELSE head
    BY <1>4
  <2>4. /\ IsChain(head, count, nodes, c) /\ Whole(count, nodes, c)
        /\ p \in 1 .. count
    BY <1>1
  <2>5. /\ IsChain(IF p = 1 THEN nodes[c[p]].next ELSE head, count - 1,
                   nodes', Shorter(c, count, p))
        /\ Whole(count - 1, nodes', Shorter(c, count, p))
    BY <2>1, <2>2, <2>4, DropChain
  <2> QED BY <2>3, <2>5
<1>6. nodes' = [a \in DOMAIN nodes' |-> nodes'[a]]
  BY DEF Unlink, Without
<1>7. nodes' \in [DOMAIN nodes' -> ListNode]
  BY <1>4, <1>6
<1> QED BY <1>4, <1>5, <1>7 DEF p

LEMMA RemoveStep ==
  ASSUME NEW c, InStep(c), InLoop("remove"), Unlink, count' = count - 1,
         Return(TRUE)
  PROVE  ListInv'
<1>1. /\ IsChain(head', count - 1, nodes', Shorter(c, count, i + 1))
      /\ Whole(count - 1, nodes', Shorter(c, count, i + 1))
      /\ DOMAIN nodes' = DOMAIN nodes \ {c[i + 1]}
      /\ nodes' \in [DOMAIN nodes' -> ListNode]
  BY Unlinked
<1>2. count - 1 \in Nat /\ count - 1 <= Cardinality(NodeAddrs)
  BY Addresses DEF InStep, Typed, InLoop
<1>3. Typed'
  BY <1>1, <1>2 DEF InStep, Typed, Return, Leave
<1> QED BY <1>1, <1>3, LeaveStep DEF Return

\* The end of a call that changed nothing in the list.
LEMMA EndStep ==
  ASSUME NEW c, InStep(c), pc # "destroy", Leave,
         UNCHANGED <<head, count, nodes>>
  PROVE  ListInv'
<1>1. Typed'
  BY DEF InStep, Typed, Leave
<1>2. IsChain(head', count', nodes', c) /\ Whole(count', nodes', c)
  BY DEF InStep, First, Left
<1> QED BY <1>1, <1>2, LeaveStep

LEMMA FreeStep ==
  ASSUME NEW c, InStep(c), InLoop("destroy"),
         current' = nodes[current].next, nodes' = Without(nodes, current),
         Turn, UNCHANGED <<head, prev>>
  PROVE  ListInv'
<1>1. /\ First = current /\ Left = count - i /\ pc = "destroy"
      /\ count \in Nat /\ i \in Nat /\ i < count
      /\ count <= Cardinality(NodeAddrs)
  BY DEF InStep, Typed, InLoop, First, Left
<1> DEFINE m == count - i
<1>2. /\ IsChain(current, m, nodes, c) /\ Whole(m, nodes, c)
      /\ m \in Nat /\ m > 0 /\ 1 \in 1 .. m
  BY <1>1 DEF InStep
<1>3. i' = i + 1 /\ i + 1 \in 0 .. count /\ m - 1 = count - (i + 1)
  <2>1. i + 1 \in 0 .. WIDTH - 1
    BY <1>1, Addresses
  <2> QED BY <1>1, <2>1, Addresses DEF Turn
<1>4. First' = current' /\ Left' = m - 1 /\ ~Walking'
  BY <1>1, <1>3 DEF First, Left, Walking, Turn
<1> HIDE DEF m
<1>6. /\ DOMAIN nodes' = DOMAIN nodes \ {current}
      /\ \A a \in DOMAIN nodes' : nodes'[a] = nodes[a]
  BY DEF Without
<1>7. /\ IsChain(current', m - 1, nodes', Shorter(c, m, 1))
      /\ Whole(m - 1, nodes', Shorter(c, m, 1))
  BY <1>2, <1>6, DropFirst
<1>8. Typed'
  <2>1. nodes' \in [DOMAIN nodes' -> ListNode]
    BY <1>6 DEF InStep, Typed, Without
  <2> QED BY <1>3, <1>6, <2>1 DEF InStep, Typed, Turn
<1>9. (\E d : IsChain(First, Left, nodes, d) /\ Whole(Left, nodes, d))'
  BY <1>4, <1>7 DEF IsChain, Whole
<1> QED BY <1>4, <1>8, <1>9 DEF ListInv, Walked

LEMMA DestroyedStep ==
  ASSUME NEW c, InStep(c), pc = "destroy", i >= count,
         count' = 0, head' = NULL, Leave, UNCHANGED <<nodes, ret>>
  PROVE  ListInv'
<1>1. Left = 0 /\ IsChain(First, 0, nodes, c) /\ Whole(0, nodes, c)
  <2>1. Left = 0
    BY DEF InStep, Typed, Left
  <2> QED BY <2>1 DEF InStep
<1>2. IsChain(head', count', nodes', c) /\ Whole(count', nodes', c)
  BY <1>1 DEF IsChain
<1>3. Typed'
  BY Addresses DEF InStep, Typed, Leave
<1> QED BY <1>2, <1>3, LeaveStep

LEMMA ListInvStep == ListInv /\ [ListNext]_listVars => ListInv'
<1> SUFFICES ASSUME ListInv, [ListNext]_listVars PROVE ListInv'
  OBVIOUS
<1>0. PICK c : InStep(c)
  BY DEF ListInv, InStep
<1>1. CASE ListCall
  BY <1>0, <1>1, CallStep
<1>2. CASE list_push_front
  BY <1>0, <1>2, PushStep
<1>3. CASE list_remove
  <2>1. CASE InLoop("remove") /\ Unlink /\ count' = count - 1 /\ Return(TRUE)
    BY <1>0, <2>1, RemoveStep
  <2>2. CASE /\ InLoop("remove") /\ ~Matches /\ Follow /\ Turn
             /\ UNCHANGED <<head, nodes>>
    BY <1>0, <2>2, WalkStep DEF InLoop, Walking
  <2>3. CASE /\ pc = "remove" /\ Return(FALSE)
             /\ UNCHANGED <<head, count, nodes>>
    BY <1>0, <2>3, EndStep DEF Return
  <2> QED BY <1>3, <2>1, <2>2, <2>3 DEF list_remove
<1>4. CASE list_find
  <2>1. CASE /\ InLoop("find") /\ ~Matches /\ Follow /\ Turn
             /\ UNCHANGED <<head, nodes>>
    BY <1>0, <2>1, WalkStep DEF InLoop, Walking
  <2>2. CASE pc = "find" /\ Leave /\ UNCHANGED <<head, count, nodes>>
    BY <1>0, <2>2, EndStep
  <2> QED BY <1>4, <2>1, <2>2 DEF list_find, Return, InLoop
<1>5. CASE list_destroy
  BY <1>0, <1>5, FreeStep, DestroyedStep DEF list_destroy
<1>6. CASE UNCHANGED listVars
  BY <1>6 DEF ListInv, Typed, IsChain, Whole, Walked, Walking, First, Left,
              listVars
<1> QED BY <1>1, <1>2, <1>3, <1>4, <1>5, <1>6 DEF ListNext

\* The counted loops of list_remove, list_find and list_destroy stay in the
\* chain, and the list counts its nodes: whatever the calls, the addresses
\* malloc has and the values it holds.
THEOREM WalksHold == LinkedListSpec => []WalkInList
<1>1. LinkedListSpec => []ListInv
  BY ListInvInit, ListInvStep, PTL DEF LinkedListSpec
<1>2. ListInv => WalkInList
  <2> SUFFICES ASSUME ListInv PROVE WalkInList
    OBVIOUS
  <2>1. PICK c : InStep(c)
    BY DEF ListInv, InStep
  <2>2. ASSUME Walking, i < count PROVE current \in DOMAIN nodes
    <3>1. /\ current = c[i + 1] /\ i + 1 \in 1 .. count /\ count > 0
          /\ IsChain(head, count, nodes, c)
      BY <2>1, <2>2 DEF InStep, Typed, Walked, Walking, First, Left
    <3> QED BY <3>1, FrameChain
  <2>3. ASSUME pc = "destroy", i < count PROVE current \in DOMAIN nodes
    <3>1. /\ Left > 0 /\ 1 \in 1 .. Left /\ First = current
          /\ IsChain(First, Left, nodes, c)
      BY <2>1, <2>3 DEF InStep, Typed, First, Left
    <3> QED BY <3>1, FrameChain
  <2>4. ASSUME pc = "idle" PROVE Cardinality(DOMAIN nodes) = count
    BY <2>1, <2>4, ChainCounts DEF InStep, Typed, Left
  <2> QED BY <2>2, <2>3, <2>4 DEF WalkInList, Walking
<1> QED BY <1>1, <1>2, PTL

-----------------------------------------------------------------------------
(* The sequence a chain stands for: Elements of LinkedList, as an operator *)
(* of the list's variables.                                                *)

ElementsOf(h, m, ns) ==
  LET from[k \in 0 .. m] ==
        IF k = 0 THEN [at |-> h, seen |-> << >>]
        ELSE LET p == from[k - 1]
             IN IF p.at \notin DOMAIN ns THEN p
                ELSE [at |-> ns[p.at].next,
                      seen |-> Append(p.seen, ns[p.at].data)]
  IN from[m].seen

\* One turn of that recursion.
Onward(p, ns) == IF p.at \notin DOMAIN ns THEN p
                 ELSE [at |-> ns[p.at].next,
                       seen |-> Append(p.seen, ns[p.at].data)]
Walk(f, h, m, ns) ==
  f = [k \in 0 .. m |-> IF k = 0 THEN [at |-> h, seen |-> << >>]
                        ELSE Onward(f[k - 1], ns)]

Along(ns, c, m) == [k \in 1 .. m |-> ns[c[k]].data]

LEMMA ElementsByWalk ==
  ASSUME NEW h, NEW m, NEW ns, NEW f, Walk(f, h, m, ns),
         \A g : Walk(g, h, m, ns) => g = f
  PROVE  ElementsOf(h, m, ns) = f[m].seen
<1>1. f = CHOOSE g : Walk(g, h, m, ns)
  OBVIOUS
<1> QED BY <1>1 DEF ElementsOf, Walk, Onward

LEMMA WalkIsUnique ==
  ASSUME NEW h, NEW m \in Nat, NEW ns, NEW f, Walk(f, h, m, ns),
         NEW g, Walk(g, h, m, ns)
  PROVE  g = f
<1> DEFINE Agree == {k \in Nat : k <= m => f[k] = g[k]}
<1>1. 0 \in Agree
  BY DEF Walk
<1>2. ASSUME NEW k \in Nat, k \in Agree PROVE k + 1 \in Agree
  <2> SUFFICES ASSUME k + 1 <= m PROVE f[k + 1] = g[k + 1]
    OBVIOUS
  <2>1. k + 1 \in 0 .. m /\ k + 1 # 0 /\ (k + 1) - 1 = k /\ f[k] = g[k]
    BY <1>2
  <2>2. f[k + 1] = Onward(f[k], ns) /\ g[k + 1] = Onward(g[k], ns)
    BY <2>1 DEF Walk
  <2> QED BY <2>1, <2>2
<1> HIDE DEF Agree
<1>3. Nat \subseteq Agree
  BY <1>1, <1>2, Induction
<1>4. \A k \in 0 .. m : f[k] = g[k]
  BY <1>3 DEF Agree
<1> QED BY <1>4 DEF Walk

LEMMA ElementsAre ==
  ASSUME NEW h, NEW m, NEW ns, NEW c, IsChain(h, m, ns, c)
  PROVE  ElementsOf(h, m, ns) = Along(ns, c, m)
<1> DEFINE f == [k \in 0 .. m |-> [at |-> IF k = m THEN NULL ELSE c[k + 1],
                                   seen |-> Along(ns, c, k)]]
<1>1. /\ m \in Nat /\ h = IF m = 0 THEN NULL ELSE c[1]
      /\ \A k \in 1 .. m : /\ c[k] \in DOMAIN ns
                           /\ ns[c[k]].next = IF k = m THEN NULL ELSE c[k + 1]
  BY DEF IsChain
<1>2. f[0] = [at |-> h, seen |-> << >>]
  <2>1. Along(ns, c, 0) = << >>
    BY DEF Along
  <2> QED BY <1>1, <2>1
<1>3. ASSUME NEW k \in 1 .. m
      PROVE  f[k] = Onward(f[k - 1], ns)
  <2>1. k - 1 \in 0 .. m /\ k - 1 # m /\ k \in 0 .. m /\ (k - 1) + 1 = k
    BY <1>1
  <2>2. f[k - 1] = [at |-> c[k], seen |-> Along(ns, c, k - 1)]
    BY <2>1
  <2>3. Append(Along(ns, c, k - 1), ns[c[k]].data) = Along(ns, c, k)
    <3> DEFINE S == {ns[c[j]].data : j \in 1 .. k}
               s == Append(Along(ns, c, k - 1), ns[c[k]].data)
               t == Along(ns, c, k)
    <3>1. Along(ns, c, k - 1) \in Seq(S) /\ Len(Along(ns, c, k - 1)) = k - 1
      BY <2>1 DEF Along
    <3>2. s \in Seq(S) /\ Len(s) = k
      BY <3>1
    <3>3. t \in Seq(S) /\ Len(t) = k
      BY DEF Along
    <3>4. \A j \in 1 .. k : s[j] = t[j]
      BY <3>1 DEF Along
    <3> HIDE DEF s, t, S
    <3>5. s = t
      BY <3>2, <3>3, <3>4, SameSequence
    <3> QED BY <3>5 DEF s, t
  <2>4. f[k] = [at |-> IF k = m THEN NULL ELSE c[k + 1],
                seen |-> Along(ns, c, k)]
    BY <2>1
  <2> HIDE DEF f
  <2>5. /\ f[k - 1].at = c[k] /\ f[k - 1].at \in DOMAIN ns
        /\ f[k - 1].seen = Along(ns, c, k - 1)
    BY <1>1, <2>2
  <2>6. Onward(f[k - 1], ns) =
          [at |-> ns[c[k]].next,
           seen |-> Append(Along(ns, c, k - 1), ns[c[k]].data)]
    BY <2>5 DEF Onward
  <2> QED BY <1>1, <2>3, <2>4, <2>6
<1>4. Walk(f, h, m, ns)
  <2> DEFINE g == [k \in 0 .. m |-> IF k = 0 THEN [at |-> h, seen |-> << >>]
                                    ELSE Onward(f[k - 1], ns)]
  <2>1. \A k \in 0 .. m : f[k] = g[k]
    <3>1. \A k \in 0 .. m : g[k] = IF k = 0 THEN [at |-> h, seen |-> << >>]
                                   ELSE Onward(f[k - 1], ns)
      OBVIOUS
    <3>2. \A k \in 0 .. m : k # 0 => k \in 1 .. m
      BY <1>1
    <3> HIDE DEF f, g
    <3> QED BY <1>2, <1>3, <3>1, <3>2
  <2>2. f = g
    BY <2>1
  <2> QED BY <2>2 DEF Walk
<1>5. f[m].seen = Along(ns, c, m)
  BY <1>1
<1> HIDE DEF f
<1> QED BY <1>1, <1>4, <1>5, WalkIsUnique, ElementsByWalk

-----------------------------------------------------------------------------
(* The operators of the abstract list.                                     *)

LEMMA FirstIs ==
  ASSUME NEW S, NEW s \in Seq(S), NEW d, NEW p \in 1 .. Len(s), s[p] = d,
         \A k \in 1 .. Len(s) : k < p => s[k] # d
  PROVE  /\ List!Contains(s, d)
         /\ List!RemoveFirst(s, d) =
              [k \in 1 .. Len(s) - 1 |-> IF k < p THEN s[k] ELSE s[k + 1]]
<1> DEFINE I == {k \in 1 .. Len(s) : s[k] = d}
           t == SubSeq(s, 1, p - 1) \o SubSeq(s, p + 1, Len(s))
           u == [k \in 1 .. Len(s) - 1 |-> IF k < p THEN s[k] ELSE s[k + 1]]
<1>1. p = List!Min(I)
  <2>1. p \in I /\ \A k \in I : p <= k
    OBVIOUS
  <2>2. \A x \in I : (\A k \in I : x <= k) => x = p
    BY <2>1
  <2> HIDE DEF I
  <2> QED BY <2>1, <2>2 DEF List!Min
<1>2. p = List!SelectInSeq(s, LAMBDA v : v = d)
  BY <1>1 DEF List!SelectInSeq
<1>3. List!RemoveFirst(s, d) = t
  BY <1>2 DEF List!RemoveFirst, List!RemoveAt
<1>4. t = u
  <2> DEFINE a == SubSeq(s, 1, p - 1)
             b == SubSeq(s, p + 1, Len(s))
  <2>1. Len(s) \in Nat /\ p \in Nat
    OBVIOUS
  <2>0. /\ a \in Seq(S) /\ Len(a) = p - 1
        /\ \A k \in 1 .. p - 1 : a[k] = s[k]
    OBVIOUS
  <2>b. /\ b \in Seq(S) /\ Len(b) = Len(s) - p
        /\ \A k \in 1 .. Len(s) - p : b[k] = s[p + k]
    OBVIOUS
  <2>t. t = a \o b
    OBVIOUS
  <2> HIDE DEF a, b, t
  <2>2. t \in Seq(S) /\ Len(t) = Len(s) - 1
    BY <2>1, <2>0, <2>b, <2>t
  <2>3. u \in Seq(S) /\ Len(u) = Len(s) - 1
    BY <2>1
  <2>4. ASSUME NEW k \in 1 .. Len(s) - 1 PROVE t[k] = u[k]
    <3>1. CASE k < p
      <4>1. k \in 1 .. p - 1 /\ t[k] = a[k]
        BY <2>1, <2>0, <2>b, <2>t, <3>1
      <4> QED BY <2>0, <3>1, <4>1
    <3>2. CASE ~(k < p)
      <4>1. /\ k - (p - 1) \in 1 .. Len(s) - p
            /\ t[k] = b[k - (p - 1)] /\ p + (k - (p - 1)) = k + 1
        BY <2>1, <2>0, <2>b, <2>t, <3>2
      <4>2. b[k - (p - 1)] = s[k + 1]
        BY <2>b, <4>1
      <4> QED BY <3>2, <4>1, <4>2
    <3> QED BY <3>1, <3>2
  <2> HIDE DEF t, u
  <2> QED BY <2>2, <2>3, <2>4, SameSequence
<1>5. List!Contains(s, d)
  BY DEF List!Contains
<1> QED BY <1>3, <1>4, <1>5

LEMMA NoneIs ==
  ASSUME NEW s, NEW d, \A k \in 1 .. Len(s) : s[k] # d
  PROVE  ~List!Contains(s, d) /\ List!RemoveFirst(s, d) = s
BY DEF List!Contains, List!RemoveFirst

-----------------------------------------------------------------------------
(* The calls, in terms of the sequence.                                    *)

Held == IF pc = "destroy" THEN << >> ELSE Elements
Result == IF ret \in DOMAIN nodes THEN nodes[ret].data ELSE ret

\* Between two calls, and at every turn of a walk.
LEMMA HeldIs ==
  ASSUME NEW c, InStep(c), pc # "destroy"
  PROVE  /\ Held = Along(nodes, c, count)
         /\ Held \in Seq(Data) /\ Len(Held) = count /\ count \in Nat
         /\ \A k \in 1 .. count : Held[k] = nodes[c[k]].data
<1>1. /\ IsChain(head, count, nodes, c) /\ count \in Nat
      /\ nodes \in [DOMAIN nodes -> ListNode]
  BY DEF InStep, Typed, First, Left
<1>2. Elements = ElementsOf(head, count, nodes)
  BY DEF Elements, ElementsOf
<1>3. Held = Along(nodes, c, count)
  BY <1>1, <1>2, ElementsAre DEF Held
<1>4. \A k \in 1 .. count : nodes[c[k]].data \in Data
  BY <1>1 DEF IsChain, ListNode
<1> QED BY <1>1, <1>3, <1>4 DEF Along

\* The same, of the state a call leaves behind.
LEMMA HeldNext ==
  ASSUME NEW c, NEW m, IsChain(head', m, nodes', c), count' = m,
         pc' # "destroy"
  PROVE  Held' = Along(nodes', c, m)
<1>1. Elements' = ElementsOf(head', count', nodes')
  BY DEF Elements, ElementsOf
<1> QED BY <1>1, ElementsAre DEF Held

LEMMA HeldStays ==
  ASSUME UNCHANGED <<head, count, nodes>>, pc # "destroy", pc' # "destroy"
  PROVE  Held' = Held
<1>1. /\ Elements' = ElementsOf(head', count', nodes')
      /\ Elements = ElementsOf(head, count, nodes)
  BY DEF Elements, ElementsOf
<1> QED BY <1>1 DEF Held

\* A step that ends a call leaves an outcome, not the address of a node.
LEMMA ResultIs ==
  ASSUME Typed
  PROVE  /\ pc # "idle" => Result = NULL
         /\ ret' = NULL /\ DOMAIN nodes' \subseteq NodeAddrs => Result' = NULL
<1>1. NULL \notin DOMAIN nodes
  BY Addresses DEF Typed
<1> QED BY <1>1, Addresses DEF Typed, Result

LEMMA CallImplements ==
  ASSUME NEW c, InStep(c), ListCall
  PROVE  List!Ask
<1>1. pc = "idle" /\ pc # "destroy"
  BY DEF ListCall
<1>2. Held' = IF pc' = "destroy" THEN << >> ELSE Held
  BY <1>1, HeldStays DEF ListCall, Held
<1>3. Result' = NULL
  BY ResultIs DEF InStep, Typed, ListCall
<1> QED BY <1>2, <1>3 DEF ListCall, List!Ask, Held, Result

LEMMA PushImplements ==
  ASSUME NEW c, InStep(c), list_push_front
  PROVE  List!Reply
<1>1. pc = "push" /\ pc' = "idle" /\ data' = data /\ ret' = NULL /\ ret = NULL
  BY DEF list_push_front, Leave, InStep, Typed
<1>2. /\ Held \in Seq(Data) /\ Len(Held) = count
      /\ Held = Along(nodes, c, count) /\ count \in Nat
  BY <1>1, HeldIs
<1>3. List!Becomes(<<data>> \o Held) \/ List!Becomes(Held)
  <2>1. CASE UNCHANGED <<head, count, nodes>>
    BY <1>1, <1>2, <2>1, HeldStays DEF List!Becomes, Held
  <2>2. ASSUME NEW a \in NodeAddrs \ DOMAIN nodes,
               nodes' = With(nodes, a, [data |-> data, next |-> head]),
               count' = count + 1, head' = a
        PROVE  List!Becomes(<<data>> \o Held)
    <3>1. /\ DOMAIN nodes' = DOMAIN nodes \cup {a}
          /\ nodes'[a].data = data /\ nodes'[a].next = head
          /\ \A x \in DOMAIN nodes : nodes'[x] = nodes[x]
      BY <2>2 DEF With
    <3>2. IsChain(head, count, nodes, c) /\ Whole(count, nodes, c)
      BY <1>1 DEF InStep, First, Left
    <3> DEFINE d == Prefixed(c, count, a)
               s == Held'
               t == <<data>> \o Held
    <3>3. IsChain(a, count + 1, nodes', d)
      BY <3>1, <3>2, PushChain
    <3>4. s = Along(nodes', d, count + 1)
      BY <1>1, <2>2, <3>3, HeldNext
    <3>5. data \in Data /\ t \in Seq(Data) /\ Len(t) = count + 1
      BY <1>2 DEF InStep, Typed
    <3>6. \A k \in 1 .. count + 1 : t[k] = s[k]
      <4>1. t[1] = data /\ \A k \in 1 .. count : t[k + 1] = Held[k]
        BY <1>2, <3>5
      <4>2. \A k \in 1 .. count : c[k] \in DOMAIN nodes
        BY <3>2 DEF IsChain
      <4>3. \A k \in 1 .. count + 1 :
              s[k] = nodes'[IF k = 1 THEN a ELSE c[k - 1]].data
        BY <3>4 DEF Along, Prefixed
      <4>4. \A k \in 1 .. count : Held[k] = nodes[c[k]].data
        BY <1>2 DEF Along
      <4> HIDE DEF s, t, d
      <4>5. ASSUME NEW k \in 1 .. count + 1 PROVE t[k] = s[k]
        <5>1. CASE k = 1
          BY <3>1, <4>1, <4>3, <5>1
        <5>2. CASE k # 1
          <6>1. k - 1 \in 1 .. count /\ (k - 1) + 1 = k
            BY <1>2, <5>2
          <6>2. t[k] = Held[k - 1]
            BY <4>1, <6>1
          <6>3. s[k] = nodes[c[k - 1]].data
            BY <3>1, <4>2, <4>3, <5>2, <6>1
          <6> QED BY <4>4, <6>1, <6>2, <6>3
        <5> QED BY <5>1, <5>2
      <4> QED BY <4>5
    <3>7. s \in Seq(Data) /\ Len(s) = count + 1
      <4>1. \A k \in 1 .. count + 1 : s[k] \in Data
        <5> HIDE DEF s, t
        <5> QED BY <3>5, <3>6
      <4> HIDE DEF d
      <4>2. s = [k \in 1 .. count + 1 |-> s[k]]
        <5>1. s = [k \in 1 .. count + 1 |-> nodes'[d[k]].data]
          BY <3>4 DEF Along
        <5> HIDE DEF s
        <5> QED BY <5>1
      <4> HIDE DEF s
      <4> QED BY <1>2, <4>1, <4>2
    <3> HIDE DEF s, t
    <3>8. s = t
      BY <3>5, <3>6, <3>7, SameSequence
    <3> QED BY <2>2, <3>5, <3>8 DEF List!Becomes, Held, s, t
  <2> QED BY <2>1, <2>2 DEF list_push_front
<1>4. Result' = Result
  <2>1. DOMAIN nodes' \subseteq NodeAddrs
    BY DEF list_push_front, With, InStep, Typed
  <2> QED BY <1>1, <2>1, ResultIs DEF InStep
<1> QED BY <1>1, <1>3, <1>4 DEF List!Reply, Held, Result

LEMMA RemovedImplements ==
  ASSUME NEW c, InStep(c), InLoop("remove"), Matches, Unlink,
         count' = count - 1, Return(TRUE)
  PROVE  List!Reply
<1> DEFINE p == i + 1
           s == Held'
           t == [k \in 1 .. Len(Held) - 1 |-> IF k < p THEN Held[k]
                                              ELSE Held[k + 1]]
<1>1. /\ pc = "remove" /\ pc' = "idle" /\ data' = data /\ ret' = TRUE
      /\ p \in 1 .. count /\ i \in Nat /\ p - 1 = i
      /\ current = c[p] /\ nodes[c[p]].data = data
      /\ \A k \in 1 .. i : nodes[c[k]].data # data
      /\ IsChain(head, count, nodes, c)
  BY DEF InStep, Typed, Walked, Walking, InLoop, Return, Leave, Matches,
         First, Left
<1>2. /\ Held \in Seq(Data) /\ Len(Held) = count /\ count \in Nat
      /\ \A k \in 1 .. count : Held[k] = nodes[c[k]].data
  BY <1>1, HeldIs
<1>3. /\ IsChain(head', count - 1, nodes', Shorter(c, count, p))
      /\ DOMAIN nodes' = DOMAIN nodes \ {c[p]}
      /\ \A a \in DOMAIN nodes' : nodes'[a].data = nodes[a].data
  BY Unlinked
<1> HIDE DEF p
<1>4. /\ List!Contains(Held, data) /\ List!RemoveFirst(Held, data) = t
  <2>1. Held[p] = data /\ p \in 1 .. Len(Held)
    BY <1>1, <1>2
  <2>2. \A k \in 1 .. Len(Held) : k < p => Held[k] # data
    BY <1>1, <1>2
  <2> QED BY <1>2, <2>1, <2>2, FirstIs
<1>5. s = t
  <2> DEFINE d == Shorter(c, count, p)
  <2>1. s = Along(nodes', d, count - 1)
    BY <1>1, <1>3, HeldNext
  <2>2. \A k \in 1 .. count - 1 : d[k] \in DOMAIN nodes'
    BY <1>3 DEF IsChain
  <2>3. \A k \in 1 .. count - 1 : d[k] = IF k < p THEN c[k] ELSE c[k + 1]
    BY DEF Shorter
  <2> HIDE DEF d
  <2>4. \A k \in 1 .. count - 1 :
          nodes'[d[k]].data = IF k < p THEN Held[k] ELSE Held[k + 1]
    <3>1. \A k \in 1 .. count - 1 : k \in 1 .. count /\ k + 1 \in 1 .. count
      BY <1>2
    <3> QED BY <1>2, <1>3, <2>2, <2>3, <3>1
  <2> QED BY <1>2, <2>1, <2>4 DEF Along
<1>6. Len(t) = count - 1
  BY <1>1, <1>2
<1>7. Result' = TRUE
  <2>1. DOMAIN nodes' \subseteq NodeAddrs
    BY <1>3 DEF InStep, Typed
  <2>2. ret' \notin DOMAIN nodes'
    BY <1>1, <2>1, Addresses
  <2> QED BY <1>1, <2>2 DEF Result
<1> HIDE DEF s, t
<1>8. List!Becomes(List!RemoveFirst(Held, data))
  BY <1>4, <1>5, <1>6 DEF List!Becomes, s, Held
<1> QED BY <1>1, <1>4, <1>7, <1>8 DEF List!Reply, Held, Result

\* At the end of the walk there was no match.
LEMMA NoneLeft ==
  ASSUME NEW c, InStep(c), Walking,
         i >= count \/ (i < count /\ ~Matches /\ Last)
  PROVE  /\ ~List!Contains(Held, data) /\ List!RemoveFirst(Held, data) = Held
         /\ Len(Held) = count
<1>1. /\ pc # "destroy" /\ IsChain(head, count, nodes, c)
      /\ i \in 0 .. count /\ i \in Nat
      /\ current = IF i < count THEN c[i + 1] ELSE NULL
      /\ \A k \in 1 .. i : nodes[c[k]].data # data
  BY DEF InStep, Typed, Walked, Walking, First, Left
<1>2. /\ Len(Held) = count /\ count \in Nat
      /\ \A k \in 1 .. count : Held[k] = nodes[c[k]].data
  BY <1>1, HeldIs
<1>3. \A k \in 1 .. count : nodes[c[k]].data # data
  <2>1. CASE i >= count
    BY <1>1, <1>2, <2>1
  <2>2. CASE i < count /\ ~Matches /\ Last
    <3>1. i + 1 \in 1 .. count /\ current = c[i + 1] /\ count > 0
      BY <1>1, <1>2, <2>2
    <3>2. i + 1 = count
      BY <1>1, <2>2, <3>1, FrameChain DEF Last
    <3>3. nodes[c[i + 1]].data # data
      BY <2>2, <3>1 DEF Matches
    <3>4. \A k \in 1 .. count : k \in 1 .. i \/ k = i + 1
      BY <1>1, <3>2
    <3> QED BY <1>1, <3>3, <3>4
  <2> QED BY <2>1, <2>2
<1> QED BY <1>2, <1>3, NoneIs

LEMMA NotRemovedImplements ==
  ASSUME NEW c, InStep(c), pc = "remove", i >= count, Return(FALSE),
         UNCHANGED <<head, count, nodes>>
  PROVE  List!Reply
<1>1. pc' = "idle" /\ data' = data /\ ret' = FALSE
  BY DEF Return, Leave
<1>2. /\ ~List!Contains(Held, data) /\ List!RemoveFirst(Held, data) = Held
      /\ Len(Held) = count
  BY NoneLeft DEF Walking
<1>3. Held' = Held
  BY <1>1, HeldStays
<1>4. Result' = FALSE
  <2>1. ret' \notin DOMAIN nodes'
    BY <1>1, Addresses DEF InStep, Typed
  <2> QED BY <1>1, <2>1 DEF Result
<1>5. List!Becomes(List!RemoveFirst(Held, data))
  BY <1>2, <1>3 DEF List!Becomes, Held
<1>6. Result' = List!Contains(Held, data)
  <2>1. List!Contains(Held, data) = FALSE
    BY <1>2, Zenon DEF List!Contains
  <2> QED BY <1>4, <2>1, Zenon
<1> QED BY <1>1, <1>5, <1>6 DEF List!Reply, Held, Result

LEMMA FoundImplements ==
  ASSUME NEW c, InStep(c), InLoop("find"), Matches, Return(current),
         UNCHANGED <<head, count, nodes>>
  PROVE  List!Reply
<1>1. /\ pc = "find" /\ pc' = "idle" /\ data' = data /\ ret' = current
      /\ pc # "destroy" /\ IsChain(head, count, nodes, c)
      /\ i + 1 \in 1 .. count /\ count > 0 /\ current = c[i + 1]
      /\ nodes[current].data = data
  BY DEF InStep, Typed, Walked, Walking, InLoop, Return, Leave, Matches,
         First, Left
<1>2. /\ Held \in Seq(Data) /\ Len(Held) = count
      /\ \A k \in 1 .. count : Held[k] = nodes[c[k]].data
  BY <1>1, HeldIs
<1>3. List!Contains(Held, data)
  BY <1>1, <1>2 DEF List!Contains
<1>4. Held' = Held
  BY <1>1, HeldStays
<1>5. Result' = data
  <2>1. current \in DOMAIN nodes
    BY <1>1, FrameChain
  <2> QED BY <1>1, <2>1 DEF Result
<1>6. List!Becomes(Held)
  BY <1>2, <1>4 DEF List!Becomes, Held
<1> QED BY <1>1, <1>3, <1>5, <1>6 DEF List!Reply, Held, Result

LEMMA NotFoundImplements ==
  ASSUME NEW c, InStep(c), pc = "find",
         i >= count \/ (i < count /\ ~Matches /\ Last),
         Return(NULL), UNCHANGED <<head, count, nodes>>
  PROVE  List!Reply
<1>1. pc' = "idle" /\ data' = data /\ ret' = NULL
  BY DEF Return, Leave
<1>2. ~List!Contains(Held, data) /\ Len(Held) = count
  BY NoneLeft DEF Walking
<1>3. Held' = Held
  BY <1>1, HeldStays
<1>4. Result' = NULL
  BY <1>1, ResultIs DEF InStep, Typed
<1>5. List!Becomes(Held)
  BY <1>2, <1>3 DEF List!Becomes, Held
<1> QED BY <1>1, <1>2, <1>4, <1>5 DEF List!Reply, Held, Result

LEMMA DestroyedImplements ==
  ASSUME NEW c, InStep(c), pc = "destroy", i >= count,
         count' = 0, head' = NULL, Leave, UNCHANGED <<nodes, ret>>
  PROVE  List!Reply
<1>1. pc' = "idle" /\ data' = data /\ ret = NULL /\ ret' = NULL
  BY DEF Leave, InStep, Typed
<1>2. IsChain(head', 0, nodes', c)
  <2>1. Left = 0
    BY DEF InStep, Typed, Left
  <2> QED BY <2>1 DEF InStep, IsChain
<1>3. Held' = << >>
  <2>1. Held' = Along(nodes', c, 0)
    BY <1>1, <1>2, HeldNext
  <2> QED BY <2>1 DEF Along
<1>4. Result' = Result
  BY <1>1, ResultIs DEF InStep, Typed
<1>5. List!Becomes(<< >>)
  BY <1>3 DEF List!Becomes, Held
<1> QED BY <1>1, <1>4, <1>5 DEF List!Reply, Held, Result

\* The turns of a loop do not show.
Hidden == /\ Held' = Held /\ count' = count /\ pc' = pc /\ data' = data
          /\ Result' = Result

LEMMA TurnsAreHidden ==
  ASSUME Typed, Turn,
         \/ UNCHANGED <<head, nodes>> /\ pc # "destroy"
         \/ pc = "destroy" /\ nodes' = Without(nodes, current)
  PROVE  Hidden
<1>1. pc' = pc /\ data' = data /\ count' = count /\ ret' = ret
  BY DEF Turn
<1>2. Held' = Held
  BY <1>1, HeldStays DEF Held
<1>3. Result' = Result
  BY <1>1, ResultIs, Addresses DEF Typed, Result, Without
<1> QED BY <1>1, <1>2, <1>3 DEF Hidden

LEMMA ListStep ==
  ASSUME ListInv, [ListNext]_listVars
  PROVE  List!Ask \/ List!Reply \/ Hidden
<1>0. PICK c : InStep(c)
  BY DEF ListInv, InStep
<1>1. CASE ListCall
  BY <1>0, <1>1, CallImplements
<1>2. CASE list_push_front
  BY <1>0, <1>2, PushImplements
<1>3. CASE list_remove
  <2>1. CASE /\ InLoop("remove") /\ Matches /\ Unlink /\ count' = count - 1
             /\ Return(TRUE)
    BY <1>0, <2>1, RemovedImplements
  <2>2. CASE InLoop("remove") /\ Turn /\ UNCHANGED <<head, nodes>>
    BY <1>0, <2>2, TurnsAreHidden DEF InLoop, InStep
  <2>3. CASE /\ pc = "remove" /\ i >= count /\ Return(FALSE)
             /\ UNCHANGED <<head, count, nodes>>
    BY <1>0, <2>3, NotRemovedImplements
  <2> QED BY <1>3, <2>1, <2>2, <2>3 DEF list_remove
<1>4. CASE list_find
  <2>1. CASE /\ InLoop("find") /\ Matches /\ Return(current)
             /\ UNCHANGED <<head, count, nodes>>
    BY <1>0, <2>1, FoundImplements
  <2>2. CASE InLoop("find") /\ Turn /\ UNCHANGED <<head, nodes>>
    BY <1>0, <2>2, TurnsAreHidden DEF InLoop, InStep
  <2>3. CASE /\ pc = "find"
             /\ i >= count \/ (i < count /\ ~Matches /\ Last)
             /\ Return(NULL) /\ UNCHANGED <<head, count, nodes>>
    BY <1>0, <2>3, NotFoundImplements
  <2> QED BY <1>4, <2>1, <2>2, <2>3 DEF list_find, InLoop
<1>5. CASE list_destroy
  <2>1. CASE /\ InLoop("destroy") /\ nodes' = Without(nodes, current)
             /\ Turn
    BY <1>0, <2>1, TurnsAreHidden DEF InLoop, InStep
  <2>2. CASE /\ pc = "destroy" /\ i >= count /\ count' = 0 /\ head' = NULL
             /\ Leave /\ UNCHANGED <<nodes, ret>>
    BY <1>0, <2>2, DestroyedImplements
  <2> QED BY <1>5, <2>1, <2>2 DEF list_destroy
<1>6. CASE UNCHANGED listVars
  BY <1>6, HeldStays DEF Hidden, Held, Result, listVars
<1> QED BY <1>1, <1>2, <1>3, <1>4, <1>5, <1>6 DEF ListNext

\* The linked list implements the sequence of DataList: list_remove and
\* list_find answer for the first element that matches, and the others stay
\* in order.
THEOREM RefinesList == LinkedListSpec => ListSpec
<1>1. ListInit => List!Init
  <2> SUFFICES ASSUME ListInit PROVE List!Init
    OBVIOUS
  <2>1. ListInv
    BY ListInvInit
  <2>2. PICK c : InStep(c)
    BY <2>1 DEF ListInv, InStep
  <2>3. pc = "idle" /\ count = 0
    BY DEF ListInit
  <2>4. Held = << >>
    <3>1. Held = Along(nodes, c, 0)
      BY <2>2, <2>3, HeldIs
    <3> QED BY <3>1 DEF Along
  <2> QED BY <2>3, <2>4 DEF List!Init, Held
<1>2. ASSUME ListInv, [ListNext]_listVars
      PROVE  [List!Ask \/ List!Reply]_<<IF pc = "destroy" THEN << >>
                                        ELSE Elements,
                                        count, pc, data,
                                        IF ret \in DOMAIN nodes
                                        THEN nodes[ret].data ELSE ret>>
  BY <1>2, ListStep DEF Hidden, Held, Result
<1> QED BY <1>1, <1>2, ListInvInit, ListInvStep, PTL
        DEF LinkedListSpec, ListSpec, List!Spec

-----------------------------------------------------------------------------
(* RunLength.  First the pairs an input needs: where runs begin, and what  *)
(* the next byte changes.                                                  *)

\* RunFrom and Pairs, of any input.
Run(s, x) == CHOOSE y \in 1 .. x : /\ \A z \in y .. x : s[z] = s[x]
                                   /\ y = 1 \/ s[y - 1] # s[x]
Opens(s, x) == (x - Run(s, x)) % (RLE_BYTES - 1) = 0
Openings(s, w) == {x \in 1 .. w : Opens(s, x)}
PairsTo(s, w) == Cardinality(Openings(s, w))

LEMMA RleSizes == /\ RLE_BYTES \in Nat /\ RLE_BYTES > 2
                  /\ RLE_BYTES - 1 \in Nat \ {0, 1}
BY RleAssumption

\* The remainder of the next number.
LEMMA NextRemainder ==
  ASSUME NEW M \in Nat \ {0, 1}, NEW r \in Nat
  PROVE  /\ r % M \in 0 .. M - 1
         /\ (r + 1) % M = IF r % M = M - 1 THEN 0 ELSE (r % M) + 1
<1> DEFINE Parts(n, q, k) == n = M * q + k
           Done == {n \in Nat :
                      \E q \in Int, k \in 0 .. M - 1 : Parts(n, q, k)}
<1>1. \A q \in Int, k \in 0 .. M - 1 : (M * q + k) % M = k
  OBVIOUS
<1>2. ASSUME NEW n \in Nat, NEW q \in Int, NEW k \in 0 .. M - 1, Parts(n, q, k)
      PROVE  IF k = M - 1 THEN Parts(n + 1, q + 1, 0)
             ELSE Parts(n + 1, q, k + 1)
  BY <1>2
<1>3. 0 \in Done
  <2>1. Parts(0, 0, 0)
    OBVIOUS
  <2> HIDE DEF Parts
  <2> QED BY <2>1
<1>4. ASSUME NEW n \in Nat, n \in Done PROVE n + 1 \in Done
  <2> HIDE DEF Parts
  <2>1. PICK q \in Int, k \in 0 .. M - 1 : Parts(n, q, k)
    BY <1>4
  <2>2. CASE k = M - 1
    <3>1. Parts(n + 1, q + 1, 0) /\ q + 1 \in Int /\ 0 \in 0 .. M - 1
      BY <1>2, <2>1, <2>2
    <3> QED BY <3>1
  <2>3. CASE k # M - 1
    <3>1. Parts(n + 1, q, k + 1) /\ k + 1 \in 0 .. M - 1
      BY <1>2, <2>1, <2>3
    <3> QED BY <3>1
  <2> QED BY <2>2, <2>3
<1> HIDE DEF Done
<1>5. Nat \subseteq Done
  BY <1>3, <1>4, Induction
<1>6. PICK q \in Int, k \in 0 .. M - 1 : Parts(r, q, k)
  BY <1>5 DEF Done
<1>7. r % M = k
  BY <1>1, <1>6
<1>8. CASE k = M - 1
  <2>1. r + 1 = M * (q + 1) + 0 /\ q + 1 \in Int /\ 0 \in 0 .. M - 1
    BY <1>2, <1>6, <1>8
  <2> QED BY <1>1, <1>7, <1>8, <2>1
<1>9. CASE k # M - 1
  <2>1. r + 1 = M * q + (k + 1) /\ k + 1 \in 0 .. M - 1
    BY <1>2, <1>6, <1>9
  <2> QED BY <1>1, <1>7, <1>9, <2>1
<1> QED BY <1>8, <1>9

LEMMA RunIs ==
  ASSUME NEW s, NEW x \in Nat, NEW y \in 1 .. x,
         \A z \in y .. x : s[z] = s[x], y = 1 \/ s[y - 1] # s[x]
  PROVE  Run(s, x) = y
<1> DEFINE Test(u) == /\ \A z \in u .. x : s[z] = s[x]
                      /\ u = 1 \/ s[u - 1] # s[x]
<1>1. ASSUME NEW u \in 1 .. x, Test(u) PROVE u = y
  <2>1. CASE u < y
    <3>1. y - 1 \in u .. x /\ y # 1
      BY <2>1
    <3> QED BY <1>1, <3>1
  <2>2. CASE y < u
    <3>1. u - 1 \in y .. x /\ u # 1
      BY <2>2
    <3> QED BY <1>1, <3>1
  <2> QED BY <2>1, <2>2
<1>2. Test(y)
  OBVIOUS
<1> HIDE DEF Test
<1>3. (CHOOSE u \in 1 .. x : Test(u)) = y
  BY <1>1, <1>2
<1> QED BY <1>3 DEF Run, Test

LEMMA RunExists ==
  ASSUME NEW s, NEW x \in Nat \ {0}
  PROVE  /\ Run(s, x) \in 1 .. x
         /\ \A z \in Run(s, x) .. x : s[z] = s[x]
         /\ Run(s, x) = 1 \/ s[Run(s, x) - 1] # s[x]
<1> DEFINE T == {y \in 1 .. x : \A z \in y .. x : s[z] = s[x]}
<1>1. T \in SUBSET Nat /\ x \in T
  OBVIOUS
<1>2. PICK y \in T : \A u \in T : y <= u
  BY <1>1, LeastElement
<1>3. y \in 1 .. x /\ \A z \in y .. x : s[z] = s[x]
  OBVIOUS
<1>4. y = 1 \/ s[y - 1] # s[x]
  <2> SUFFICES ASSUME y # 1, s[y - 1] = s[x] PROVE FALSE
    OBVIOUS
  <2>1. y - 1 \in 1 .. x /\ \A z \in y - 1 .. x : z = y - 1 \/ z \in y .. x
    BY <1>3
  <2>2. y - 1 \in T
    BY <1>3, <2>1
  <2>3. y <= y - 1
    BY <1>2, <2>2
  <2> QED BY <1>3, <2>3
<1>5. Run(s, x) = y
  BY <1>3, <1>4, RunIs
<1> QED BY <1>3, <1>4, <1>5

\* The next byte.
LEMMA RunStep ==
  ASSUME NEW s, NEW w \in Nat \ {0}
  PROVE  Run(s, w + 1) = IF s[w + 1] = s[w] THEN Run(s, w) ELSE w + 1
<1>1. CASE s[w + 1] = s[w]
  <2> DEFINE y == Run(s, w)
  <2>1. /\ y \in 1 .. w /\ \A z \in y .. w : s[z] = s[w]
        /\ y = 1 \/ s[y - 1] # s[w]
    BY RunExists
  <2> HIDE DEF y
  <2>2. \A z \in y .. w + 1 : z \in y .. w \/ z = w + 1
    BY <2>1
  <2>3. /\ \A z \in y .. w + 1 : s[z] = s[w + 1]
        /\ y = 1 \/ s[y - 1] # s[w + 1]
    BY <1>1, <2>1, <2>2
  <2>4. y \in 1 .. w + 1 /\ w + 1 \in Nat
    BY <2>1
  <2>5. Run(s, w + 1) = y
    BY <2>3, <2>4, RunIs
  <2> QED BY <1>1, <2>5 DEF y
<1>2. CASE s[w + 1] # s[w]
  <2>1. /\ \A z \in w + 1 .. w + 1 : s[z] = s[w + 1]
        /\ s[(w + 1) - 1] # s[w + 1]
        /\ w + 1 \in 1 .. w + 1 /\ w + 1 \in Nat
    BY <1>2
  <2>2. Run(s, w + 1) = w + 1
    BY <2>1, RunIs
  <2> QED BY <1>2, <2>2
<1> QED BY <1>1, <1>2

\* How far into its pair byte w is, from 0.
Into(s, w) == (w - Run(s, w)) % (RLE_BYTES - 1)

LEMMA IntoStep ==
  ASSUME NEW s, NEW w \in Nat \ {0}
  PROVE  /\ Into(s, w) \in 0 .. RLE_BYTES - 2
         /\ Into(s, w + 1) = IF \/ s[w + 1] # s[w]
                                \/ Into(s, w) = RLE_BYTES - 2
                             THEN 0 ELSE Into(s, w) + 1
<1> DEFINE M == RLE_BYTES - 1
           r == w - Run(s, w)
<1>1. M \in Nat \ {0, 1} /\ M - 1 = RLE_BYTES - 2
  BY RleSizes
<1>2. Run(s, w) \in 1 .. w
  BY RunExists
<1>3. r \in Nat
  BY <1>2
<1>4. CASE s[w + 1] = s[w]
  <2>1. (w + 1) - Run(s, w + 1) = r + 1
    BY <1>2, <1>4, RunStep
  <2>2. Into(s, w) = r % M /\ Into(s, w + 1) = (r + 1) % M
    BY <2>1, Zenon DEF Into
  <2> HIDE DEF r, M
  <2> QED BY <1>1, <1>3, <1>4, <2>2, NextRemainder
<1>5. CASE s[w + 1] # s[w]
  <2>1. (w + 1) - Run(s, w + 1) = 0
    BY <1>5, RunStep
  <2>2. Into(s, w + 1) = 0 % M
    BY <2>1, Zenon DEF Into
  <2>3. Into(s, w) = r % M
    BY DEF Into
  <2> HIDE DEF r, M
  <2>4. 0 % M = 0
    BY <1>1
  <2> QED BY <1>1, <1>3, <1>5, <2>2, <2>3, <2>4, NextRemainder
<1> QED BY <1>4, <1>5

LEMMA IntoFirst ==
  ASSUME NEW s
  PROVE  Into(s, 1) = 0 /\ Opens(s, 1)
<1>1. Run(s, 1) = 1
  <2>1. 1 \in Nat /\ 1 \in 1 .. 1 /\ \A z \in 1 .. 1 : s[z] = s[1]
    OBVIOUS
  <2> QED BY <2>1, RunIs
<1>2. 0 % (RLE_BYTES - 1) = 0
  BY RleSizes
<1> QED BY <1>1, <1>2 DEF Into, Opens

LEMMA PairsStep ==
  ASSUME NEW s, NEW w \in Nat
  PROVE  /\ PairsTo(s, w) \in Nat
         /\ PairsTo(s, w + 1) = IF Opens(s, w + 1) THEN PairsTo(s, w) + 1
                                ELSE PairsTo(s, w)
<1>1. IsFiniteSet(Openings(s, w)) /\ w + 1 \notin Openings(s, w)
  <2>1. Openings(s, w) \subseteq 1 .. w
    BY DEF Openings
  <2>2. IsFiniteSet(1 .. w)
    BY FS_Interval
  <2> QED BY <2>1, <2>2, FS_Subset
<1>2. Openings(s, w + 1) = IF Opens(s, w + 1) THEN Openings(s, w) \cup {w + 1}
                         ELSE Openings(s, w)
  <2>1. \A x : x \in 1 .. w + 1 <=> x \in 1 .. w \/ x = w + 1
    OBVIOUS
  <2> QED BY <2>1 DEF Openings
<1>3. PairsTo(s, w) \in Nat
  BY <1>1, FS_CardinalityType DEF PairsTo
<1>4. Cardinality(Openings(s, w) \cup {w + 1}) =
        Cardinality(Openings(s, w)) + 1
  BY <1>1, FS_AddElement
<1> QED BY <1>2, <1>3, <1>4 DEF PairsTo

LEMMA PairsFirst ==
  ASSUME NEW s
  PROVE  PairsTo(s, 0) = 0 /\ PairsTo(s, 1) = 1
<1>1. Openings(s, 0) = {}
  BY DEF Openings
<1>2. PairsTo(s, 0) = 0
  BY <1>1, FS_EmptySet DEF PairsTo
<1>3. PairsTo(s, 0 + 1) = PairsTo(s, 0) + 1
  BY IntoFirst, PairsStep
<1> QED BY <1>2, <1>3

\* More bytes take no fewer pairs.
LEMMA PairsGrow ==
  ASSUME NEW s, NEW w \in Nat, NEW n \in Nat, w <= n
  PROVE  PairsTo(s, w) <= PairsTo(s, n)
<1> DEFINE Done == {m \in Nat : PairsTo(s, w) <= PairsTo(s, w + m)}
<1>1. 0 \in Done
  BY PairsStep
<1>2. ASSUME NEW m \in Nat, m \in Done PROVE m + 1 \in Done
  <2>1. w + m \in Nat /\ w + (m + 1) = (w + m) + 1
    OBVIOUS
  <2>2. PairsTo(s, w + m) \in Nat /\ PairsTo(s, w) \in Nat
    BY <2>1, PairsStep
  <2>3. PairsTo(s, (w + m) + 1) \in {PairsTo(s, w + m), PairsTo(s, w + m) + 1}
    BY <2>1, PairsStep
  <2> QED BY <1>2, <2>1, <2>2, <2>3
<1>3. n - w \in Nat /\ w + (n - w) = n
  OBVIOUS
<1> HIDE DEF Done
<1>4. n - w \in Done
  BY <1>1, <1>2, <1>3, Induction
<1> QED BY <1>3, <1>4 DEF Done

\* The loop of rle_encode, for the first m bytes.
Loop(f, s, room, m) ==
  f = [w \in 1 .. m |-> IF w = 1 THEN [Empty EXCEPT !.last_byte = s[1]]
                        ELSE Encode(f[w - 1], s[w], room)]

LEMMA LoopExists ==
  ASSUME NEW s, NEW room, NEW m \in Nat
  PROVE  \E f : Loop(f, s, room, m)
<1> DEFINE Done == {k \in Nat : \E f : Loop(f, s, room, k)}
           Part(f, w) == IF w = 1 THEN [Empty EXCEPT !.last_byte = s[1]]
                         ELSE Encode(f[w - 1], s[w], room)
<1>1. 0 \in Done
  <2> DEFINE f == [w \in {} |-> 0]
  <2>1. 1 .. 0 = {}
    OBVIOUS
  <2>2. Loop(f, s, room, 0)
    BY <2>1, Zenon DEF Loop
  <2> HIDE DEF f
  <2> QED BY <2>2
<1>2. ASSUME NEW k \in Nat, k \in Done PROVE k + 1 \in Done
  <2>1. PICK f : Loop(f, s, room, k)
    BY <1>2
  <2> DEFINE g == [w \in 1 .. k + 1 |-> IF w = k + 1 THEN Part(f, w) ELSE f[w]]
  <2>2. \A w \in 1 .. k + 1 :
          g[w] = IF w = k + 1 THEN Part(f, w) ELSE f[w]
    OBVIOUS
  <2>3. ASSUME NEW w \in 1 .. k + 1 PROVE g[w] = Part(g, w)
    <3>1. w # 1 => w - 1 \in 1 .. k + 1 /\ w - 1 # k + 1
      OBVIOUS
    <3> HIDE DEF g
    <3>2. w # 1 => g[w - 1] = f[w - 1]
      BY <2>2, <3>1
    <3>3. Part(g, w) = Part(f, w)
      BY <3>2
    <3>4. CASE w = k + 1
      BY <2>2, <3>3, <3>4
    <3>5. CASE w # k + 1
      <4>1. w \in 1 .. k
        BY <3>5
      <4>2. f[w] = Part(f, w)
        BY <2>1, <4>1 DEF Loop
      <4> HIDE DEF Part
      <4> QED BY <2>2, <3>3, <3>5, <4>2
    <3> QED BY <3>4, <3>5
  <2>4. g = [w \in 1 .. k + 1 |-> g[w]]
    OBVIOUS
  <2> HIDE DEF g
  <2>5. g = [w \in 1 .. k + 1 |-> Part(g, w)]
    BY <2>3, <2>4
  <2>6. Loop(g, s, room, k + 1)
    BY <2>5 DEF Loop
  <2> QED BY <2>6
<1> HIDE DEF Done
<1>3. Nat \subseteq Done
  BY <1>1, <1>2, Induction
<1> QED BY <1>3 DEF Done

\* What the encoder returns, in terms of the loop.
Outcome(f, s, room) ==
  LET e == f[Len(s)]
      last == IF e.overflow THEN e ELSE Flush(e, room)
  IN [output |-> last.output, ret |-> IF last.overflow THEN 0 ELSE last.index]

LEMMA EncoderIs ==
  ASSUME NEW s \in Seq(Symbols), NEW room, s # << >>
  PROVE  \E f : /\ Loop(f, s, room, Len(s))
                /\ rle_encode(s, room) = Outcome(f, s, room)
<1> DEFINE f == CHOOSE f : Loop(f, s, room, Len(s))
<1>1. Loop(f, s, room, Len(s))
  <2>1. Len(s) \in Nat
    OBVIOUS
  <2> QED BY <2>1, LoopExists
<1>2. rle_encode(s, room) =
        IF s = << >> THEN [output |-> Empty.output, ret |-> 0]
        ELSE Outcome(f, s, room)
  BY Zenon DEF rle_encode, Outcome, Loop
<1> QED BY <1>1, <1>2

-----------------------------------------------------------------------------
\* The recursion of Decoded, for the pairs of an output.
Pair(code, p) == [x \in 1 .. code[2 * p - 1] |-> code[2 * p - 2]]
Builds(d, code, k) ==
  d = [p \in 0 .. k |-> IF p = 0 THEN << >> ELSE d[p - 1] \o Pair(code, p)]

LEMMA BuildsOnce ==
  ASSUME NEW code, NEW k \in Nat, NEW d, Builds(d, code, k),
         NEW c, Builds(c, code, k)
  PROVE  c[k] = d[k]
<1> DEFINE Same == {p \in Nat : p <= k => c[p] = d[p]}
<1>1. 0 \in Same
  BY DEF Builds
<1>2. ASSUME NEW p \in Nat, p \in Same PROVE p + 1 \in Same
  <2> SUFFICES ASSUME p + 1 <= k PROVE c[p + 1] = d[p + 1]
    OBVIOUS
  <2>1. p + 1 \in 0 .. k /\ p + 1 # 0 /\ (p + 1) - 1 = p
    OBVIOUS
  <2>2. /\ c[p + 1] = c[p] \o Pair(code, p + 1)
        /\ d[p + 1] = d[p] \o Pair(code, p + 1)
    BY <2>1 DEF Builds
  <2>3. c[p] = d[p]
    BY <1>2, <2>1
  <2> QED BY <2>2, <2>3
<1> HIDE DEF Same
<1>3. Nat \subseteq Same
  BY <1>1, <1>2, Induction
<1> QED BY <1>3 DEF Same

\* Two outputs that agree on the first k pairs.
AgreeTo(more, code, k) == \A x \in 0 .. 2 * k - 1 : more[x] = code[x]

\* One pair more, behind the others.
AddsPair(d, k, more) == \E c : /\ Builds(c, more, k + 1)
                              /\ c[k + 1] = d[k] \o Pair(more, k + 1)

LEMMA BuildsNext ==
  ASSUME NEW code, NEW k \in Nat, NEW d, Builds(d, code, k),
         NEW more, AgreeTo(more, code, k)
  PROVE  AddsPair(d, k, more)
<1> DEFINE Part(c, p) == IF p = 0 THEN << >> ELSE c[p - 1] \o Pair(more, p)
           c == [p \in 0 .. k + 1 |->
                   IF p = k + 1 THEN d[k] \o Pair(more, k + 1) ELSE d[p]]
<1>1. \A p \in 0 .. k + 1 :
        c[p] = IF p = k + 1 THEN d[k] \o Pair(more, k + 1) ELSE d[p]
  OBVIOUS
<1>2. c = [p \in 0 .. k + 1 |-> c[p]]
  OBVIOUS
<1> HIDE DEF c
<1>3. ASSUME NEW p \in 0 .. k + 1 PROVE c[p] = Part(c, p)
  <2>1. CASE p = k + 1
    <3>1. p - 1 \in 0 .. k + 1 /\ p - 1 = k /\ k # k + 1 /\ p # 0
      BY <2>1
    <3>2. c[p - 1] = d[k]
      BY <1>1, <3>1
    <3> QED BY <1>1, <2>1, <3>1, <3>2
  <2>2. CASE p # k + 1
    <3>1. p \in 0 .. k
      BY <2>2
    <3>2. d[p] = IF p = 0 THEN << >> ELSE d[p - 1] \o Pair(code, p)
      BY <3>1 DEF Builds
    <3>3. p # 0 => c[p - 1] = d[p - 1]
      <4>1. p # 0 => p - 1 \in 0 .. k + 1 /\ p - 1 # k + 1
        BY <3>1
      <4> QED BY <1>1, <4>1
    <3>4. p # 0 => Pair(code, p) = Pair(more, p)
      <4>1. p # 0 => /\ 2 * p - 1 \in 0 .. 2 * k - 1
                     /\ 2 * p - 2 \in 0 .. 2 * k - 1
        BY <3>1
      <4> QED BY <4>1 DEF Pair, AgreeTo
    <3> QED BY <1>1, <2>2, <3>2, <3>3, <3>4
  <2> QED BY <2>1, <2>2
<1>4. c = [p \in 0 .. k + 1 |-> Part(c, p)]
  BY <1>2, <1>3
<1>5. Builds(c, more, k + 1)
  BY <1>4 DEF Builds
<1>6. k + 1 \in 0 .. k + 1
  OBVIOUS
<1>7. c[k + 1] = d[k] \o Pair(more, k + 1)
  BY <1>1, <1>6
<1> QED BY <1>5, <1>7 DEF AddsPair

-----------------------------------------------------------------------------
(* One turn of the loop.                                                   *)

Shape(e) == e \in [index : {e.index}, count : {e.count},
                   last_byte : {e.last_byte}, overflow : {e.overflow},
                   output : {e.output}]

\* The output: k pairs, which decode to the first m bytes of s.
Written(code, k, s, m) ==
  /\ DOMAIN code = 0 .. 2 * k - 1
  /\ \E d : /\ Builds(d, code, k)
            /\ d[k] \in Seq(Symbols) /\ Len(d[k]) = m
            /\ \A z \in 1 .. m : d[k][z] = s[z]

\* The count: the bytes of s up to the w-th that have no pair yet.
Counted(e, s, w) ==
  /\ e.last_byte = s[w]
  /\ e.count = Into(s, w) + 1 /\ e.count \in 1 .. w
  /\ \A z \in w - e.count + 1 .. w : s[z] = s[w]

\* The state of the loop behind byte w.  The last pair of its bytes is
\* not in the output yet.
Fits(e, s, w) ==
  /\ Shape(e) /\ e.overflow = FALSE
  /\ Counted(e, s, w)
  /\ e.index = 2 * (PairsTo(s, w) - 1)
  /\ Written(e.output, PairsTo(s, w) - 1, s, w - e.count)

\* 2^8 is even and no index of the pairs wraps.
LEMMA SmallModulus ==
  ASSUME NEW x \in Nat, x < RLE_BYTES
  PROVE  x % RLE_BYTES = x
<1> DEFINE M == RLE_BYTES
<1>1. M \in Nat /\ M > 0 /\ x \in 0 .. M - 1
  BY RleSizes
<1> HIDE DEF M
<1>2. x % M = x
  BY <1>1
<1> QED BY <1>2 DEF M

LEMMA EmitIs ==
  ASSUME NEW e, Shape(e), e.index \in Nat, e.index + 2 < RLE_BYTES
  PROVE  LET o == Emit(e)
             x == e.index
         IN
         /\ Shape(o) /\ o.index = x + 2 /\ o.count = e.count
         /\ o.last_byte = e.last_byte /\ o.overflow = e.overflow
         /\ DOMAIN o.output = DOMAIN e.output \cup {x, x + 1}
         /\ o.output[x] = e.last_byte /\ o.output[x + 1] = e.count
         /\ \A y \in DOMAIN e.output : y < x => o.output[y] = e.output[y]
<1> DEFINE x == e.index
           code == [y \in DOMAIN e.output \cup {x, x + 1} |->
                     CASE y = x -> e.last_byte
                       [] y = x + 1 -> e.count
                       [] OTHER -> e.output[y]]
           o == Emit(e)
<1>1. (x + 2) % RLE_BYTES = x + 2
  BY SmallModulus
<1>0. x \in Nat /\ x + 2 \in Nat
  OBVIOUS
<1>2. o = [e EXCEPT !.index = x + 2, !.output = code]
  BY <1>1, Zenon DEF Emit
<1>3. o = [index |-> x + 2, count |-> e.count, last_byte |-> e.last_byte,
           overflow |-> e.overflow, output |-> code]
  <2> HIDE DEF code, o, x
  <2> QED BY <1>2 DEF Shape
<1>4. /\ DOMAIN code = DOMAIN e.output \cup {x, x + 1}
      /\ code[x] = e.last_byte /\ code[x + 1] = e.count
      /\ \A y \in DOMAIN e.output : y < x => code[y] = e.output[y]
  OBVIOUS
<1> HIDE DEF code, o, x
<1>5. Shape(o)
  BY <1>3 DEF Shape
<1>6. /\ o.index = x + 2 /\ o.count = e.count /\ o.last_byte = e.last_byte
      /\ o.overflow = e.overflow /\ o.output = code
  BY <1>3, Zenon
<1>7. /\ Shape(o) /\ o.index = x + 2 /\ o.count = e.count
      /\ o.last_byte = e.last_byte /\ o.overflow = e.overflow
      /\ DOMAIN o.output = DOMAIN e.output \cup {x, x + 1}
      /\ o.output[x] = e.last_byte /\ o.output[x + 1] = e.count
      /\ \A y \in DOMAIN e.output : y < x => o.output[y] = e.output[y]
  BY <1>4, <1>5, <1>6
<1> QED BY <1>7, Zenon DEF o, x

\* One sequence behind another.
Joins(t, a, b) == /\ Len(t) = Len(a) + Len(b)
                  /\ \A z \in 1 .. Len(a) : t[z] = a[z]
                  /\ \A z \in 1 .. Len(b) : t[Len(a) + z] = b[z]

LEMMA Joined ==
  ASSUME NEW S, NEW a \in Seq(S), NEW b \in Seq(S)
  PROVE  a \o b \in Seq(S) /\ Joins(a \o b, a, b)
BY DEF Joins

\* A pair of n times the byte b, behind k pairs.
Writes(more, code, k, b, n) ==
  /\ DOMAIN more = DOMAIN code \cup {2 * k, 2 * k + 1}
  /\ more[2 * k] = b /\ more[2 * k + 1] = n
  /\ \A y \in DOMAIN code : y < 2 * k => more[y] = code[y]
AllAre(s, m, n, b) == \A z \in m + 1 .. m + n : s[z] = b

LEMMA WriteNext ==
  ASSUME NEW s \in Seq(Symbols), NEW code, NEW k \in Nat, NEW m \in Nat,
         Written(code, k, s, m), NEW more, NEW n \in Nat, m + n <= Len(s),
         NEW b \in Symbols, AllAre(s, m, n, b), Writes(more, code, k, b, n)
  PROVE  Written(more, k + 1, s, m + n)
<1> DEFINE run == [x \in 1 .. n |-> b]
<1>1. PICK d : /\ Builds(d, code, k)
               /\ d[k] \in Seq(Symbols) /\ Len(d[k]) = m
               /\ \A z \in 1 .. m : d[k][z] = s[z]
  BY DEF Written
<1>2. DOMAIN code = 0 .. 2 * k - 1
  BY DEF Written
<1>0. /\ DOMAIN more = DOMAIN code \cup {2 * k, 2 * k + 1}
      /\ more[2 * k] = b /\ more[2 * k + 1] = n
      /\ \A y \in DOMAIN code : y < 2 * k => more[y] = code[y]
  BY DEF Writes
<1>3. AgreeTo(more, code, k)
  BY <1>0, <1>2 DEF AgreeTo
<1>4. PICK c : Builds(c, more, k + 1) /\ c[k + 1] = d[k] \o Pair(more, k + 1)
  <2>1. Builds(d, code, k)
    BY <1>1
  <2>2. AddsPair(d, k, more)
    BY <1>3, <2>1, BuildsNext, Zenon
  <2> QED BY <2>2 DEF AddsPair
<1>5. Pair(more, k + 1) = run
  <2>1. 2 * (k + 1) - 1 = 2 * k + 1 /\ 2 * (k + 1) - 2 = 2 * k
    OBVIOUS
  <2> QED BY <1>0, <2>1 DEF Pair
<1>6. run \in Seq(Symbols) /\ Len(run) = n /\ \A x \in 1 .. n : run[x] = b
  OBVIOUS
<1> HIDE DEF run
<1> DEFINE q == d[k]
           t == q \o run
<1>7. /\ t \in Seq(Symbols) /\ Len(t) = m + n
      /\ \A z \in 1 .. m : t[z] = s[z]
      /\ \A z \in 1 .. n : t[m + z] = b
  <2>1. q \in Seq(Symbols) /\ Len(q) = m /\ \A z \in 1 .. m : q[z] = s[z]
    BY <1>1
  <2> HIDE DEF q
  <2>2. t \in Seq(Symbols) /\ Joins(t, q, run)
    <3>1. q \in Seq(Symbols)
      BY <2>1
    <3>2. run \in Seq(Symbols)
      BY <1>6
    <3> QED BY <3>1, <3>2, Joined, Zenon
  <2> HIDE DEF t
  <2> QED BY <1>6, <2>1, <2>2 DEF Joins
<1> HIDE DEF t
<1>8. ASSUME NEW z \in 1 .. m + n PROVE t[z] = s[z]
  <2>1. CASE z \in 1 .. m
    BY <1>7, <2>1
  <2>2. CASE z \notin 1 .. m
    <3>1. z \in m + 1 .. m + n /\ z - m \in 1 .. n /\ m + (z - m) = z
      BY <2>2
    <3> QED BY <1>7, <3>1 DEF AllAre
  <2> QED BY <2>1, <2>2
<1>9. DOMAIN more = 0 .. 2 * (k + 1) - 1
  BY <1>0, <1>2
<1>10. c[k + 1] = t
  BY <1>4, <1>5 DEF t, q
<1> QED BY <1>4, <1>7, <1>8, <1>9, <1>10 DEF Written

\* The last pair of the loop's bytes is flushed, or there is no room.
LEMMA FlushFits ==
  ASSUME NEW s \in Seq(Symbols), NEW w \in 1 .. Len(s), NEW e, Fits(e, s, w),
         NEW room \in Nat, 2 * PairsTo(s, w) < RLE_BYTES
  PROVE  LET o == Flush(e, room)
             k == PairsTo(s, w)
         IN /\ Shape(o) /\ o.overflow = (2 * k > room)
            /\ 2 * k <= room => o.index = 2 * k /\ Written(o.output, k, s, w)
<1> DEFINE o == Flush(e, room)
           k == PairsTo(s, w)
<1>1. k \in Nat /\ 1 <= k
  <2>1. w \in Nat /\ 1 \in Nat /\ 1 <= w
    OBVIOUS
  <2> QED BY <2>1, PairsStep, PairsFirst, PairsGrow
<1>2. /\ Shape(e) /\ e.overflow = FALSE /\ e.index = 2 * (k - 1)
      /\ e.last_byte = s[w] /\ e.count \in 1 .. w
      /\ \A z \in w - e.count + 1 .. w : s[z] = s[w]
      /\ Written(e.output, k - 1, s, w - e.count)
  BY Zenon DEF Fits, Counted
<1> HIDE DEF k
<1>3. CASE 2 * k > room
  <2>1. e.index + 1 >= room
    BY <1>1, <1>2, <1>3
  <2>2. o = [e EXCEPT !.overflow = TRUE]
    BY <2>1, Zenon DEF Flush
  <2>3. Shape(o) /\ o.overflow = TRUE
    <3> HIDE DEF o
    <3>1. o = [index |-> e.index, count |-> e.count, last_byte |-> e.last_byte,
               overflow |-> TRUE, output |-> e.output]
      BY <1>2, <2>2 DEF Shape
    <3>2. /\ o.index = e.index /\ o.count = e.count
          /\ o.last_byte = e.last_byte /\ o.overflow = TRUE
          /\ o.output = e.output
      BY <3>1, Zenon
    <3>3. o \in [index : {e.index}, count : {e.count},
                 last_byte : {e.last_byte}, overflow : {TRUE},
                 output : {e.output}]
      BY <3>1
    <3> QED BY <3>2, <3>3, Zenon DEF Shape
  <2>4. (2 * k > room) = TRUE /\ ~(2 * k <= room)
    BY <1>1, <1>3
  <2> QED BY <2>3, <2>4, Zenon DEF k
<1>4. CASE ~(2 * k > room)
  <2>1. ~(e.index + 1 >= room)
    BY <1>1, <1>2, <1>4
  <2>2. o = Emit(e)
    BY <2>1, Zenon DEF Flush
  <2>3. e.index \in Nat /\ e.index + 2 < RLE_BYTES /\ e.index + 2 = 2 * k
    BY <1>1, <1>2 DEF k
  <2>4. /\ Shape(o) /\ o.index = e.index + 2 /\ o.overflow = e.overflow
        /\ DOMAIN o.output = DOMAIN e.output \cup {e.index, e.index + 1}
        /\ o.output[e.index] = e.last_byte
        /\ o.output[e.index + 1] = e.count
        /\ \A y \in DOMAIN e.output : y < e.index => o.output[y] = e.output[y]
    BY <1>2, <2>2, <2>3, EmitIs, Zenon
  <2> HIDE DEF o
  <2>5. Written(o.output, k, s, w)
    <3> DEFINE j == k - 1
               n == e.count
               m == w - n
    <3>1. /\ j \in Nat /\ n \in Nat /\ m \in Nat /\ m + n <= Len(s)
          /\ e.index = 2 * j /\ m + n = w /\ j + 1 = k
      BY <1>1, <1>2
    <3>2. s[w] \in Symbols /\ AllAre(s, m, n, s[w])
      BY <1>2, <3>1 DEF AllAre
    <3>3. Written(e.output, j, s, m)
      BY <1>2
    <3>4. Writes(o.output, e.output, j, s[w], n)
      BY <1>2, <2>4, <3>1 DEF Writes
    <3> HIDE DEF j, m, n
    <3>5. Written(o.output, j + 1, s, m + n)
      BY <3>1, <3>2, <3>3, <3>4, WriteNext, Zenon
    <3> QED BY <3>1, <3>5
  <2>6. (2 * k > room) = FALSE
    BY <1>1, <1>4
  <2>7. o.index = 2 * k
    BY <2>3, <2>4
  <2> QED BY <1>2, <2>4, <2>5, <2>6, <2>7, Zenon DEF k, o
<1> QED BY <1>3, <1>4

\* Behind byte w the loop has all pairs but the last, or has stopped for
\* want of room.
Good(e, s, w, room) == \/ Fits(e, s, w)
                       \/ e.overflow = TRUE /\ 2 * PairsTo(s, w) > room

LEMMA FirstGood ==
  ASSUME NEW s \in Seq(Symbols), s # << >>, NEW room
  PROVE  Good([Empty EXCEPT !.last_byte = s[1]], s, 1, room)
<1> DEFINE none == [y \in {} |-> 0]
           e == [index |-> 0, count |-> 1, last_byte |-> s[1],
                 overflow |-> FALSE, output |-> none]
           nothing == [p \in 0 .. 0 |-> << >>]
<1>1. [Empty EXCEPT !.last_byte = s[1]] = e
  <2>1. Empty = [index |-> 0, count |-> 1, last_byte |-> 0,
                 overflow |-> FALSE, output |-> none]
    BY Zenon DEF Empty
  <2>2. ASSUME NEW x, Shape(x)
        PROVE  [x EXCEPT !.last_byte = s[1]] =
                 [index |-> x.index, count |-> x.count, last_byte |-> s[1],
                  overflow |-> x.overflow, output |-> x.output]
    BY <2>2 DEF Shape
  <2> HIDE DEF none
  <2>3. Shape(Empty)
    BY <2>1 DEF Shape
  <2>4. /\ Empty.index = 0 /\ Empty.count = 1 /\ Empty.overflow = FALSE
        /\ Empty.output = none
    BY <2>1, Zenon
  <2> QED BY <2>2, <2>3, <2>4, Zenon
<1>2. /\ e.index = 0 /\ e.count = 1 /\ e.last_byte = s[1]
      /\ e.overflow = FALSE /\ e.output = none
  BY Zenon
<1>3. Shape(e)
  BY DEF Shape
<1>4. Written(none, 0, s, 0)
  <2>1. DOMAIN none = 0 .. 2 * 0 - 1
    OBVIOUS
  <2>2. Builds(nothing, none, 0)
    BY DEF Builds
  <2>3. /\ nothing[0] \in Seq(Symbols) /\ Len(nothing[0]) = 0
        /\ \A z \in 1 .. 0 : nothing[0][z] = s[z]
    OBVIOUS
  <2> HIDE DEF nothing, none
  <2> QED BY <2>1, <2>2, <2>3, Zenon DEF Written
<1> HIDE DEF none, e
<1>5. Counted(e, s, 1)
  <2>1. Into(s, 1) = 0
    BY IntoFirst
  <2> QED BY <1>2, <2>1 DEF Counted
<1>6. e.index = 2 * (PairsTo(s, 1) - 1)
  BY <1>2, PairsFirst
<1>7. Written(e.output, PairsTo(s, 1) - 1, s, 1 - e.count)
  BY <1>2, <1>4, PairsFirst
<1>8. Fits(e, s, 1)
  BY <1>2, <1>3, <1>5, <1>6, <1>7 DEF Fits
<1> QED BY <1>1, <1>8, Zenon DEF Good

LEMMA StepGood ==
  ASSUME NEW s \in Seq(Symbols), NEW w \in Nat \ {0}, w + 1 <= Len(s),
         2 * PairsTo(s, w + 1) < RLE_BYTES, NEW room \in Nat,
         NEW e, Good(e, s, w, room)
  PROVE  Good(Encode(e, s[w + 1], room), s, w + 1, room)
<1> DEFINE b == s[w + 1]
           k == PairsTo(s, w)
<1>1. /\ k \in Nat /\ PairsTo(s, w + 1) \in Nat
      /\ PairsTo(s, w + 1) = IF Into(s, w + 1) = 0 THEN k + 1 ELSE k
  <2>1. /\ PairsTo(s, w) \in Nat /\ PairsTo(s, w + 1) \in Nat
        /\ PairsTo(s, w + 1) = IF Opens(s, w + 1) THEN PairsTo(s, w) + 1
                               ELSE PairsTo(s, w)
    BY PairsStep
  <2>2. Opens(s, w + 1) <=> Into(s, w + 1) = 0
    BY Zenon DEF Opens, Into
  <2> QED BY <2>1, <2>2
<1>2. b \in Symbols /\ w \in 1 .. Len(s) /\ 2 * k < RLE_BYTES
  <2>1. b \in Symbols /\ w \in 1 .. Len(s)
    OBVIOUS
  <2>2. 2 * k < RLE_BYTES
    BY <1>1, RleSizes
  <2> QED BY <2>1, <2>2
<1>3. CASE e.overflow = TRUE /\ 2 * k > room
  <2>1. Encode(e, b, room) = e
    BY <1>3, Zenon DEF Encode
  <2>2. 2 * PairsTo(s, w + 1) > room
    BY <1>1, <1>3
  <2> QED BY <1>3, <2>1, <2>2, Zenon DEF Good
<1>4. CASE Fits(e, s, w)
  <2>1. /\ Shape(e) /\ e.overflow = FALSE /\ e.index = 2 * (k - 1)
        /\ e.last_byte = s[w] /\ e.count \in 1 .. w
        /\ e.count = Into(s, w) + 1
        /\ \A z \in w - e.count + 1 .. w : s[z] = s[w]
        /\ Written(e.output, k - 1, s, w - e.count)
    BY <1>4, Zenon DEF Fits, Counted
  <2> HIDE DEF k, b
  <2>2. /\ Into(s, w) \in 0 .. RLE_BYTES - 2
        /\ Into(s, w + 1) = IF b # s[w] \/ Into(s, w) = RLE_BYTES - 2
                            THEN 0 ELSE Into(s, w) + 1
    BY IntoStep DEF b
  <2>3. CASE SameRun(e, b)
    <3> DEFINE o == Longer(e)
               n == e.count + 1
    <3>1. b = s[w] /\ e.count < RLE_BYTES - 1
      BY <2>1, <2>3 DEF SameRun
    <3>2. n \in Nat /\ n < RLE_BYTES
      BY <2>1, <3>1, RleSizes
    <3>3. n % RLE_BYTES = n
      BY <3>2, SmallModulus
    <3>4. o = [index |-> e.index, count |-> n, last_byte |-> e.last_byte,
               overflow |-> FALSE, output |-> e.output]
      <4>1. o = [e EXCEPT !.count = n]
        BY <3>3, Zenon DEF Longer
      <4> HIDE DEF o, n
      <4> QED BY <2>1, <4>1 DEF Shape
    <3>5. Encode(e, b, room) = o
      BY <2>1, <2>3, Zenon DEF Encode
    <3> HIDE DEF o
    <3>6. /\ o.index = e.index /\ o.count = n /\ o.last_byte = e.last_byte
          /\ o.overflow = FALSE /\ o.output = e.output
      BY <3>4, Zenon
    <3>7. Shape(o)
      <4> HIDE DEF n
      <4> QED BY <3>4, <3>6 DEF Shape
    <3>8. Into(s, w + 1) = Into(s, w) + 1 /\ Into(s, w + 1) # 0
      BY <2>1, <2>2, <3>1, RleSizes
    <3>9. PairsTo(s, w + 1) = k
      BY <1>1, <3>8
    <3>10. Counted(o, s, w + 1)
      <4>1. \A z \in (w + 1) - n + 1 .. w + 1 :
              z \in w - e.count + 1 .. w \/ z = w + 1
        BY <2>1
      <4>2. s[w + 1] = s[w]
        BY <3>1 DEF b
      <4>3. \A z \in (w + 1) - n + 1 .. w + 1 : s[z] = s[w + 1]
        BY <2>1, <4>1, <4>2
      <4> QED BY <2>1, <3>6, <3>8, <4>2, <4>3 DEF Counted
    <3>11. (w + 1) - o.count = w - e.count
      BY <2>1, <3>6
    <3>12. Fits(o, s, w + 1)
      BY <2>1, <3>6, <3>7, <3>9, <3>10, <3>11, Zenon DEF Fits
    <3> QED BY <3>5, <3>12, Zenon DEF Good, b
  <2>4. CASE ~SameRun(e, b)
    <3> DEFINE f == Flush(e, room)
               o == NextRun(e, b, room)
    <3>1. b # s[w] \/ Into(s, w) = RLE_BYTES - 2
      BY <2>1, <2>2, <2>4, RleSizes DEF SameRun
    <3>2. Into(s, w + 1) = 0 /\ PairsTo(s, w + 1) = k + 1
      BY <1>1, <2>2, <3>1
    <3>3. /\ Shape(f) /\ f.overflow = (2 * k > room)
          /\ 2 * k <= room => f.index = 2 * k /\ Written(f.output, k, s, w)
      BY <1>2, <1>4, FlushFits, Zenon DEF k
    <3>4. Encode(e, b, room) = o
      BY <2>1, <2>4, Zenon DEF Encode
    <3>5. o = [f EXCEPT !.last_byte = b, !.count = 1]
      BY Zenon DEF NextRun
    <3> HIDE DEF f, o
    <3>6. o = [index |-> f.index, count |-> 1, last_byte |-> b,
               overflow |-> f.overflow, output |-> f.output]
      BY <3>3, <3>5 DEF Shape
    <3>7. /\ o.index = f.index /\ o.count = 1 /\ o.last_byte = b
          /\ o.overflow = f.overflow /\ o.output = f.output
      BY <3>6, Zenon
    <3>8. Shape(o)
      BY <3>6, <3>7 DEF Shape
    <3>9. CASE 2 * k > room
      <4>1. o.overflow = TRUE
        BY <3>3, <3>7, <3>9, Zenon
      <4>2. 2 * PairsTo(s, w + 1) > room
        BY <1>1, <3>2, <3>9
      <4> QED BY <3>4, <4>1, <4>2, Zenon DEF Good, b
    <3>10. CASE ~(2 * k > room)
      <4>1. o.overflow = FALSE
        <5>1. (2 * k > room) = FALSE
          BY <1>1, <3>10
        <5> QED BY <3>3, <3>7, <5>1, Zenon
      <4>2. o.index = 2 * k /\ Written(o.output, k, s, w)
        <5>1. 2 * k <= room
          BY <1>1, <3>10
        <5> QED BY <3>3, <3>7, <5>1, Zenon
      <4>3. Counted(o, s, w + 1)
        <5>1. \A z \in (w + 1) - 1 + 1 .. w + 1 : z = w + 1
          OBVIOUS
        <5> QED BY <3>2, <3>7, <5>1 DEF Counted, b
      <4>4. /\ o.index = 2 * (PairsTo(s, w + 1) - 1)
            /\ PairsTo(s, w + 1) - 1 = k /\ (w + 1) - o.count = w
        BY <1>1, <3>2, <3>7, <4>2
      <4>5. Fits(o, s, w + 1)
        BY <3>8, <4>1, <4>2, <4>3, <4>4, Zenon DEF Fits
      <4> QED BY <3>4, <4>5, Zenon DEF Good, b
    <3> QED BY <3>9, <3>10
  <2> QED BY <2>3, <2>4
<1> QED BY <1>3, <1>4, Zenon DEF Good

\* The whole loop.
LEMMA LoopGood ==
  ASSUME NEW s \in Seq(Symbols), s # << >>, NEW room \in Nat,
         2 * PairsTo(s, Len(s)) < RLE_BYTES,
         NEW f, Loop(f, s, room, Len(s))
  PROVE  Good(f[Len(s)], s, Len(s), room)
<1> DEFINE n == Len(s)
           Done == {m \in Nat : m + 1 <= n => Good(f[m + 1], s, m + 1, room)}
<1>1. n \in Nat \ {0}
  OBVIOUS
<1>2. \A w \in 1 .. n : f[w] = IF w = 1 THEN [Empty EXCEPT !.last_byte = s[1]]
                               ELSE Encode(f[w - 1], s[w], room)
  BY Zenon DEF Loop
<1>3. 0 \in Done
  <2>1. 1 \in 1 .. n /\ 0 + 1 = 1
    BY <1>1
  <2>2. f[1] = [Empty EXCEPT !.last_byte = s[1]]
    BY <1>2, <2>1, Zenon
  <2>3. Good(f[1], s, 1, room)
    BY <2>2, FirstGood, Zenon
  <2> QED BY <2>1, <2>3
<1>4. ASSUME NEW m \in Nat, m \in Done PROVE m + 1 \in Done
  <2> DEFINE w == m + 1
  <2> SUFFICES ASSUME w + 1 <= n PROVE Good(f[w + 1], s, w + 1, room)
    OBVIOUS
  <2>1. w \in Nat \ {0} /\ w + 1 \in 1 .. n /\ w + 1 # 1 /\ (w + 1) - 1 = w
    BY <1>1
  <2>2. Good(f[w], s, w, room)
    BY <1>4, <2>1
  <2>3. 2 * PairsTo(s, w + 1) < RLE_BYTES
    <3>1. PairsTo(s, w + 1) <= PairsTo(s, n)
      BY <1>1, <2>1, PairsGrow
    <3>2. PairsTo(s, w + 1) \in Nat /\ PairsTo(s, n) \in Nat
      BY <1>1, <2>1, PairsStep
    <3> QED BY <3>1, <3>2, RleSizes
  <2>4. f[w + 1] = Encode(f[w], s[w + 1], room)
    BY <1>2, <2>1, Zenon
  <2>5. w + 1 <= Len(s)
    BY <2>1
  <2> HIDE DEF w, n
  <2> QED BY <2>1, <2>2, <2>3, <2>4, <2>5, StepGood, Zenon
<1>5. n - 1 \in Nat /\ (n - 1) + 1 = n
  BY <1>1
<1> HIDE DEF Done
<1>6. n - 1 \in Done
  BY <1>3, <1>4, <1>5, Induction
<1> QED BY <1>5, <1>6 DEF Done

\* The call, for every input and every room: what it returns, and what its
\* pairs decode to.
LEMMA EncoderRight ==
  ASSUME NEW s \in Seq(Symbols), NEW room \in Nat,
         2 * PairsTo(s, Len(s)) < RLE_BYTES
  PROVE  LET e == rle_encode(s, room)
             k == PairsTo(s, Len(s))
         IN /\ k \in Nat
            /\ e.ret = IF 2 * k <= room THEN 2 * k ELSE 0
            /\ e.ret > 0 => \E d : Builds(d, e.output, k) /\ d[k] = s
<1> DEFINE n == Len(s)
           k == PairsTo(s, n)
           e == rle_encode(s, room)
<1>1. n \in Nat /\ k \in Nat
  <2>1. n \in Nat
    OBVIOUS
  <2> QED BY <2>1, PairsStep
<1>2. CASE s = << >>
  <2>1. k = 0
    BY <1>2, PairsFirst
  <2>2. e.ret = 0
    BY <1>2 DEF rle_encode
  <2> QED BY <2>1, <2>2
<1>3. CASE s # << >>
  <2>1. PICK f : Loop(f, s, room, n) /\ e = Outcome(f, s, room)
    BY <1>3, EncoderIs
  <2> DEFINE l == f[n]
             o == Flush(l, room)
             last == IF l.overflow THEN l ELSE o
  <2>2. e = [output |-> last.output,
             ret |-> IF last.overflow THEN 0 ELSE last.index]
    BY <2>1, Zenon DEF Outcome
  <2> HIDE DEF e
  <2>3. /\ e.output = last.output
        /\ e.ret = IF last.overflow THEN 0 ELSE last.index
    BY <2>2, Zenon
  <2>4. Good(l, s, n, room)
    BY <1>3, <2>1, LoopGood, Zenon
  <2>5. n \in 1 .. Len(s)
    BY <1>3
  <2>6. CASE l.overflow = TRUE /\ 2 * k > room
    <3>1. e.ret = 0
      BY <2>3, <2>6, Zenon
    <3>2. ~(2 * k <= room) /\ ~(e.ret > 0)
      BY <1>1, <2>6, <3>1
    <3> QED BY <1>1, <3>1, <3>2, Zenon DEF e
  <2>7. CASE Fits(l, s, n)
    <3>1. l.overflow = FALSE
      BY <2>7 DEF Fits
    <3>2. /\ o.overflow = (2 * k > room)
          /\ 2 * k <= room => o.index = 2 * k /\ Written(o.output, k, s, n)
      BY <2>5, <2>7, FlushFits, Zenon
    <3>3. last = o
      BY <3>1, Zenon
    <3> HIDE DEF l, o, last, k, n
    <3>4. CASE 2 * k > room
      <4>1. e.ret = 0
        BY <2>3, <3>2, <3>3, <3>4, Zenon
      <4>2. ~(2 * k <= room) /\ ~(e.ret > 0)
        BY <1>1, <3>4, <4>1
      <4> QED BY <1>1, <4>1, <4>2, Zenon DEF e, k, n
    <3>5. CASE ~(2 * k > room)
      <4>1. 2 * k <= room
        BY <1>1, <3>5
      <4>2. e.ret = 2 * k
        BY <2>3, <3>2, <3>3, <3>5, <4>1, Zenon
      <4>3. \E d : Builds(d, e.output, k) /\ d[k] = s
        <5>1. Written(e.output, k, s, n)
          BY <2>3, <3>2, <3>3, <4>1, Zenon
        <5>2. PICK d : /\ Builds(d, e.output, k)
                       /\ d[k] \in Seq(Symbols) /\ Len(d[k]) = n
                       /\ \A z \in 1 .. n : d[k][z] = s[z]
          BY <5>1 DEF Written
        <5> DEFINE t == d[k]
        <5>3. t \in Seq(Symbols) /\ Len(t) = Len(s)
          BY <5>2 DEF n
        <5>4. \A z \in 1 .. Len(t) : t[z] = s[z]
          BY <5>2
        <5> HIDE DEF t
        <5>5. t = s
          BY <5>3, <5>4, SameSequence
        <5> QED BY <5>2, <5>5 DEF t
      <4> QED BY <1>1, <4>1, <4>2, <4>3, Zenon DEF e, k, n
    <3> QED BY <3>4, <3>5
  <2> QED BY <2>4, <2>6, <2>7, Zenon DEF Good
<1> QED BY <1>2, <1>3

-----------------------------------------------------------------------------
\* What was encoded last is the input, whatever input the calls have come to.
RleInv == /\ input \in Seq(Symbols) /\ output_max_len \in Nat
          /\ encoded = rle_encode(input, output_max_len)

LEMMA RleInvInit == RleInit => RleInv
BY RleAssumption DEF RleInit, RleInv

LEMMA RleInvNext == RleInv /\ [RleNext]_rleVars => RleInv'
<1> SUFFICES ASSUME RleInv, [RleNext]_rleVars PROVE RleInv'
  OBVIOUS
<1>1. CASE RleNext
  <2>1. PICK b \in Symbols : input' = Append(input, b)
    BY <1>1 DEF RleNext
  <2>2. input' \in Seq(Symbols)
    BY <2>1 DEF RleInv
  <2> QED BY <1>1, <2>2 DEF RleNext, RleInv
<1>2. CASE UNCHANGED rleVars
  BY <1>2 DEF rleVars, RleInv
<1> QED BY <1>1, <1>2

LEMMA RleInvRight == RleInv => RleRoundTrip
<1> SUFFICES ASSUME RleInv PROVE RleRoundTrip
  OBVIOUS
<1> DEFINE k == PairsTo(input, Len(input))
<1>1. \A x : RunFrom(x) = Run(input, x)
  BY Zenon DEF RunFrom, Run
<1>2. Pairs = k
  BY <1>1, Zenon DEF Pairs, PairsTo, Openings, Opens
<1> HIDE DEF k
<1> SUFFICES ASSUME 2 * k < RLE_BYTES
             PROVE  /\ encoded.ret =
                         IF 2 * k <= output_max_len THEN 2 * k ELSE 0
                    /\ encoded.ret > 0 => Decoded(encoded.ret \div 2) = input
  BY <1>2, Zenon DEF RleRoundTrip
<1>3. /\ k \in Nat
      /\ encoded.ret = IF 2 * k <= output_max_len THEN 2 * k ELSE 0
      /\ encoded.ret > 0 => \E d : Builds(d, encoded.output, k) /\ d[k] = input
  BY EncoderRight, Zenon DEF RleInv, k
<1>4. ASSUME encoded.ret > 0 PROVE Decoded(encoded.ret \div 2) = input
  <2>1. encoded.ret \div 2 = k
    BY <1>3, <1>4
  <2>2. PICK d : Builds(d, encoded.output, k) /\ d[k] = input
    BY <1>3, <1>4
  <2> DEFINE c == CHOOSE c : Builds(c, encoded.output, k)
  <2>3. Builds(c, encoded.output, k)
    BY <2>2
  <2>4. Decoded(k) = c[k]
    BY Zenon DEF Decoded, Builds, Pair
  <2> HIDE DEF c
  <2>5. c[k] = d[k]
    <3>1. k \in Nat /\ Builds(d, encoded.output, k)
      BY <1>3, <2>2
    <3> QED BY <2>3, <3>1, BuildsOnce
  <2> QED BY <2>1, <2>2, <2>4, <2>5
<1> QED BY <1>3, <1>4

\* compress_repeat.c, whatever the input and the room: while the index does
\* not wrap, rle_encode refuses exactly the outputs that do not fit, and an
\* output that it writes has pairs only where one must begin and decodes to
\* the input.
THEOREM RoundTrips == RleSpec => []RleRoundTrip
<1>1. RleSpec => []RleInv
  BY RleInvInit, RleInvNext, PTL DEF RleSpec
<1> QED BY <1>1, RleInvRight, PTL

-----------------------------------------------------------------------------
(* Crc8: the arithmetic of bytes whose sum is the exclusive or.  A turn of *)
(* the loop over the bits respects sums, and so do eight; from a byte that *)
(* is not Zero neither comes to Zero.                                      *)

LEMMA OctetEqual ==
  ASSUME NEW a \in Octets, NEW b \in Octets, \A j \in 0 .. 7 : a[j] = b[j]
  PROVE  a = b
BY DEF Octets, Bits

LEMMA XorIs ==
  ASSUME NEW a, NEW b
  PROVE  /\ XOR(a, b) \in Octets
         /\ \A j \in 0 .. 7 : XOR(a, b)[j] = IF a[j] = b[j] THEN 0 ELSE 1
BY DEF XOR, Octets, Bits

LEMMA ZeroIs == Zero \in Octets /\ \A j \in 0 .. 7 : Zero[j] = 0
BY DEF Zero, Octets, Bits

LEMMA OctetBits ==
  ASSUME NEW a \in Octets
  PROVE  \A j \in 0 .. 7 : a[j] \in {0, 1}
BY DEF Octets, Bits

LEMMA XorLaws ==
  ASSUME NEW a \in Octets, NEW b \in Octets
  PROVE  /\ XOR(a, a) = Zero /\ XOR(a, Zero) = a /\ XOR(Zero, a) = a
         /\ XOR(a, b) = Zero => a = b
<1>1. XOR(a, a) = Zero
  BY XorIs, ZeroIs, OctetEqual
<1>2. XOR(a, Zero) = a
  <2>1. \A j \in 0 .. 7 : XOR(a, Zero)[j] = a[j]
    BY XorIs, ZeroIs, OctetBits
  <2> QED BY <2>1, XorIs, OctetEqual
<1>3. XOR(Zero, a) = a
  <2>1. \A j \in 0 .. 7 : XOR(Zero, a)[j] = a[j]
    BY XorIs, ZeroIs, OctetBits
  <2> QED BY <2>1, XorIs, OctetEqual
<1>4. ASSUME XOR(a, b) = Zero PROVE a = b
  <2>1. \A j \in 0 .. 7 : a[j] = b[j]
    BY <1>4, XorIs, ZeroIs
  <2> QED BY <2>1, OctetEqual
<1> QED BY <1>1, <1>2, <1>3, <1>4

\* Four terms in another order.
LEMMA XorSwap ==
  ASSUME NEW a \in Octets, NEW b \in Octets, NEW c \in Octets,
         NEW d \in Octets
  PROVE  XOR(XOR(a, b), XOR(c, d)) = XOR(XOR(a, c), XOR(b, d))
<1> DEFINE l == XOR(XOR(a, b), XOR(c, d))
           r == XOR(XOR(a, c), XOR(b, d))
<1>1. ASSUME NEW j \in 0 .. 7 PROVE l[j] = r[j]
  <2>1. /\ a[j] \in {0, 1} /\ b[j] \in {0, 1} /\ c[j] \in {0, 1}
        /\ d[j] \in {0, 1}
    BY OctetBits
  <2>2. /\ l[j] = IF XOR(a, b)[j] = XOR(c, d)[j] THEN 0 ELSE 1
        /\ r[j] = IF XOR(a, c)[j] = XOR(b, d)[j] THEN 0 ELSE 1
    BY XorIs
  <2>3. /\ XOR(a, b)[j] = IF a[j] = b[j] THEN 0 ELSE 1
        /\ XOR(c, d)[j] = IF c[j] = d[j] THEN 0 ELSE 1
        /\ XOR(a, c)[j] = IF a[j] = c[j] THEN 0 ELSE 1
        /\ XOR(b, d)[j] = IF b[j] = d[j] THEN 0 ELSE 1
    BY XorIs
  <2> HIDE DEF l, r
  <2> QED BY <2>1, <2>2, <2>3
<1>2. l \in Octets /\ r \in Octets
  BY XorIs
<1> HIDE DEF l, r
<1>3. l = r
  BY <1>1, <1>2, OctetEqual
<1> QED BY <1>3 DEF l, r

\* A turn of the loop over the bits.
OneBit(a) == NextBit(a, a)

LEMMA PolynomialIs == /\ POLYNOMIAL \in Octets /\ POLYNOMIAL[0] = 1
                      /\ \A j \in 0 .. 7 : POLYNOMIAL[j] \in {0, 1}
BY CrcAssumption, OctetBits

LEMMA OneBitIs ==
  ASSUME NEW a \in Octets
  PROVE  /\ OneBit(a) \in Octets
         /\ \A j \in 0 .. 7 :
              OneBit(a)[j] =
                IF (IF j = 0 THEN 0 ELSE a[j - 1]) =
                   (IF a[7] = 1 THEN POLYNOMIAL[j] ELSE 0) THEN 0 ELSE 1
<1> DEFINE p == IF a[7] = 1 THEN POLYNOMIAL ELSE Zero
           b == ShiftLeft(a)
<1>1. OneBit(a) = XOR(b, p)
  BY Zenon DEF OneBit, NextBit, Shift, TopBit
<1>2. \A j \in 0 .. 7 : b[j] = IF j = 0 THEN 0 ELSE a[j - 1]
  BY DEF ShiftLeft, Bits
<1>3. \A j \in 0 .. 7 : p[j] = IF a[7] = 1 THEN POLYNOMIAL[j] ELSE 0
  BY ZeroIs
<1> HIDE DEF p, b
<1> QED BY <1>1, <1>2, <1>3, XorIs

LEMMA OneBitXor ==
  ASSUME NEW a \in Octets, NEW b \in Octets
  PROVE  OneBit(XOR(a, b)) = XOR(OneBit(a), OneBit(b))
<1> DEFINE c == XOR(a, b)
           l == OneBit(c)
           r == XOR(OneBit(a), OneBit(b))
<1>1. /\ c \in Octets
      /\ \A j \in 0 .. 7 : c[j] = IF a[j] = b[j] THEN 0 ELSE 1
  BY XorIs
<1>2. \A j \in 0 .. 7 : r[j] = IF OneBit(a)[j] = OneBit(b)[j] THEN 0 ELSE 1
  BY XorIs
<1>3. l \in Octets /\ r \in Octets
  BY <1>1, OneBitIs, XorIs
<1> HIDE DEF c
<1>4. ASSUME NEW j \in 0 .. 7 PROVE l[j] = r[j]
  <2> DEFINE was(x) == IF j = 0 THEN 0 ELSE x[j - 1]
             more(x) == IF x[7] = 1 THEN POLYNOMIAL[j] ELSE 0
  <2>1. /\ OneBit(a)[j] = IF was(a) = more(a) THEN 0 ELSE 1
        /\ OneBit(b)[j] = IF was(b) = more(b) THEN 0 ELSE 1
        /\ l[j] = IF was(c) = more(c) THEN 0 ELSE 1
    BY <1>1, OneBitIs
  <2>2. /\ was(a) \in {0, 1} /\ was(b) \in {0, 1}
        /\ was(c) = IF was(a) = was(b) THEN 0 ELSE 1
    <3>1. CASE j = 0
      BY <3>1
    <3>2. CASE j # 0
      <4>1. j - 1 \in 0 .. 7
        BY <3>2
      <4> QED BY <1>1, <3>2, <4>1, OctetBits
    <3> QED BY <3>1, <3>2
  <2>3. /\ more(a) \in {0, 1} /\ more(b) \in {0, 1}
        /\ more(c) = IF more(a) = more(b) THEN 0 ELSE 1
    <3>1. /\ a[7] \in {0, 1} /\ b[7] \in {0, 1}
          /\ c[7] = IF a[7] = b[7] THEN 0 ELSE 1
      BY <1>1, OctetBits
    <3> QED BY <3>1, PolynomialIs
  <2> HIDE DEF l, was, more
  <2> QED BY <1>2, <2>1, <2>2, <2>3
<1> HIDE DEF l, r
<1>5. l = r
  BY <1>3, <1>4, OctetEqual
<1> QED BY <1>5 DEF l, r, c

LEMMA OneBitZero ==
  ASSUME NEW a \in Octets
  PROVE  OneBit(a) = Zero <=> a = Zero
<1>1. ASSUME a = Zero PROVE OneBit(a) = Zero
  <2>1. \A j \in 0 .. 7 : OneBit(a)[j] = 0
    BY <1>1, OneBitIs, ZeroIs
  <2> QED BY <2>1, OneBitIs, ZeroIs, OctetEqual
<1>2. ASSUME OneBit(a) = Zero PROVE a = Zero
  <2>1. OneBit(a)[0] = 0
    BY <1>2, ZeroIs
  <2>2. a[7] = 0
    BY <2>1, OneBitIs, OctetBits, PolynomialIs
  <2>3. ASSUME NEW j \in 0 .. 6 PROVE a[j] = 0
    <3>1. j + 1 \in 0 .. 7 /\ j + 1 # 0 /\ (j + 1) - 1 = j
      OBVIOUS
    <3>2. OneBit(a)[j + 1] = 0
      BY <1>2, <3>1, ZeroIs
    <3>3. OneBit(a)[j + 1] = IF a[j] = 0 THEN 0 ELSE 1
      BY <2>2, <3>1, OneBitIs
    <3> QED BY <3>2, <3>3
  <2>4. \A j \in 0 .. 7 : a[j] = 0
    BY <2>2, <2>3
  <2> QED BY <2>4, ZeroIs, OctetEqual
<1> QED BY <1>1, <1>2

\* t is what a becomes in up to m turns.
TurnsTo(t, a, m) ==
  t = [j \in 0 .. m |-> IF j = 0 THEN a ELSE OneBit(t[j - 1])]

LEMMA TurnsExist ==
  ASSUME NEW a, NEW m \in Nat
  PROVE  \E t : TurnsTo(t, a, m)
<1> DEFINE Done == {k \in Nat : \E t : TurnsTo(t, a, k)}
           Made(t, j) == IF j = 0 THEN a ELSE OneBit(t[j - 1])
<1>1. 0 \in Done
  <2> DEFINE t == [j \in 0 .. 0 |-> a]
  <2>1. t = [j \in 0 .. 0 |-> Made(t, j)]
    OBVIOUS
  <2> HIDE DEF t
  <2>2. TurnsTo(t, a, 0)
    BY <2>1 DEF TurnsTo
  <2> QED BY <2>2
<1>2. ASSUME NEW k \in Nat, k \in Done PROVE k + 1 \in Done
  <2>1. PICK t : TurnsTo(t, a, k)
    BY <1>2
  <2> DEFINE u == [j \in 0 .. k + 1 |-> IF j = k + 1 THEN Made(t, j) ELSE t[j]]
  <2>2. \A j \in 0 .. k + 1 :
          u[j] = IF j = k + 1 THEN Made(t, j) ELSE t[j]
    OBVIOUS
  <2>3. u = [j \in 0 .. k + 1 |-> u[j]]
    OBVIOUS
  <2> HIDE DEF u
  <2>4. ASSUME NEW j \in 0 .. k + 1 PROVE u[j] = Made(u, j)
    <3>1. j # 0 => u[j - 1] = t[j - 1]
      <4>1. j # 0 => j - 1 \in 0 .. k + 1 /\ j - 1 # k + 1
        OBVIOUS
      <4> QED BY <2>2, <4>1
    <3>2. Made(u, j) = Made(t, j)
      BY <3>1
    <3>3. CASE j = k + 1
      BY <2>2, <3>2, <3>3
    <3>4. CASE j # k + 1
      <4>1. j \in 0 .. k
        BY <3>4
      <4>2. t[j] = Made(t, j)
        BY <2>1, <4>1 DEF TurnsTo
      <4> HIDE DEF Made
      <4> QED BY <2>2, <3>2, <3>4, <4>2
    <3> QED BY <3>3, <3>4
  <2>5. u = [j \in 0 .. k + 1 |-> Made(u, j)]
    BY <2>3, <2>4
  <2>6. TurnsTo(u, a, k + 1)
    BY <2>5 DEF TurnsTo
  <2> QED BY <2>6
<1> HIDE DEF Done
<1>3. Nat \subseteq Done
  BY <1>1, <1>2, Induction
<1> QED BY <1>3 DEF Done

\* The turns of one byte.
TurnsOf(a) == CHOOSE t : TurnsTo(t, a, 8)

LEMMA TurnsAre ==
  ASSUME NEW a \in Octets
  PROVE  /\ TurnsOf(a)[0] = a /\ TurnsOf(a)[8] = ShiftEight(a)
         /\ \A j \in 0 .. 7 : TurnsOf(a)[j + 1] = OneBit(TurnsOf(a)[j])
         /\ \A j \in 0 .. 8 : TurnsOf(a)[j] \in Octets
<1> DEFINE t == TurnsOf(a)
<1>1. TurnsTo(t, a, 8)
  <2>1. 8 \in Nat
    OBVIOUS
  <2> QED BY <2>1, TurnsExist DEF TurnsOf
<1>2. t[8] = ShiftEight(a)
  BY Zenon DEF ShiftEight, TurnsOf, TurnsTo, OneBit, NextBit
<1> HIDE DEF t
<1>3. \A j \in 0 .. 8 : t[j] = IF j = 0 THEN a ELSE OneBit(t[j - 1])
  BY <1>1 DEF TurnsTo
<1>4. \A j \in 0 .. 7 : t[j + 1] = OneBit(t[j])
  <2>1. \A j \in 0 .. 7 : j + 1 \in 0 .. 8 /\ j + 1 # 0 /\ (j + 1) - 1 = j
    OBVIOUS
  <2> QED BY <1>3, <2>1
<1>5. t[0] = a
  BY <1>3
<1> DEFINE Done == {j \in Nat : j <= 8 => t[j] \in Octets}
<1>6. 0 \in Done
  BY <1>5
<1>7. ASSUME NEW j \in Nat, j \in Done PROVE j + 1 \in Done
  <2> SUFFICES ASSUME j + 1 <= 8 PROVE t[j + 1] \in Octets
    OBVIOUS
  <2>1. j \in 0 .. 7 /\ t[j] \in Octets
    BY <1>7
  <2> QED BY <1>4, <2>1, OneBitIs
<1> HIDE DEF Done
<1>8. Nat \subseteq Done
  BY <1>6, <1>7, Induction
<1>9. \A j \in 0 .. 8 : t[j] \in Octets
  BY <1>8 DEF Done
<1> QED BY <1>2, <1>4, <1>5, <1>9 DEF t

\* The turns of a sum are the sums of the turns.
LEMMA TurnsXor ==
  ASSUME NEW a \in Octets, NEW b \in Octets
  PROVE  \A j \in 0 .. 8 :
           TurnsOf(XOR(a, b))[j] = XOR(TurnsOf(a)[j], TurnsOf(b)[j])
<1> DEFINE t == TurnsOf(a)
           u == TurnsOf(b)
           v == TurnsOf(XOR(a, b))
           Done == {j \in Nat : j <= 8 => v[j] = XOR(t[j], u[j])}
<1>1. /\ t[0] = a /\ \A j \in 0 .. 7 : t[j + 1] = OneBit(t[j])
      /\ \A j \in 0 .. 8 : t[j] \in Octets
  BY TurnsAre
<1>2. /\ u[0] = b /\ \A j \in 0 .. 7 : u[j + 1] = OneBit(u[j])
      /\ \A j \in 0 .. 8 : u[j] \in Octets
  BY TurnsAre
<1>3. /\ v[0] = XOR(a, b) /\ \A j \in 0 .. 7 : v[j + 1] = OneBit(v[j])
  BY XorIs, TurnsAre
<1> HIDE DEF t, u, v
<1>4. 0 \in Done
  BY <1>1, <1>2, <1>3
<1>5. ASSUME NEW j \in Nat, j \in Done PROVE j + 1 \in Done
  <2> SUFFICES ASSUME j + 1 <= 8 PROVE v[j + 1] = XOR(t[j + 1], u[j + 1])
    OBVIOUS
  <2>1. j \in 0 .. 7 /\ j \in 0 .. 8 /\ v[j] = XOR(t[j], u[j])
    BY <1>5
  <2>2. OneBit(v[j]) = XOR(OneBit(t[j]), OneBit(u[j]))
    BY <1>1, <1>2, <2>1, OneBitXor
  <2> QED BY <1>1, <1>2, <1>3, <2>1, <2>2
<1> HIDE DEF Done
<1>6. Nat \subseteq Done
  BY <1>4, <1>5, Induction
<1> QED BY <1>6 DEF Done, t, u, v

LEMMA TurnsZero ==
  ASSUME NEW a \in Octets
  PROVE  \A j \in 0 .. 8 : TurnsOf(a)[j] = Zero <=> a = Zero
<1> DEFINE t == TurnsOf(a)
           Done == {j \in Nat : j <= 8 => (t[j] = Zero <=> a = Zero)}
<1>1. /\ t[0] = a /\ \A j \in 0 .. 7 : t[j + 1] = OneBit(t[j])
      /\ \A j \in 0 .. 8 : t[j] \in Octets
  BY TurnsAre
<1> HIDE DEF t
<1>2. 0 \in Done
  BY <1>1
<1>3. ASSUME NEW j \in Nat, j \in Done PROVE j + 1 \in Done
  <2> SUFFICES ASSUME j + 1 <= 8 PROVE t[j + 1] = Zero <=> a = Zero
    OBVIOUS
  <2>1. j \in 0 .. 7 /\ j \in 0 .. 8 /\ (t[j] = Zero <=> a = Zero)
    BY <1>3
  <2>2. t[j + 1] = OneBit(t[j]) /\ t[j] \in Octets
    BY <1>1, <2>1
  <2> QED BY <2>1, <2>2, OneBitZero
<1> HIDE DEF Done
<1>4. Nat \subseteq Done
  BY <1>2, <1>3, Induction
<1> QED BY <1>4 DEF Done, t

LEMMA TurnsLater ==
  ASSUME NEW a \in Octets
  PROVE  \A j \in 0 .. 8 : TurnsOf(OneBit(a))[j] = OneBit(TurnsOf(a)[j])
<1> DEFINE t == TurnsOf(a)
           u == TurnsOf(OneBit(a))
           Done == {j \in Nat : j <= 8 => u[j] = OneBit(t[j])}
<1>1. t[0] = a /\ \A j \in 0 .. 7 : t[j + 1] = OneBit(t[j])
  BY TurnsAre
<1>2. u[0] = OneBit(a) /\ \A j \in 0 .. 7 : u[j + 1] = OneBit(u[j])
  BY OneBitIs, TurnsAre
<1> HIDE DEF t, u
<1>3. 0 \in Done
  BY <1>1, <1>2
<1>4. ASSUME NEW j \in Nat, j \in Done PROVE j + 1 \in Done
  <2> SUFFICES ASSUME j + 1 <= 8 PROVE u[j + 1] = OneBit(t[j + 1])
    OBVIOUS
  <2>1. j \in 0 .. 7 /\ u[j] = OneBit(t[j])
    BY <1>4
  <2> QED BY <1>1, <1>2, <2>1
<1> HIDE DEF Done
<1>5. Nat \subseteq Done
  BY <1>3, <1>4, Induction
<1> QED BY <1>5 DEF Done, t, u

\* What eight turns do, from that.
LEMMA EightIs ==
  ASSUME NEW a \in Octets, NEW b \in Octets
  PROVE  /\ ShiftEight(a) \in Octets
         /\ ShiftEight(XOR(a, b)) = XOR(ShiftEight(a), ShiftEight(b))
         /\ ShiftEight(a) = Zero <=> a = Zero
         /\ ShiftEight(OneBit(a)) = OneBit(ShiftEight(a))
<1>1. /\ TurnsOf(a)[8] = ShiftEight(a) /\ TurnsOf(b)[8] = ShiftEight(b)
      /\ TurnsOf(a)[8] \in Octets
  BY TurnsAre
<1>2. TurnsOf(XOR(a, b))[8] = ShiftEight(XOR(a, b))
  BY XorIs, TurnsAre
<1>3. TurnsOf(OneBit(a))[8] = ShiftEight(OneBit(a))
  BY OneBitIs, TurnsAre
<1>4. /\ TurnsOf(XOR(a, b))[8] = XOR(TurnsOf(a)[8], TurnsOf(b)[8])
      /\ TurnsOf(a)[8] = Zero <=> a = Zero
      /\ TurnsOf(OneBit(a))[8] = OneBit(TurnsOf(a)[8])
  BY TurnsXor, TurnsZero, TurnsLater
<1> QED BY <1>1, <1>2, <1>3, <1>4

-----------------------------------------------------------------------------
\* A byte with one bit set.
Unit(k) == [j \in Bits |-> IF j = k THEN 1 ELSE 0]

LEMMA UnitIs ==
  ASSUME NEW k
  PROVE  /\ Unit(k) \in Octets
         /\ \A j \in 0 .. 7 : Unit(k)[j] = IF j = k THEN 1 ELSE 0
BY DEF Unit, Octets, Bits

\* The bit that eight turns push out comes back as the polynomial.
LEMMA EightOfOne == ShiftEight(Unit(0)) = POLYNOMIAL
<1> DEFINE t == TurnsOf(Unit(0))
           Done == {k \in Nat : k <= 7 => t[k] = Unit(k)}
<1>1. /\ t[0] = Unit(0) /\ t[8] = ShiftEight(Unit(0))
      /\ \A j \in 0 .. 7 : t[j + 1] = OneBit(t[j])
  BY UnitIs, TurnsAre
<1> HIDE DEF t
<1>2. ASSUME NEW k \in 0 .. 6 PROVE OneBit(Unit(k)) = Unit(k + 1)
  <2>1. Unit(k)[7] = 0
    BY UnitIs
  <2>2. ASSUME NEW j \in 0 .. 7 PROVE OneBit(Unit(k))[j] = Unit(k + 1)[j]
    <3>1. OneBit(Unit(k))[j] = IF (IF j = 0 THEN 0 ELSE Unit(k)[j - 1]) = 0
                               THEN 0 ELSE 1
      BY <2>1, UnitIs, OneBitIs
    <3>2. j # 0 => Unit(k)[j - 1] = IF j - 1 = k THEN 1 ELSE 0
      BY UnitIs
    <3>3. Unit(k + 1)[j] = IF j = k + 1 THEN 1 ELSE 0
      BY UnitIs
    <3> QED BY <3>1, <3>2, <3>3
  <2> QED BY <2>2, UnitIs, OneBitIs, OctetEqual
<1>3. OneBit(Unit(7)) = POLYNOMIAL
  <2>1. ASSUME NEW j \in 0 .. 7 PROVE OneBit(Unit(7))[j] = POLYNOMIAL[j]
    <3>1. j # 0 => Unit(7)[j - 1] = 0
      BY UnitIs
    <3>2. Unit(7)[7] = 1
      BY UnitIs
    <3> QED BY <3>1, <3>2, UnitIs, OneBitIs, PolynomialIs
  <2> QED BY <2>1, UnitIs, OneBitIs, PolynomialIs, OctetEqual
<1>4. 0 \in Done
  BY <1>1
<1>5. ASSUME NEW k \in Nat, k \in Done PROVE k + 1 \in Done
  BY <1>1, <1>2, <1>5
<1> HIDE DEF Done
<1>6. Nat \subseteq Done
  BY <1>4, <1>5, Induction
<1>7. t[7] = Unit(7)
  BY <1>6 DEF Done
<1> QED BY <1>1, <1>3, <1>7

LEMMA WindowIs ==
  ASSUME NEW bits \in Octets, NEW s \in 0 .. 8
  PROVE  /\ Upper(bits, s) \in Octets /\ Lower(bits, s) \in Octets
         /\ \A j \in 0 .. 7 :
              /\ Upper(bits, s)[j] = IF j < s THEN bits[j + 8 - s] ELSE 0
              /\ Lower(bits, s)[j] = IF j < s THEN 0 ELSE bits[j - s]
<1>1. \A j \in 0 .. 7 : /\ j < s => j + 8 - s \in 0 .. 7
                        /\ ~(j < s) => j - s \in 0 .. 7
  OBVIOUS
<1>2. \A j \in 0 .. 7 : /\ j < s => bits[j + 8 - s] \in {0, 1}
                        /\ ~(j < s) => bits[j - s] \in {0, 1}
  BY <1>1, OctetBits
<1> QED BY <1>2 DEF Upper, Lower, Octets, Bits

\* The terms of a sum in two other orders.
LEMMA XorMove ==
  ASSUME NEW a \in Octets, NEW b \in Octets, NEW c \in Octets
  PROVE  /\ XOR(XOR(a, b), c) = XOR(XOR(a, c), b)
         /\ XOR(a, XOR(c, b)) = XOR(XOR(a, c), b)
<1>1. /\ XOR(a, b) \in Octets /\ XOR(a, c) \in Octets /\ XOR(c, b) \in Octets
      /\ Zero \in Octets
  BY XorIs, ZeroIs
<1>2. /\ XOR(c, Zero) = c /\ XOR(b, Zero) = b /\ XOR(a, Zero) = a
      /\ XOR(Zero, b) = b
  BY XorLaws, <1>1
<1>3. XOR(XOR(a, b), XOR(c, Zero)) = XOR(XOR(a, c), XOR(b, Zero))
  BY <1>1, XorSwap
<1>4. XOR(XOR(a, Zero), XOR(c, b)) = XOR(XOR(a, c), XOR(Zero, b))
  BY <1>1, XorSwap
<1> QED BY <1>2, <1>3, <1>4

\* A burst is the byte of its bits after as many turns as it is moved to the
\* left: the part in the upper byte takes eight turns to come into the lower.
LEMMA WindowTurns ==
  ASSUME NEW bits \in Octets
  PROVE  \A s \in 0 .. 8 :
           XOR(ShiftEight(Upper(bits, s)), Lower(bits, s)) = TurnsOf(bits)[s]
<1> DEFINE t == TurnsOf(bits)
           Total(s) == XOR(ShiftEight(Upper(bits, s)), Lower(bits, s))
           Done == {s \in Nat : s <= 8 => Total(s) = t[s]}
<1>1. /\ t[0] = bits /\ \A j \in 0 .. 7 : t[j + 1] = OneBit(t[j])
  BY TurnsAre
<1> HIDE DEF t
<1>2. 0 \in Done
  <2>1. Upper(bits, 0) = Zero
    BY WindowIs, ZeroIs, OctetEqual
  <2>2. Lower(bits, 0) = bits
    BY WindowIs, OctetEqual
  <2>3. ShiftEight(Zero) = Zero
    BY ZeroIs, EightIs
  <2>4. Total(0) = bits
    BY <2>1, <2>2, <2>3, XorLaws
  <2> HIDE DEF Total
  <2> QED BY <1>1, <2>4
<1>3. ASSUME NEW s \in Nat, s \in Done, s + 1 <= 8
      PROVE  Total(s + 1) = t[s + 1]
  <2> DEFINE h == Upper(bits, s)
             l == Lower(bits, s)
             hh == Upper(bits, s + 1)
             ll == Lower(bits, s + 1)
             top == bits[7 - s]
             p == IF top = 1 THEN POLYNOMIAL ELSE Zero
             one == IF top = 1 THEN Unit(0) ELSE Zero
  <2>1. s \in 0 .. 8 /\ s \in 0 .. 7 /\ s + 1 \in 0 .. 8 /\ 7 - s \in 0 .. 7
    BY <1>3
  <2>2. /\ h \in Octets /\ l \in Octets
        /\ \A j \in 0 .. 7 : /\ h[j] = IF j < s THEN bits[j + 8 - s] ELSE 0
                             /\ l[j] = IF j < s THEN 0 ELSE bits[j - s]
    BY <2>1, WindowIs
  <2>3. /\ hh \in Octets /\ ll \in Octets
        /\ \A j \in 0 .. 7 :
             /\ hh[j] = IF j < s + 1 THEN bits[j + 8 - (s + 1)] ELSE 0
             /\ ll[j] = IF j < s + 1 THEN 0 ELSE bits[j - (s + 1)]
    BY <2>1, WindowIs
  <2>4. top \in {0, 1} /\ p \in Octets /\ one \in Octets
    BY <2>1, OctetBits, PolynomialIs, ZeroIs, UnitIs
  <2>5. ShiftEight(one) = p
    BY EightOfOne, ZeroIs, EightIs
  <2>6. \A j \in 0 .. 7 : /\ p[j] = IF top = 1 THEN POLYNOMIAL[j] ELSE 0
                          /\ one[j] = IF top = 1 /\ j = 0 THEN 1 ELSE 0
    BY ZeroIs, UnitIs
  <2>7. h[7] = 0 /\ l[7] = top
    BY <2>1, <2>2
  <2>8. \A j \in 0 .. 7 : /\ bits[j] \in {0, 1} /\ h[j] \in {0, 1}
                          /\ l[j] \in {0, 1} /\ ll[j] \in {0, 1}
                          /\ hh[j] \in {0, 1} /\ POLYNOMIAL[j] \in {0, 1}
    BY <2>2, <2>3, OctetBits, PolynomialIs
  <2> HIDE DEF h, l, hh, ll, p, one, top
  <2>9. hh = XOR(OneBit(h), one)
    <3>1. ASSUME NEW j \in 0 .. 7 PROVE hh[j] = XOR(OneBit(h), one)[j]
      <4>1. OneBit(h)[j] = IF j = 0 THEN 0 ELSE h[j - 1]
        <5>1. j # 0 => h[j - 1] \in {0, 1}
          BY <2>8
        <5> QED BY <2>2, <2>7, <5>1, OneBitIs
      <4>2. XOR(OneBit(h), one)[j] = IF OneBit(h)[j] = one[j] THEN 0 ELSE 1
        BY XorIs
      <4>3. CASE j = 0
        <5>1. hh[0] = top
          BY <2>1, <2>3 DEF top
        <5> QED BY <2>4, <2>6, <4>1, <4>2, <4>3, <5>1
      <4>4. CASE j # 0
        <5>1. hh[j] = h[j - 1] /\ h[j - 1] \in {0, 1}
          <6>1. j - 1 \in 0 .. 7 /\ j + 8 - (s + 1) = j - 1 + 8 - s
            BY <2>1, <4>4
          <6>2. j < s + 1 <=> j - 1 < s
            BY <2>1
          <6> QED BY <2>2, <2>3, <2>8, <6>1, <6>2
        <5>2. one[j] = 0
          BY <2>6, <4>4
        <5> QED BY <4>1, <4>2, <4>4, <5>1, <5>2
      <4> QED BY <4>3, <4>4
    <3>2. XOR(OneBit(h), one) \in Octets
      BY XorIs
    <3> QED BY <2>3, <3>1, <3>2, OctetEqual
  <2>10. OneBit(l) = XOR(ll, p)
    <3>1. ASSUME NEW j \in 0 .. 7 PROVE OneBit(l)[j] = XOR(ll, p)[j]
      <4>1. XOR(ll, p)[j] = IF ll[j] = p[j] THEN 0 ELSE 1
        BY XorIs
      <4>2. ll[j] = IF j = 0 THEN 0 ELSE l[j - 1]
        <5>1. CASE j = 0
          BY <2>1, <2>3, <5>1
        <5>2. CASE j # 0
          <6>1. j - 1 \in 0 .. 7 /\ j - (s + 1) = j - 1 - s
            BY <2>1, <5>2
          <6>2. j < s + 1 <=> j - 1 < s
            BY <2>1
          <6> QED BY <2>2, <2>3, <5>2, <6>1, <6>2
        <5> QED BY <5>1, <5>2
      <4>3. OneBit(l)[j] = IF (IF j = 0 THEN 0 ELSE l[j - 1]) =
                              (IF l[7] = 1 THEN POLYNOMIAL[j] ELSE 0)
                           THEN 0 ELSE 1
        BY <2>2, OneBitIs
      <4> QED BY <2>6, <2>7, <4>1, <4>2, <4>3
    <3>2. XOR(ll, p) \in Octets /\ OneBit(l) \in Octets
      BY <2>2, XorIs, OneBitIs
    <3> QED BY <3>1, <3>2, OctetEqual
  <2> DEFINE a == ShiftEight(OneBit(h))
  <2>11. OneBit(h) \in Octets /\ ShiftEight(h) \in Octets
    BY <2>2, OneBitIs, EightIs
  <2>12. a \in Octets /\ a = OneBit(ShiftEight(h))
    BY <2>2, <2>11, EightIs
  <2>13. ShiftEight(hh) = XOR(a, p)
    BY <2>4, <2>5, <2>9, <2>11, EightIs
  <2>14. t[s + 1] = OneBit(XOR(ShiftEight(h), l))
    BY <1>1, <1>3, <2>1 DEF h, l
  <2>15. OneBit(XOR(ShiftEight(h), l)) = XOR(OneBit(ShiftEight(h)), OneBit(l))
    BY <2>2, <2>11, OneBitXor
  <2>16. Total(s + 1) = XOR(XOR(a, p), ll)
    BY <2>13 DEF hh, ll
  <2> HIDE DEF a, Total
  <2>17. XOR(XOR(a, p), ll) = XOR(a, XOR(ll, p))
    BY <2>3, <2>4, <2>12, XorMove
  <2> QED BY <2>10, <2>12, <2>14, <2>15, <2>16, <2>17
<1>4. ASSUME NEW s \in Nat, s \in Done PROVE s + 1 \in Done
  <2> HIDE DEF Total
  <2> QED BY <1>3, <1>4
<1> HIDE DEF Done
<1>5. Nat \subseteq Done
  BY <1>2, <1>4, Induction
<1> QED BY <1>5 DEF Done, t

-----------------------------------------------------------------------------
\* The loop over the bytes: r is crc after each of the first m.
Registers(r, c, m) ==
  r = [k \in 0 .. m |-> IF k = 0 THEN Zero
                        ELSE ShiftEight(XOR(r[k - 1], c[k]))]

LEMMA RegistersExist ==
  ASSUME NEW c, NEW m \in Nat
  PROVE  \E r : Registers(r, c, m)
<1> DEFINE Done == {k \in Nat : \E r : Registers(r, c, k)}
           Made(r, j) == IF j = 0 THEN Zero
                         ELSE ShiftEight(XOR(r[j - 1], c[j]))
<1>1. 0 \in Done
  <2> DEFINE r == [j \in 0 .. 0 |-> Zero]
  <2>1. r = [j \in 0 .. 0 |-> Made(r, j)]
    OBVIOUS
  <2> HIDE DEF r
  <2>2. Registers(r, c, 0)
    BY <2>1 DEF Registers
  <2> QED BY <2>2
<1>2. ASSUME NEW k \in Nat, k \in Done PROVE k + 1 \in Done
  <2>1. PICK r : Registers(r, c, k)
    BY <1>2
  <2> DEFINE q == [j \in 0 .. k + 1 |-> IF j = k + 1 THEN Made(r, j) ELSE r[j]]
  <2>2. \A j \in 0 .. k + 1 :
          q[j] = IF j = k + 1 THEN Made(r, j) ELSE r[j]
    OBVIOUS
  <2>3. q = [j \in 0 .. k + 1 |-> q[j]]
    OBVIOUS
  <2> HIDE DEF q
  <2>4. ASSUME NEW j \in 0 .. k + 1 PROVE q[j] = Made(q, j)
    <3>1. j # 0 => q[j - 1] = r[j - 1]
      <4>1. j # 0 => j - 1 \in 0 .. k + 1 /\ j - 1 # k + 1
        OBVIOUS
      <4> QED BY <2>2, <4>1
    <3>2. Made(q, j) = Made(r, j)
      BY <3>1
    <3>3. CASE j = k + 1
      BY <2>2, <3>2, <3>3
    <3>4. CASE j # k + 1
      <4>1. j \in 0 .. k
        BY <3>4
      <4>2. r[j] = Made(r, j)
        BY <2>1, <4>1 DEF Registers
      <4> HIDE DEF Made
      <4> QED BY <2>2, <3>2, <3>4, <4>2
    <3> QED BY <3>3, <3>4
  <2>5. q = [j \in 0 .. k + 1 |-> Made(q, j)]
    BY <2>3, <2>4
  <2>6. Registers(q, c, k + 1)
    BY <2>5 DEF Registers
  <2> QED BY <2>6
<1> HIDE DEF Done
<1>3. Nat \subseteq Done
  BY <1>1, <1>2, Induction
<1> QED BY <1>3 DEF Done

CrcOf(c) == CHOOSE r : Registers(r, c, Len(c))

LEMMA CrcOfIs ==
  ASSUME NEW c \in Seq(Octets)
  PROVE  /\ CrcOf(c)[0] = Zero /\ CrcOf(c)[Len(c)] = crc8(c)
         /\ \A k \in 0 .. Len(c) - 1 :
              CrcOf(c)[k + 1] = ShiftEight(XOR(CrcOf(c)[k], c[k + 1]))
         /\ \A k \in 0 .. Len(c) : CrcOf(c)[k] \in Octets
<1> DEFINE r == CrcOf(c)
           n == Len(c)
<1>1. n \in Nat /\ \A k \in 1 .. n : c[k] \in Octets
  OBVIOUS
<1>2. Registers(r, c, n)
  BY <1>1, RegistersExist DEF CrcOf
<1>3. r[n] = crc8(c)
  BY Zenon DEF crc8, CrcOf, Registers
<1> HIDE DEF r, n
<1>4. \A k \in 0 .. n : r[k] = IF k = 0 THEN Zero
                               ELSE ShiftEight(XOR(r[k - 1], c[k]))
  BY <1>2 DEF Registers
<1>5. \A k \in 0 .. n - 1 : r[k + 1] = ShiftEight(XOR(r[k], c[k + 1]))
  <2>1. \A k \in 0 .. n - 1 : k + 1 \in 0 .. n /\ k + 1 # 0 /\ (k + 1) - 1 = k
    BY <1>1
  <2> QED BY <1>4, <2>1
<1>6. r[0] = Zero
  BY <1>1, <1>4
<1>7. ASSUME NEW k \in 0 .. n PROVE r[k] \in Octets
  <2>1. CASE k = 0
    BY <1>6, <2>1, ZeroIs
  <2>2. CASE k # 0
    BY <1>4, <2>2, XorIs, EightIs
  <2> QED BY <2>1, <2>2
<1> QED BY <1>3, <1>5, <1>6, <1>7 DEF r, n

\* The same bytes, the same registers.
LEMMA CrcAgree ==
  ASSUME NEW c \in Seq(Octets), NEW d \in Seq(Octets), NEW m \in Nat,
         m <= Len(c), m <= Len(d), \A k \in 1 .. m : c[k] = d[k]
  PROVE  CrcOf(c)[m] = CrcOf(d)[m]
<1> DEFINE r == CrcOf(c)
           q == CrcOf(d)
           Same == {k \in Nat : k <= m => r[k] = q[k]}
<1>1. r[0] = Zero /\ \A k \in 0 .. Len(c) - 1 :
                       r[k + 1] = ShiftEight(XOR(r[k], c[k + 1]))
  BY CrcOfIs
<1>2. q[0] = Zero /\ \A k \in 0 .. Len(d) - 1 :
                       q[k + 1] = ShiftEight(XOR(q[k], d[k + 1]))
  BY CrcOfIs
<1> HIDE DEF r, q
<1>3. 0 \in Same
  BY <1>1, <1>2
<1>4. ASSUME NEW k \in Nat, k \in Same PROVE k + 1 \in Same
  <2> SUFFICES ASSUME k + 1 <= m PROVE r[k + 1] = q[k + 1]
    OBVIOUS
  <2>1. /\ k \in 0 .. Len(c) - 1 /\ k \in 0 .. Len(d) - 1
        /\ k + 1 \in 1 .. m
    OBVIOUS
  <2>2. r[k] = q[k] /\ c[k + 1] = d[k + 1]
    BY <1>4, <2>1
  <2>3. /\ r[k + 1] = ShiftEight(XOR(r[k], c[k + 1]))
        /\ q[k + 1] = ShiftEight(XOR(q[k], d[k + 1]))
    BY <1>1, <1>2, <2>1
  <2> QED BY <2>2, <2>3
<1> HIDE DEF Same
<1>5. Nat \subseteq Same
  BY <1>3, <1>4, Induction
<1> QED BY <1>5 DEF Same, r, q

\* A message with its CRC behind it has the CRC Zero.
LEMMA SentVerifies ==
  ASSUME NEW m \in Seq(Octets)
  PROVE  /\ Append(m, crc8(m)) \in Seq(Octets)
         /\ crc8(Append(m, crc8(m))) = Zero
<1> DEFINE n == Len(m)
           b == crc8(m)
           c == Append(m, b)
<1>1. n \in Nat /\ b \in Octets /\ CrcOf(m)[n] = b
  <2>1. n \in Nat /\ n \in 0 .. n
    OBVIOUS
  <2> QED BY <2>1, CrcOfIs
<1> HIDE DEF b
<1>2. c \in Seq(Octets) /\ Len(c) = n + 1 /\ c[n + 1] = b
  BY <1>1
<1>3. \A k \in 1 .. n : c[k] = m[k]
  BY <1>1
<1> HIDE DEF c, n
<1>4. CrcOf(c)[n] = CrcOf(m)[n]
  <2>1. n <= Len(c) /\ n <= Len(m)
    BY <1>1, <1>2 DEF n
  <2> QED BY <1>1, <1>2, <1>3, <2>1, CrcAgree
<1>5. crc8(c) = ShiftEight(XOR(b, b))
  <2>1. n \in 0 .. Len(c) - 1 /\ n + 1 = Len(c)
    BY <1>1, <1>2
  <2>2. CrcOf(c)[n + 1] = ShiftEight(XOR(CrcOf(c)[n], c[n + 1]))
    BY <1>2, <2>1, CrcOfIs
  <2>3. CrcOf(c)[n + 1] = crc8(c)
    BY <1>2, <2>1, CrcOfIs
  <2> QED BY <1>1, <1>2, <1>4, <2>2, <2>3
<1>6. ShiftEight(XOR(b, b)) = Zero
  BY <1>1, XorLaws, ZeroIs, EightIs
<1> QED BY <1>2, <1>5, <1>6 DEF b, c

\* d is c after a burst.
Hit(d, c, pos, places, bits) ==
  /\ d \in Seq(Octets) /\ Len(d) = Len(c)
  /\ d[pos] = XOR(c[pos], Upper(bits, places))
  /\ d[pos + 1] = XOR(c[pos + 1], Lower(bits, places))
  /\ \A k \in 1 .. Len(c) : k # pos /\ k # pos + 1 => d[k] = c[k]

LEMMA HitIs ==
  ASSUME NEW c \in Seq(Octets), NEW pos \in 1 .. Len(c) - 1,
         NEW places \in 0 .. 8, NEW bits \in Octets
  PROVE  Hit([c EXCEPT ![pos] = XOR(@, Upper(bits, places)),
                       ![pos + 1] = XOR(@, Lower(bits, places))],
             c, pos, places, bits)
<1>1. /\ \A x, y : XOR(x, y) \in Octets
      /\ pos \in 1 .. Len(c) /\ pos + 1 \in 1 .. Len(c) /\ pos # pos + 1
  BY XorIs
<1> QED BY <1>1 DEF Hit

\* What a byte that is not Zero adds to the register is never lost: the CRC
\* of what the burst hit is another than that of what was sent.
LEMMA BurstSeen ==
  ASSUME NEW c \in Seq(Octets), NEW pos \in 1 .. Len(c) - 1,
         NEW places \in 0 .. 8, NEW bits \in Octets, bits # Zero,
         NEW d, Hit(d, c, pos, places, bits)
  PROVE  crc8(d) # crc8(c)
<1> DEFINE r == CrcOf(c)
           q == CrcOf(d)
           n == Len(c)
           upper == Upper(bits, places)
           lower == Lower(bits, places)
           E(x) == ShiftEight(x)
<1>1. /\ n \in Nat /\ pos \in Nat /\ pos - 1 \in Nat
      /\ pos - 1 \in 0 .. n - 1 /\ pos \in 0 .. n - 1
      /\ \A k \in 1 .. n : c[k] \in Octets
  OBVIOUS
<1>2. /\ d \in Seq(Octets) /\ Len(d) = n
      /\ d[pos] = XOR(c[pos], upper) /\ d[pos + 1] = XOR(c[pos + 1], lower)
      /\ \A k \in 1 .. n : k # pos /\ k # pos + 1 => d[k] = c[k]
  BY DEF Hit
<1>3. /\ r[n] = crc8(c) /\ \A k \in 0 .. n : r[k] \in Octets
      /\ \A k \in 0 .. n - 1 : r[k + 1] = E(XOR(r[k], c[k + 1]))
  BY CrcOfIs
<1>4. /\ q[n] = crc8(d)
      /\ \A k \in 0 .. n - 1 : q[k + 1] = E(XOR(q[k], d[k + 1]))
  BY <1>2, CrcOfIs
<1>5. upper \in Octets /\ lower \in Octets
  BY WindowIs
<1>6. q[pos - 1] = r[pos - 1]
  <2>1. pos - 1 <= Len(c) /\ pos - 1 <= Len(d)
    BY <1>1, <1>2
  <2>2. \A k \in 1 .. pos - 1 : c[k] = d[k]
    BY <1>1, <1>2
  <2> QED BY <1>1, <1>2, <2>1, <2>2, CrcAgree
<1> DEFINE w == XOR(E(upper), lower)
<1>7. w \in Octets /\ w # Zero
  <2>1. w = TurnsOf(bits)[places]
    BY WindowTurns
  <2>2. TurnsOf(bits)[places] # Zero
    BY TurnsZero
  <2> QED BY <2>1, <2>2, XorIs
<1> HIDE DEF n, r, q, upper, lower
<1>8. r[pos - 1] \in Octets /\ c[pos] \in Octets /\ c[pos + 1] \in Octets
  BY <1>1, <1>3
<1>9. /\ q[pos] = XOR(r[pos], E(upper))
      /\ r[pos] \in Octets /\ E(upper) \in Octets
  <2> DEFINE x == XOR(r[pos - 1], c[pos])
  <2>1. r[pos] = E(x) /\ q[pos] = E(XOR(r[pos - 1], XOR(c[pos], upper)))
    <3>1. (pos - 1) + 1 = pos
      BY <1>1
    <3> QED BY <1>1, <1>2, <1>3, <1>4, <1>6, <3>1
  <2>2. XOR(r[pos - 1], XOR(c[pos], upper)) = XOR(x, upper)
    BY <1>5, <1>8, XorMove
  <2>3. x \in Octets
    BY XorIs
  <2> HIDE DEF x
  <2>4. E(XOR(x, upper)) = XOR(E(x), E(upper))
    BY <1>5, <2>3, EightIs
  <2>5. E(x) \in Octets /\ E(upper) \in Octets
    BY <1>5, <2>3, EightIs
  <2> QED BY <2>1, <2>2, <2>4, <2>5
<1>10. q[pos + 1] = XOR(r[pos + 1], E(w)) /\ E(w) \in Octets /\ E(w) # Zero
  <2> DEFINE x == XOR(r[pos], c[pos + 1])
  <2>1. /\ r[pos + 1] = E(x)
        /\ q[pos + 1] = E(XOR(XOR(r[pos], E(upper)), XOR(c[pos + 1], lower)))
    BY <1>1, <1>2, <1>3, <1>4, <1>9
  <2>2. XOR(XOR(r[pos], E(upper)), XOR(c[pos + 1], lower)) = XOR(x, w)
    BY <1>5, <1>8, <1>9, XorSwap
  <2>3. x \in Octets
    BY XorIs
  <2> HIDE DEF x, w
  <2>4. E(XOR(x, w)) = XOR(E(x), E(w))
    BY <1>7, <2>3, EightIs
  <2>5. E(w) \in Octets /\ E(w) # Zero
    BY <1>7, EightIs
  <2> QED BY <2>1, <2>2, <2>4, <2>5
<1> DEFINE Apart(k) == \E e \in Octets : e # Zero /\ q[k] = XOR(r[k], e)
           Done == {k \in Nat : pos + 1 + k <= n => Apart(pos + 1 + k)}
<1>11. ASSUME NEW k \in pos + 1 .. n - 1, Apart(k) PROVE Apart(k + 1)
  <2> DEFINE b == c[k + 1]
             x == XOR(r[k], b)
  <2>1. PICK e \in Octets : e # Zero /\ q[k] = XOR(r[k], e)
    BY <1>11
  <2>2. /\ k \in 0 .. n - 1 /\ k \in 0 .. n /\ k + 1 \in 1 .. n
        /\ k + 1 # pos /\ k + 1 # pos + 1
    BY <1>1
  <2>3. b \in Octets /\ r[k] \in Octets /\ d[k + 1] = b
    BY <1>1, <1>2, <1>3, <2>2
  <2>4. r[k + 1] = E(x) /\ q[k + 1] = E(XOR(XOR(r[k], e), b))
    BY <1>3, <1>4, <2>1, <2>2, <2>3
  <2>5. XOR(XOR(r[k], e), b) = XOR(x, e)
    BY <2>1, <2>3, XorMove
  <2>6. x \in Octets
    BY XorIs
  <2> HIDE DEF x, b
  <2>7. E(XOR(x, e)) = XOR(E(x), E(e))
    BY <2>1, <2>6, EightIs
  <2>8. E(e) \in Octets /\ E(e) # Zero
    BY <2>1, EightIs
  <2> QED BY <2>4, <2>5, <2>7, <2>8
<1>12. Apart(pos + 1)
  BY <1>10
<1> HIDE DEF Apart
<1>13. 0 \in Done
  BY <1>1, <1>12
<1>14. ASSUME NEW k \in Nat, k \in Done PROVE k + 1 \in Done
  <2> SUFFICES ASSUME pos + 1 + (k + 1) <= n PROVE Apart(pos + 1 + (k + 1))
    OBVIOUS
  <2>1. /\ pos + 1 + k \in pos + 1 .. n - 1 /\ Apart(pos + 1 + k)
        /\ pos + 1 + (k + 1) = (pos + 1 + k) + 1
    BY <1>1, <1>14
  <2> QED BY <1>11, <2>1
<1>15. n - pos - 1 \in Nat /\ pos + 1 + (n - pos - 1) = n /\ n \in 0 .. n
  BY <1>1
<1> HIDE DEF Done
<1>16. n - pos - 1 \in Done
  BY <1>13, <1>14, <1>15, Induction
<1>17. PICK e \in Octets : e # Zero /\ q[n] = XOR(r[n], e)
  BY <1>15, <1>16 DEF Done, Apart
<1>18. r[n] \in Octets
  BY <1>3, <1>15
<1>19. ASSUME q[n] = r[n] PROVE FALSE
  <2>1. XOR(r[n], e) = XOR(r[n], Zero)
    BY <1>17, <1>18, <1>19, XorLaws
  <2>2. XOR(XOR(r[n], r[n]), e) = XOR(r[n], XOR(r[n], e))
    BY <1>17, <1>18, XorMove, XorLaws
  <2>3. XOR(Zero, e) = XOR(r[n], r[n])
    BY <1>17, <1>18, <2>1, <2>2, XorLaws
  <2> QED BY <1>17, <1>18, <2>3, XorLaws
<1> QED BY <1>3, <1>4, <1>19

-----------------------------------------------------------------------------
\* The codeword verifies as long as no burst has hit it.
CrcInv == /\ codeword \in Seq(Octets) /\ flipped \in BOOLEAN
          /\ crc8(codeword) = Zero <=> ~flipped

LEMMA CrcInvInit == CrcInit => CrcInv
<1> SUFFICES ASSUME CrcInit PROVE CrcInv
  OBVIOUS
<1>1. PICK m \in Messages : codeword = Append(m, crc8(m))
  BY DEF CrcInit
<1>2. m \in Seq(Octets)
  BY CrcAssumption
<1>3. codeword \in Seq(Octets) /\ crc8(codeword) = Zero
  BY <1>1, <1>2, SentVerifies
<1>4. flipped = FALSE
  BY DEF CrcInit
<1> QED BY <1>3, <1>4, Zenon DEF CrcInv

LEMMA CrcInvNext == CrcInv /\ [CrcNext]_crcVars => CrcInv'
<1> SUFFICES ASSUME CrcInv, [CrcNext]_crcVars PROVE CrcInv'
  OBVIOUS
<1>1. CASE Burst
  <2>1. PICK pos \in 1 .. Len(codeword) - 1, places \in 0 .. 8,
             bits \in Octets \ {Zero} :
               codeword' = [codeword EXCEPT
                              ![pos] = XOR(@, Upper(bits, places)),
                              ![pos + 1] = XOR(@, Lower(bits, places))]
    BY <1>1, Zenon DEF Burst
  <2>2. codeword \in Seq(Octets) /\ crc8(codeword) = Zero
    BY <1>1, Zenon DEF CrcInv, Burst
  <2>3. bits \in Octets /\ bits # Zero
    OBVIOUS
  <2>4. Hit(codeword', codeword, pos, places, bits)
    BY <2>1, <2>2, <2>3, HitIs, Zenon
  <2>5. codeword' \in Seq(Octets)
    BY <2>4, Zenon DEF Hit
  <2>6. crc8(codeword') # crc8(codeword)
    BY <2>2, <2>3, <2>4, BurstSeen, Zenon
  <2>7. flipped' = TRUE
    BY <1>1, Zenon DEF Burst
  <2> QED BY <2>2, <2>5, <2>6, <2>7, Zenon DEF CrcInv
<1>2. CASE UNCHANGED crcVars
  BY <1>2, Zenon DEF crcVars, CrcInv
<1> QED BY <1>1, <1>2 DEF CrcNext

\* crc.c and crc_decoder.c: the receiver accepts what was sent and refuses it
\* after any burst of up to 8 bits, wherever it hit, for every message that
\* the byte counter can count and every odd polynomial.
THEOREM BurstsDetected == CrcSpec => []CrcDetectsBursts
<1>1. CrcSpec => []CrcInv
  BY CrcInvInit, CrcInvNext, PTL DEF CrcSpec
<1>2. CrcInv => CrcDetectsBursts
  BY Zenon DEF CrcInv, CrcDetectsBursts, crc8_verify
<1> QED BY <1>1, <1>2, PTL
=============================================================================
