------------------------------ MODULE Debounce ------------------------------
(***************************************************************************)
(* mute_debounce.c: debounce_button, polled with the level of a contact    *)
(* that may bounce and with the time of a millisecond counter that wraps.  *)
(***************************************************************************)
EXTENDS Integers

CONSTANTS CLOCK,               \* the values of the uint32_t times
          DEBOUNCE_DELAY_MS

ASSUME DebounceAssumption == /\ CLOCK \in Nat /\ DEBOUNCE_DELAY_MS \in Nat
                             /\ DEBOUNCE_DELAY_MS + 1 < CLOCK

VARIABLES current_time_ms,     \* the counter
          last_time_ms, prev_raw, lst_state,     \* the function's statics
          steady               \* for the properties: the milliseconds since
                               \* the polls began to agree, while they matter

debounceVars == <<current_time_ms, last_time_ms, prev_raw, lst_state, steady>>

DebounceInit == /\ current_time_ms \in 0 .. CLOCK - 1
                /\ last_time_ms = 0 /\ prev_raw = FALSE /\ lst_state = FALSE
                /\ steady = 0

DebounceTick == /\ current_time_ms' = (current_time_ms + 1) % CLOCK
                /\ steady' = IF steady > DEBOUNCE_DELAY_MS THEN steady
                             ELSE steady + 1
                /\ UNCHANGED <<last_time_ms, prev_raw, lst_state>>

\* Slip: the moment at which the delay is over is compared, and it wraps.
DeadlinePassed(t) == current_time_ms > (t + DEBOUNCE_DELAY_MS) % CLOCK
DelayPassed(t) == (current_time_ms - t) % CLOCK > DEBOUNCE_DELAY_MS

\* Slip: every poll restarts the delay.
RestartedAlways(raw) == current_time_ms
Restarted(raw) == IF raw # prev_raw THEN current_time_ms ELSE last_time_ms

debounce_button(raw) ==
  /\ prev_raw' = raw
  /\ last_time_ms' = Restarted(raw)
  /\ lst_state' = IF DelayPassed(last_time_ms') THEN raw ELSE lst_state
  /\ steady' = IF raw # prev_raw THEN 0 ELSE steady
  /\ UNCHANGED current_time_ms

Poll == \E raw \in BOOLEAN : debounce_button(raw)
PollWhenDue == DelayPassed(last_time_ms) /\ Poll

DebounceNext == DebounceTick \/ Poll

\* The counter counts, and is not always past the delay unseen: the caller
\* polls more often than the counter wraps.
DebounceFairness == /\ WF_debounceVars(DebounceTick)
                    /\ SF_debounceVars(PollWhenDue)
DebounceSpec == DebounceInit /\ [][DebounceNext]_debounceVars /\ DebounceFairness

-----------------------------------------------------------------------------
DebounceTypeOK == /\ current_time_ms \in 0 .. CLOCK - 1
                  /\ last_time_ms \in 0 .. CLOCK - 1
                  /\ prev_raw \in BOOLEAN /\ lst_state \in BOOLEAN
                  /\ steady \in 0 .. DEBOUNCE_DELAY_MS + 1

\* The confirmed state follows only a level that every poll of at least the
\* last DEBOUNCE_DELAY_MS has shown, wherever the counter wraps meanwhile.
DebouncedIsSteady ==
  [][lst_state' # lst_state =>
       lst_state' = prev_raw /\ steady >= DEBOUNCE_DELAY_MS]_debounceVars

\* A level that no longer bounces is confirmed in the end.
Settles == \A level \in BOOLEAN :
             <>[](prev_raw = level) => <>[](lst_state = level)
=============================================================================
