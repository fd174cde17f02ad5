---------------------------- MODULE ButtonPress -----------------------------
(***************************************************************************)
(* button_press_volatile.c: a button interrupt and a timer interrupt over  *)
(* a main loop that is to confirm presses.  The interrupts run to their    *)
(* end between any two accesses of main_loop_check to what they share.     *)
(***************************************************************************)
EXTENDS Integers

CONSTANTS UINT32_VALUES,      \* how many values a uint32_t has: even
          PRESS_DELAY_MS      \* DEBOUNCE_DELAY_MS

ASSUME ButtonAssumption == /\ UINT32_VALUES \in Nat \ {0}
                           /\ UINT32_VALUES % 2 = 0
                           /\ PRESS_DELAY_MS \in 1 .. UINT32_VALUES - 1

VARIABLES ms, raw_state, raw_change_time,
          raw_event_count,        \* only its parity is looked at:
          confirmed_press_count,  \* both counts are kept modulo 2
          debounced_state,
          last_change_time, loop, \* main_loop_check
          noticed                 \* for the property: the button interrupts
                                  \* since the loop first looked, up to 2

irqVars == <<ms, raw_state, raw_change_time, raw_event_count>>
loopVars == <<confirmed_press_count, debounced_state, last_change_time, loop>>
buttonVars == <<irqVars, loopVars, noticed>>

ButtonInit == /\ ms = 0 /\ raw_state = FALSE /\ raw_change_time = 0
              /\ raw_event_count = 0 /\ confirmed_press_count = 0
              /\ debounced_state = FALSE /\ last_change_time = 0
              /\ loop = "idle" /\ noticed = 0

button_timer_isr == /\ ms' = (ms + 1) % UINT32_VALUES
                    /\ UNCHANGED <<raw_state, raw_change_time, raw_event_count,
                                   loopVars, noticed>>

button_isr_simulate(new_raw_state) ==
  /\ raw_state' = new_raw_state
  /\ raw_event_count' = (raw_event_count + 1) % 2
  /\ raw_change_time' = ms
  /\ noticed' = IF noticed = 2 THEN 2 ELSE noticed + 1
  /\ UNCHANGED <<ms, loopVars>>

\* last_processed_event_count stays 0.
Odd == raw_event_count % 2 # 0
LoopStep(from, to) == loop = from /\ loop' = to /\ UNCHANGED irqVars
Kept == UNCHANGED <<confirmed_press_count, debounced_state>>

FirstLook == /\ LoopStep("idle", IF Odd THEN "stamp" ELSE "compare")
             /\ noticed' = 0 /\ Kept /\ UNCHANGED last_change_time

Stamp == /\ LoopStep("stamp", "compare")
         /\ last_change_time' = raw_change_time
         /\ Kept /\ UNCHANGED noticed

DelayOver ==
  (last_change_time - raw_change_time) % UINT32_VALUES >= PRESS_DELAY_MS
Compare == /\ LoopStep("compare", IF DelayOver THEN "look" ELSE "idle")
           /\ Kept /\ UNCHANGED <<last_change_time, noticed>>

\* Slip: the parity is not looked at again.
ConfirmAnyway == LoopStep("look", "confirm")
                 /\ Kept /\ UNCHANGED <<last_change_time, noticed>>
SecondLook == /\ LoopStep("look", IF Odd THEN "confirm" ELSE "idle")
              /\ Kept /\ UNCHANGED <<last_change_time, noticed>>

Confirm == /\ LoopStep("confirm", "idle")
           /\ last_change_time' = raw_change_time
           /\ confirmed_press_count' = (confirmed_press_count + 1) % 2
           /\ debounced_state' = (confirmed_press_count' % 2 # 0)
           /\ UNCHANGED noticed

main_loop_check == FirstLook \/ Stamp \/ Compare \/ SecondLook \/ Confirm

ButtonNext == \/ button_timer_isr \/ main_loop_check
              \/ \E level \in BOOLEAN : button_isr_simulate(level)

ButtonSpec == ButtonInit /\ [][ButtonNext]_buttonVars

-----------------------------------------------------------------------------
ButtonTypeOK ==
  /\ ms \in 0 .. UINT32_VALUES - 1 /\ raw_state \in BOOLEAN
  /\ raw_change_time \in 0 .. UINT32_VALUES - 1
  /\ last_change_time \in 0 .. UINT32_VALUES - 1
  /\ raw_event_count \in 0 .. 1 /\ confirmed_press_count \in 0 .. 1
  /\ debounced_state \in BOOLEAN
  /\ debounced_state <=> confirmed_press_count = 1
  /\ loop \in {"idle", "stamp", "compare", "look", "confirm"}
  /\ noticed \in 0 .. 2

\* The loop takes the time of the change to be compared from the change
\* itself, so an undisturbed turn never finds the delay over with an event
\* pending: a press is confirmed only in a turn the button interrupted.
ConfirmedOnlyWhenInterrupted ==
  [][confirmed_press_count' # confirmed_press_count => noticed > 0]_buttonVars
=============================================================================
