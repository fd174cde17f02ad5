----------------------------- MODULE MsCounter ------------------------------
(***************************************************************************)
(* 32b_counter_uart.c and watchdog_timer.c: time that has elapsed on a     *)
(* millisecond counter which an interrupt counts up and which wraps.  The  *)
(* timer interrupt does not look at interrupts_disabled, so it may come    *)
(* between any two steps of has_elapsed.                                   *)
(***************************************************************************)
EXTENDS Integers

CONSTANT MS_VALUES        \* the values of a uint32_t
ASSUME MsAssumption == MS_VALUES \in Nat \ {0}

VARIABLES ms_counter, interrupts_disabled,
          step,           \* of safe_read_counter
          wanted,         \* what the program reads the counter for
          temp,           \* what it has read
          start_time,     \* has_elapsed's, or the watchdog's last kick
          duration_ms,    \* has_elapsed's, or the watchdog's timeout
          verdict,        \* what has_elapsed or is_watchdog_starved returned
          age,            \* for the property: true milliseconds since
                          \* start_time was read, while they matter
          age_read        \* and the same when temp was read

counterVars == <<ms_counter, interrupts_disabled, step, wanted, temp,
                 start_time, duration_ms, verdict, age, age_read>>
Times == 0 .. MS_VALUES - 1

CounterInit == /\ ms_counter \in Times /\ start_time = ms_counter
               /\ interrupts_disabled = FALSE
               /\ step = "idle" /\ wanted = "start"
               /\ temp = 0 /\ duration_ms = 0 /\ verdict = FALSE
               /\ age = 0 /\ age_read = 0

timer_isr_simulate ==
  /\ ms_counter' = (ms_counter + 1) % MS_VALUES
  /\ age' = IF age = MS_VALUES THEN age ELSE age + 1
  /\ UNCHANGED <<interrupts_disabled, step, wanted, temp, start_time,
                 duration_ms, verdict, age_read>>

\* The program begins an interval, or asks whether it is over.
disable_interrupts ==
  /\ step = "idle" /\ step' = "read"
  /\ wanted' \in {"start", "elapsed", "starved"}
  /\ duration_ms' \in IF wanted' = "start" THEN {duration_ms} ELSE Times
  /\ interrupts_disabled' = TRUE
  /\ UNCHANGED <<ms_counter, temp, start_time, verdict, age, age_read>>

ReadCounter == /\ step = "read" /\ step' = "enable"
               /\ temp' = ms_counter
               /\ age_read' = IF wanted = "start" THEN 0 ELSE age
               /\ age' = age_read'
               /\ UNCHANGED <<ms_counter, interrupts_disabled, wanted,
                              start_time, duration_ms, verdict>>

enable_interrupts == /\ step = "enable" /\ step' = "use"
                     /\ interrupts_disabled' = FALSE
                     /\ UNCHANGED <<ms_counter, wanted, temp, start_time,
                                    duration_ms, verdict, age, age_read>>

\* Slip: the moment at which the interval is over is compared, and it wraps.
DeadlineReached(start, now, duration) == now >= (start + duration) % MS_VALUES
Elapsed(start, now, duration) == (now - start) % MS_VALUES >= duration

Finish == /\ step = "use" /\ step' = "idle"
          /\ UNCHANGED <<ms_counter, interrupts_disabled, wanted, temp,
                         duration_ms, age, age_read>>
Begin == wanted = "start" /\ start_time' = temp /\ verdict' = FALSE
has_elapsed == /\ wanted = "elapsed" /\ UNCHANGED start_time
               /\ verdict' = Elapsed(start_time, temp, duration_ms)
is_watchdog_starved == /\ wanted = "starved" /\ UNCHANGED start_time
                       /\ verdict' = Elapsed(start_time, temp, duration_ms)

CounterNext == \/ timer_isr_simulate
               \/ disable_interrupts \/ ReadCounter \/ enable_interrupts
               \/ Finish /\ (Begin \/ has_elapsed \/ is_watchdog_starved)

CounterSpec == CounterInit /\ [][CounterNext]_counterVars

-----------------------------------------------------------------------------
CounterTypeOK ==
  /\ ms_counter \in Times /\ temp \in Times /\ start_time \in Times
  /\ duration_ms \in Times
  /\ interrupts_disabled \in BOOLEAN
  /\ interrupts_disabled <=> step \in {"read", "enable"}
  /\ step \in {"idle", "read", "enable", "use"}
  /\ wanted \in {"start", "elapsed", "starved"} /\ verdict \in BOOLEAN
  /\ age \in 0 .. MS_VALUES /\ age_read \in 0 .. MS_VALUES

\* An interval is never declared over early, wherever the counter wraps and
\* whenever the interrupt comes; and it is declared over once it is, unless
\* the counter went all the way round unasked.
VerdictIsTrue ==
  (step = "idle" /\ wanted # "start") =>
     IF verdict THEN age_read >= duration_ms
     ELSE age_read < duration_ms \/ age_read = MS_VALUES
=============================================================================
