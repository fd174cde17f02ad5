----------------------------- MODULE SolvedTemp -----------------------------
(***************************************************************************)
(* SOLVED_TEMP.c: the version of the component that starts measuring at    *)
(* once and marks the start-up transfer by a flag, TEMP_M_idReadPending.   *)
(***************************************************************************)
EXTENDS TempSensor

VARIABLES manufacturerID,  \* TEMP_M_manufacturerID
          idReadPending    \* the next notification is taken for the ID

idVars == <<manufacturerID, idReadPending>>
vars == <<sensorVars, idVars>>

Init == /\ SensorInit
        /\ manufacturerID = 0 /\ idReadPending = FALSE

\* Slip: the flag is not raised.
TempInitUnmarked == /\ step = "rest" /\ ~initCheck
                    /\ ClearReadings
                    /\ task' = "init" /\ step' = "setup"
                    /\ UNCHANGED <<faults, ok, clientVars, idVars>>

\* TEMP_Init, executed once, up to its first SPI call.
TempInit == /\ step = "rest" /\ ~initCheck
            /\ ClearReadings
            /\ idReadPending' = TRUE
            /\ task' = "init" /\ step' = "setup"
            /\ UNCHANGED <<faults, ok, clientVars, manufacturerID>>

\* TEMP_Runnable up to its first SPI call: reporting a missing TEMP_Init does
\* not keep it from going on.
Runnable ==
  /\ step = "rest"
  /\ faults' = IF initCheck THEN faults ELSE faults \cup {INIT_FAULT}
  /\ task' = "runnable" /\ step' = "setup"
  /\ UNCHANGED <<busVars, initCheck, readingVars, ok, clientVars, idVars>>

\* Slip: the flag stays up after the ID was read.
NotifyIdAgain ==
  /\ idReadPending
  /\ Receive
  /\ manufacturerID' = rxId'
  /\ UNCHANGED <<faults, initCheck, readingVars, taskVars, clientVars,
                 idReadPending>>

\* The notification while the flag is up.
NotifyId ==
  /\ idReadPending
  /\ Receive
  /\ manufacturerID' = rxId'
  /\ idReadPending' = FALSE
  /\ UNCHANGED <<faults, initCheck, readingVars, taskVars, clientVars>>

\* The notification otherwise.
NotifyTemp ==
  /\ ~idReadPending
  /\ Receive
  /\ rawTemp' = rxTemp'
  /\ rawTempSValue' = Quarter(Signed(rawTemp'))
  /\ phyTemp' = rawTempSValue'
  /\ UNCHANGED <<faults, initCheck, taskVars, clientVars, idVars>>

Notification == NotifyId \/ NotifyTemp
TaskRuns == TempInit \/ Runnable \/ (TaskStep /\ UNCHANGED idVars)
Next == TaskRuns \/ Notification \/ (Client /\ UNCHANGED idVars)

Spec == Init /\ [][Next]_vars
\* The scheduler starts the runnables and lets them finish, and a transfer
\* that was accepted is completed.
FairSpec == Spec /\ WF_vars(TaskRuns) /\ WF_vars(Notification)
\* Moreover the SPI driver does not refuse for ever.
WillingSpec == /\ FairSpec
               /\ SF_vars(SetupAccepted /\ UNCHANGED idVars)
               /\ SF_vars(TransmitAccepted /\ UNCHANGED idVars)

-----------------------------------------------------------------------------
TypeOK == /\ SensorTypeOK
          /\ manufacturerID \in Raw
          /\ idReadPending \in BOOLEAN

\* The ID kept is 0 or what the sensor answered to the ID sequence, also when
\* the driver refused that sequence and another reply took its place (the ID
\* "stays at its safe default of 0", 267-268): rxId is written by no other
\* reply.  With TEMP_Init before the first TEMP_Runnable, as the RTE promises,
\* the answer is never lost to the other branch of the notification either.
IdIsTheSensorsAnswer ==
  /\ manufacturerID \in {0, rxId}
  /\ INIT_FAULT \notin faults => manufacturerID = rxId

\* The published value is a quarter of the register's value, rounded towards
\* zero: less than one count off, below zero upwards.
ReadingRounded == LET error == Signed(rawTemp) - 4 * phyTemp
                  IN  /\ Signed(rawTemp) >= 0 => error \in 0 .. 3
                      /\ Signed(rawTemp) <= 0 => error \in -3 .. 0

\* Whatever the driver refuses at start-up, the flag comes down in the end and
\* measuring begins.
MeasuringBegins == idReadPending ~> ~idReadPending

-----------------------------------------------------------------------------
(* What the comments say and the code does not do.                         *)

\* "leave TEMP_M_idReadPending TRUE so we do not misinterpret a later,
\* unrelated notification as containing a valid ID" (266-268): the flag is
\* taken down only by the reply to the ID sequence.
OnlyTheIdReplyIsTakenForTheId ==
  [][idReadPending /\ ~idReadPending' => job = ID_LEN]_vars

\* "only hand back the cached reading if it's within the sensor's valid
\* range" (381-383).
HandedOutInRange == temperature < LIMIT
=============================================================================
