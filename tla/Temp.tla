-------------------------------- MODULE Temp --------------------------------
(***************************************************************************)
(* TEMP.c: the temperature component that reads the LM71's manufacturer ID *)
(* once, at start-up, and measures only after it has a valid one.          *)
(***************************************************************************)
EXTENDS TempSensor

VARIABLES rawManID,    \* TEMP_M_rawManID
          manID,       \* TEMP_M_manID
          ID_checked   \* a valid ID was read: the runnable may measure

idVars == <<rawManID, manID, ID_checked>>
vars == <<sensorVars, idVars>>

Init == /\ SensorInit
        /\ rawManID = 0 /\ manID = 0 /\ ID_checked = FALSE

\* TEMP_Init, executed once; its call of TEMP_Manufacturer_ID is TaskStep.
TempInit == /\ step = "rest" /\ ~initCheck
            /\ ID_checked' = FALSE
            /\ ClearReadings
            /\ task' = "init" /\ step' = "setup"
            /\ UNCHANGED <<faults, ok, clientVars, rawManID, manID>>

RunnableStart ==
  /\ step = "rest"
  /\ faults' = IF initCheck THEN faults ELSE faults \cup {INIT_FAULT}

\* Slip: the runnable does not wait for the ID.
RunnableUngated ==
  /\ RunnableStart
  /\ task' = "runnable" /\ step' = "setup"
  /\ UNCHANGED <<busVars, initCheck, readingVars, ok, clientVars, idVars>>

\* TEMP_Runnable starts a measurement once the ID is known ...
RunnableMeasures ==
  /\ RunnableStart
  /\ ID_checked
  /\ task' = "runnable" /\ step' = "setup"
  /\ UNCHANGED <<busVars, initCheck, readingVars, ok, clientVars, idVars>>

\* ... and does nothing else before.
RunnableWaits ==
  /\ RunnableStart
  /\ ~ID_checked
  /\ UNCHANGED <<busVars, initCheck, readingVars, taskVars, clientVars, idVars>>

\* Slip: an ID whose filler bits are wrong is accepted as well.
NotifyAnyId ==
  /\ ~ID_checked
  /\ Receive
  /\ rawManID' = rxId'
  /\ faults' = faults \ {DATA_RX_ERROR}
  /\ manID' = ShiftRight2(rawManID') /\ ID_checked' = TRUE
  /\ UNCHANGED <<initCheck, readingVars, taskVars, clientVars>>

\* The notification while no ID is known: the word is judged and kept.
NotifyId ==
  /\ ~ID_checked
  /\ Receive
  /\ rawManID' = rxId'
  /\ IF Valid(rawManID')
     THEN /\ faults' = faults \ {DATA_RX_ERROR}
          /\ manID' = ShiftRight2(rawManID')
          /\ ID_checked' = TRUE
     ELSE /\ faults' = faults \cup {DATA_RX_ERROR}
          /\ UNCHANGED <<manID, ID_checked>>
  /\ UNCHANGED <<initCheck, readingVars, taskVars, clientVars>>

\* Slip: the sign is lost, as in the component's first version.
NotifyTempUnsigned ==
  /\ ID_checked
  /\ Receive
  /\ rawTemp' = rxTemp'
  /\ rawTempSValue' = ShiftRight2(rawTemp')
  /\ phyTemp' = rawTempSValue'
  /\ UNCHANGED <<faults, initCheck, taskVars, clientVars, idVars>>

\* The notification afterwards: the word is a temperature.
NotifyTemp ==
  /\ ID_checked
  /\ Receive
  /\ rawTemp' = rxTemp'
  /\ rawTempSValue' = ShiftRight2(Signed(rawTemp'))
  /\ phyTemp' = rawTempSValue'
  /\ UNCHANGED <<faults, initCheck, taskVars, clientVars, idVars>>

Notification == NotifyId \/ NotifyTemp
TaskRuns == \/ TempInit \/ RunnableMeasures \/ RunnableWaits
            \/ TaskStep /\ UNCHANGED idVars
Next == TaskRuns \/ Notification \/ (Client /\ UNCHANGED idVars)

Spec == Init /\ [][Next]_vars
\* The scheduler starts the runnables and lets them finish; a transfer that
\* was accepted is completed.  Nothing makes the SPI driver accept one.
FairSpec == Spec /\ WF_vars(TaskRuns) /\ WF_vars(Notification)

-----------------------------------------------------------------------------
TypeOK == /\ SensorTypeOK
          /\ rawManID \in Raw
          /\ manID \in Raw
          /\ ID_checked \in BOOLEAN

\* The notification tells the two kinds of transfer apart by ID_checked alone,
\* and is right: what is in flight is the 8-byte ID sequence exactly as long
\* as no valid ID is known.
RoutedById == job # 0 => (job = ID_LEN <=> ~ID_checked)

\* A component that came to rest after TEMP_Init without an ID will never
\* measure, since nothing retries: it has said so by a fault.
SilenceIsReported ==
  initCheck /\ step = "rest" /\ ~ID_checked /\ job = 0
    => HW_FAULT \in faults \/ DATA_RX_ERROR \in faults

\* Once accepted, the ID is intact and stays for good, and before that no
\* reading is made: every reading belongs to an identified sensor.
IdBeforeReadings ==
  IF ID_checked THEN Valid(rawManID) /\ manID = ShiftRight2(rawManID)
                ELSE rawTemp = 0 /\ phyTemp = 0
IdKept == [][ID_checked => UNCHANGED idVars]_vars

\* What the component publishes is the register's two's complement value
\* without the filler bits, below zero too.
ReadingMatchesWord == 4 * phyTemp + (rawTemp % 4) = Signed(rawTemp)

\* When the words stay intact the runnable withdraws the receive error for
\* good, in spite of the interrupt between its test and its report.
RxErrorSettles == <>[](ID_checked /\ Valid(rawTemp))
                    => <>[](DATA_RX_ERROR \notin faults)
=============================================================================
