----------------------------- MODULE TempSensor -----------------------------
(***************************************************************************)
(* What TEMP.c and SOLVED_TEMP.c, two versions of one AUTOSAR software     *)
(* component, have in common: the SPI driver and LM71 sensor they talk to, *)
(* the fault bits they report, the statements by which their runnables     *)
(* start a transfer and judge the last word, and the server operation that *)
(* hands the temperature out.  Three actors share the state: the task that *)
(* runs TEMP_Init and then TEMP_Runnable every 100 ms, the notification    *)
(* interrupt, and the task of the diagnostic client.  Only the interrupt   *)
(* runs to completion; the tasks may be preempted between any two accesses *)
(* to shared state.                                                        *)
(***************************************************************************)
EXTENDS Integers

CONSTANTS HALF,     \* a register of the sensor, read with its sign, holds
                    \* -HALF .. HALF-1 (2^15 in the code)
          LIMIT,    \* 150 degC in sensor counts (4800 in the code)
          Words,    \* what bytes 0..1 of a transfer may read
          IdWords   \* what bytes 4..5 of an 8-byte transfer may read

ASSUME SensorAssumption ==
  /\ HALF \in Nat \ {0} /\ HALF % 4 = 0
  /\ LIMIT \in Nat \ {0}
  /\ Words \subseteq 0 .. 2 * HALF - 1
  /\ IdWords \subseteq 0 .. 2 * HALF - 1

ID_LEN == 8
READ_LEN == 2
INIT_FAULT == "TEMP_FB_GENERAL_INIT_FAULT"
HW_FAULT == "TEMP_FB_GENERAL_HW_FAULT"
DATA_RX_ERROR == "TEMP_FB_GENERAL_DATA_RX_ERROR"

VARIABLES
  ebLen,          \* SPI driver: bytes of the next transfer, 0 before any setup
  job,            \* SPI driver: bytes of the transfer in flight, 0 when none
  rxTemp, rxId,   \* words in bytes 0..1 and 4..5 of TEMP_spiRxBuf
  faults,         \* DTCM: the fault bits that are set
  initCheck,      \* TEMP_M_initCheck
  rawTemp,        \* TEMP_M_rawTemp
  rawTempSValue,  \* TEMP_M_rawTempSValue
  phyTemp,        \* TEMP_M_phyTemp, in counts of 0.03125 degC
  task, step,     \* the runnable being executed, and where it is
  ok,             \* its tmp_rtn, or the outcome of its test of rawTemp
  client,         \* where the server operation is
  temperature     \* the cell the client passed

busVars == <<ebLen, job, rxTemp, rxId>>
readingVars == <<rawTemp, rawTempSValue, phyTemp>>
taskVars == <<task, step, ok>>
clientVars == <<client, temperature>>
sensorVars ==
  <<busVars, faults, initCheck, readingVars, taskVars, clientVars>>

-----------------------------------------------------------------------------
(* The register words.                                                     *)

\* The two filler bits of a word that arrived intact are 1.
Valid(w) == w % 4 = 3
\* (sint16)w
Signed(w) == IF w < HALF THEN w ELSE w - 2 * HALF
\* >> 2 keeps the sign: division by 4 rounded down.
ShiftRight2(n) == n \div 4
\* / 4 in C: division by 4 rounded towards zero.
Quarter(n) == IF n >= 0 THEN n \div 4 ELSE -((-n) \div 4)

\* The bytes of a transfer reach the receive buffer; the driver is idle again
\* and calls the notification, which is the rest of the same action.
Receive == /\ job # 0
           /\ job' = 0
           /\ rxTemp' \in Words
           /\ IF job = ID_LEN THEN rxId' \in IdWords ELSE UNCHANGED rxId
           /\ UNCHANGED ebLen

-----------------------------------------------------------------------------
(* Start-up, and the statements the runnables share.                       *)

\* Static variables before TEMP_Init.  The client's cell is the client's.
SensorInit == /\ ebLen = 0 /\ job = 0
              /\ rxTemp = 0 /\ rxId = 0
              /\ faults = {}
              /\ initCheck = FALSE
              /\ rawTemp = 0 /\ rawTempSValue = 0 /\ phyTemp = 0
              /\ task = "none" /\ step = "rest" /\ ok = TRUE
              /\ client = "idle" /\ temperature = 0

\* The assignments of TEMP_Init that both versions make.
ClearReadings == /\ initCheck' = TRUE
                 /\ rawTemp' = 0 /\ rawTempSValue' = 0 /\ phyTemp' = 0
                 /\ rxTemp' = 0 /\ rxId' = 0
                 /\ UNCHANGED <<ebLen, job>>

\* Spi_SetupEB accepts the buffers, for 8 bytes in TEMP_Init, 2 afterwards.
SetupAccepted == /\ step = "setup"
                 /\ ebLen' = IF task = "init" THEN ID_LEN ELSE READ_LEN
                 /\ step' = "transmit"
                 /\ UNCHANGED <<job, rxTemp, rxId, faults, initCheck,
                                readingVars, task, ok, clientVars>>

\* Either SPI call may return E_NOT_OK, for a reason of its own.
CallRefused == /\ step \in {"setup", "transmit"}
               /\ ok' = FALSE
               /\ step' = "hw"
               /\ UNCHANGED <<busVars, faults, initCheck, readingVars, task,
                              clientVars>>

\* Spi_AsyncTransmit starts the sequence; it cannot while one is in flight.
TransmitAccepted == /\ step = "transmit"
                    /\ job = 0
                    /\ job' = ebLen
                    /\ ok' = TRUE
                    /\ step' = "hw"
                    /\ UNCHANGED <<ebLen, rxTemp, rxId, faults, initCheck,
                                   readingVars, task, clientVars>>

Finish == task' = "none" /\ step' = "rest" /\ ok' = TRUE

\* Slip: a refused transfer clears the fault instead of setting it.
HwReportInverted ==
  /\ step = "hw"
  /\ faults' = IF ok THEN faults \cup {HW_FAULT} ELSE faults \ {HW_FAULT}
  /\ IF task = "init" THEN Finish
                      ELSE step' = "check" /\ UNCHANGED <<task, ok>>
  /\ UNCHANGED <<busVars, initCheck, readingVars, clientVars>>

\* SetFaultStatus or ClearFaultStatus of the hardware fault.
HwReport ==
  /\ step = "hw"
  /\ faults' = IF ok THEN faults \ {HW_FAULT} ELSE faults \cup {HW_FAULT}
  /\ IF task = "init" THEN Finish
                      ELSE step' = "check" /\ UNCHANGED <<task, ok>>
  /\ UNCHANGED <<busVars, initCheck, readingVars, clientVars>>

\* The runnable looks at the filler bits of the last word received ...
WordCheck == /\ step = "check"
             /\ ok' = Valid(rawTemp)
             /\ step' = "rx"
             /\ UNCHANGED <<busVars, faults, initCheck, readingVars, task,
                            clientVars>>

\* Slip: the fault is set but never cleared.
RxReportLatched ==
  /\ step = "rx"
  /\ faults' = IF ok THEN faults ELSE faults \cup {DATA_RX_ERROR}
  /\ Finish
  /\ UNCHANGED <<busVars, initCheck, readingVars, clientVars>>

\* ... and reports them; the interrupt may have stored another word since.
RxReport ==
  /\ step = "rx"
  /\ faults' = IF ok THEN faults \ {DATA_RX_ERROR}
                     ELSE faults \cup {DATA_RX_ERROR}
  /\ Finish
  /\ UNCHANGED <<busVars, initCheck, readingVars, clientVars>>

\* A runnable that has started goes on.
TaskStep == \/ SetupAccepted \/ CallRefused \/ TransmitAccepted
            \/ HwReport \/ WordCheck \/ RxReport

-----------------------------------------------------------------------------
(* Get_Temperature reads TEMP_M_phyTemp twice: to compare and to copy.     *)

GetCompare == /\ client = "idle"
              /\ client' = IF phyTemp < LIMIT THEN "copy" ELSE "return"
              /\ UNCHANGED <<busVars, faults, initCheck, readingVars,
                             taskVars, temperature>>

GetCopy == /\ client = "copy"
           /\ temperature' = phyTemp
           /\ client' = "return"
           /\ UNCHANGED <<busVars, faults, initCheck, readingVars, taskVars>>

\* RTE_E_OK, whichever way the comparison went.
GetReturn == /\ client = "return"
             /\ client' = "idle"
             /\ UNCHANGED <<busVars, faults, initCheck, readingVars,
                            taskVars, temperature>>

Client == GetCompare \/ GetCopy \/ GetReturn

-----------------------------------------------------------------------------
Raw == 0 .. 2 * HALF - 1
Counts == -HALF .. HALF - 1

SensorTypeOK ==
  /\ ebLen \in {0, READ_LEN, ID_LEN} /\ job \in {0, READ_LEN, ID_LEN}
  /\ rxTemp \in Raw /\ rxId \in Raw
  /\ faults \subseteq {INIT_FAULT, HW_FAULT, DATA_RX_ERROR}
  /\ initCheck \in BOOLEAN
  /\ rawTemp \in Raw
  /\ rawTempSValue \in Counts /\ phyTemp \in Counts
  /\ task \in {"none", "init", "runnable"}
  /\ step \in {"rest", "setup", "transmit", "hw", "check", "rx"}
  /\ ok \in BOOLEAN
  /\ client \in {"idle", "copy", "return"}
  /\ temperature \in Counts
=============================================================================
