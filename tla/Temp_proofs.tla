----------------------------- MODULE Temp_proofs -----------------------------
(***************************************************************************)
(* Theorems about the temperature component of TEMP.c.                     *)
(***************************************************************************)
EXTENDS Temp, TempSensor_proofs

(* Type correctness.                                                       *)

LEMMA NotifyType == TypeOK /\ Notification => TypeOK'
<1> SUFFICES ASSUME TypeOK, Notification PROVE TypeOK'
  OBVIOUS
<1>1. SensorTypeOK /\ Receive
  BY DEF TypeOK, Notification, NotifyId, NotifyTemp
<1>2. /\ ebLen' \in {0, READ_LEN, ID_LEN} /\ job' \in {0, READ_LEN, ID_LEN}
      /\ rxTemp' \in Raw /\ rxId' \in Raw
  BY <1>1, ReceiveType
<1>3. CASE NotifyId
  <2>1. rawManID' \in Raw
    BY <1>2, <1>3 DEF NotifyId
  <2>2. manID' \in Raw /\ faults' \subseteq {INIT_FAULT, HW_FAULT, DATA_RX_ERROR}
    BY <1>1, <1>3, <2>1, ShiftedWord DEF NotifyId, TypeOK, SensorTypeOK
  <2>3. ID_checked' \in BOOLEAN
    BY <1>3, Zenon DEF NotifyId, TypeOK
  <2> QED BY <1>2, <1>3, <2>1, <2>2, <2>3
          DEF NotifyId, TypeOK, SensorTypeOK, readingVars, taskVars, clientVars
<1>4. CASE NotifyTemp
  <2>1. rawTemp' \in Raw
    BY <1>2, <1>4 DEF NotifyTemp
  <2>2. rawTempSValue' \in Counts /\ phyTemp' \in Counts
    BY <1>4, <2>1, SignedCounts, QuarterCounts DEF NotifyTemp
  <2> QED BY <1>2, <1>4, <2>1, <2>2
          DEF NotifyTemp, TypeOK, SensorTypeOK, taskVars, clientVars, idVars
<1> QED BY <1>3, <1>4 DEF Notification

LEMMA TaskKeepsType == TypeOK /\ TaskRuns => TypeOK'
<1> SUFFICES ASSUME TypeOK, TaskRuns PROVE TypeOK'
  OBVIOUS
<1>1. CASE TempInit
  <2>1. SensorTypeOK /\ ClearReadings
    BY <1>1 DEF TempInit, TypeOK
  <2>2. ID_checked' \in BOOLEAN
    BY <1>1, Zenon DEF TempInit
  <2> QED BY <1>1, <2>1, <2>2, ClearReadingsType
          DEF TempInit, TypeOK, SensorTypeOK, clientVars
<1>2. CASE RunnableMeasures \/ RunnableWaits
  BY <1>2 DEF RunnableMeasures, RunnableWaits, RunnableStart, TypeOK,
              SensorTypeOK, busVars, readingVars, taskVars, clientVars, idVars
<1>3. CASE TaskStep /\ UNCHANGED idVars
  BY <1>3, TaskType DEF TypeOK, idVars
<1> QED BY <1>1, <1>2, <1>3 DEF TaskRuns

\* The component's variables keep their types, for every register width and
\* every set of words the sensor may send.
THEOREM TypeCorrect == Spec => []TypeOK
<1>1. Init => TypeOK
  <2>1. 0 \in Raw
    BY SensorAssumption DEF Raw
  <2>2. Init => ID_checked \in BOOLEAN
    BY Zenon DEF Init
  <2> QED BY <2>1, <2>2, InitType DEF Init, TypeOK
<1>2. TypeOK /\ [Next]_vars => TypeOK'
  <2>1. TypeOK /\ Client /\ UNCHANGED idVars => TypeOK'
    BY ClientType DEF TypeOK, idVars
  <2>2. TypeOK /\ UNCHANGED vars => TypeOK'
    BY DEF TypeOK, SensorTypeOK, vars, sensorVars, busVars, readingVars,
           taskVars, clientVars, idVars
  <2> QED BY <2>1, <2>2, TaskKeepsType, NotifyType DEF Next
<1> QED BY <1>1, <1>2, PTL DEF Spec

-----------------------------------------------------------------------------
(* Who asked for the transfer in flight.                                   *)

\* Before TEMP_Init nothing was asked of the driver and no ID is known.
Untouched == ~initCheck => step = "rest" /\ job = 0 /\ ~ID_checked

\* The runnable is executed only with a valid ID; TEMP_Init has none until its
\* own transfer, started last, has been answered.
Starter == /\ step = "rest" <=> task = "none"
           /\ task \in {"none", "init", "runnable"}
           /\ task = "runnable" => ID_checked
           /\ task = "init" => step \in {"setup", "transmit", "hw"}
           /\ task = "init" /\ step # "hw" => job = 0 /\ ~ID_checked

\* The length handed to Spi_SetupEB is that of the runnable in progress.
LengthSetUp ==
  step = "transmit" => ebLen = IF task = "init" THEN ID_LEN ELSE READ_LEN

\* When TEMP_Init is about to report success, its transfer is in flight or has
\* been answered, by a valid ID or by a fault.
Answered == task = "init" /\ step = "hw" /\ ok
              => job # 0 \/ ID_checked \/ DATA_RX_ERROR \in faults

RouteInv == /\ Untouched /\ Starter /\ LengthSetUp /\ Answered
            /\ RoutedById /\ SilenceIsReported

\* The two invariants that need each other, and what they rest on: no step
\* starts a transfer on behalf of anyone but the runnable in progress, and the
\* ID becomes known only when the reply to TEMP_Init's transfer arrives.
LEMMA RouteStep == RouteInv /\ [Next]_vars => RouteInv'
<1> SUFFICES ASSUME RouteInv, [Next]_vars PROVE RouteInv'
  OBVIOUS
<1> USE DEF RouteInv, Untouched, Starter, LengthSetUp, Answered, RoutedById,
            SilenceIsReported, sensorVars, busVars, readingVars, taskVars,
            clientVars, idVars, ID_LEN, READ_LEN, HW_FAULT, DATA_RX_ERROR,
            INIT_FAULT
<1>1. CASE TempInit
  BY <1>1 DEF TempInit, ClearReadings
<1>2. CASE RunnableMeasures
  BY <1>2 DEF RunnableMeasures, RunnableStart
<1>3. CASE RunnableWaits
  BY <1>3 DEF RunnableWaits, RunnableStart
<1>4. CASE TaskStep /\ UNCHANGED idVars
  <2>1. CASE SetupAccepted
    BY <1>4, <2>1 DEF SetupAccepted
  <2>2. CASE CallRefused
    BY <1>4, <2>2 DEF CallRefused
  <2>3. CASE TransmitAccepted
    BY <1>4, <2>3 DEF TransmitAccepted
  <2>4. CASE HwReport
    BY <1>4, <2>4 DEF HwReport, Finish
  <2>5. CASE WordCheck
    BY <1>4, <2>5 DEF WordCheck
  <2>6. CASE RxReport
    BY <1>4, <2>6 DEF RxReport, Finish
  <2> QED BY <1>4, <2>1, <2>2, <2>3, <2>4, <2>5, <2>6 DEF TaskStep
<1>5. CASE NotifyId
  BY <1>5 DEF NotifyId, Receive
<1>6. CASE NotifyTemp
  BY <1>6 DEF NotifyTemp, Receive
<1>7. CASE Client /\ UNCHANGED idVars
  BY <1>7, ClientLeaves
<1>8. CASE UNCHANGED vars
  BY <1>8 DEF vars
<1> QED BY <1>1, <1>2, <1>3, <1>4, <1>5, <1>6, <1>7, <1>8
        DEF Next, TaskRuns, Notification

LEMMA RouteInvariant == Spec => []RouteInv
<1>1. Init => RouteInv
  BY DEF Init, SensorInit, RouteInv, Untouched, Starter, LengthSetUp, Answered,
         RoutedById, SilenceIsReported
<1> QED BY <1>1, RouteStep, PTL DEF Spec

\* The notification takes the reply to the 8-byte sequence for an ID and the
\* others for temperatures, whenever it comes and whatever was refused.
THEOREM RoutingHolds == Spec => []RoutedById
BY RouteInvariant, PTL DEF RouteInv

\* A component that will never measure has reported a fault.
THEOREM SilenceHolds == Spec => []SilenceIsReported
BY RouteInvariant, PTL DEF RouteInv

-----------------------------------------------------------------------------
(* The ID, and the readings that belong to it.                             *)

ReadingInv == IdBeforeReadings /\ ReadingMatchesWord

LEMMA ReadingStep ==
  TypeOK /\ Untouched /\ ReadingInv /\ [Next]_vars => ReadingInv'
<1> SUFFICES ASSUME TypeOK, Untouched, ReadingInv, [Next]_vars
             PROVE  ReadingInv'
  OBVIOUS
<1> USE DEF ReadingInv, IdBeforeReadings, ReadingMatchesWord
<1>1. CASE TempInit
  BY <1>1, SensorAssumption DEF TempInit, ClearReadings, Untouched, Signed
<1>2. CASE NotifyId
  BY <1>2 DEF NotifyId, readingVars
<1>3. CASE NotifyTemp
  <2>1. rawTemp' \in Raw
    BY <1>3, ReceiveType DEF NotifyTemp, TypeOK
  <2>2. phyTemp' = ShiftRight2(Signed(rawTemp'))
    BY <1>3 DEF NotifyTemp
  <2> QED BY <1>3, <2>1, <2>2, ShiftedWord DEF NotifyTemp, idVars
<1>4. CASE UNCHANGED <<readingVars, idVars>>
  BY <1>4 DEF readingVars, idVars
<1>5. \/ TempInit \/ NotifyId \/ NotifyTemp
      \/ UNCHANGED <<readingVars, idVars>>
  BY ClientLeaves
  DEF Next, TaskRuns, Notification, RunnableMeasures, RunnableWaits, TaskStep,
      SetupAccepted, CallRefused, TransmitAccepted, HwReport, WordCheck,
      RxReport, vars, sensorVars
<1> QED BY <1>1, <1>2, <1>3, <1>4, <1>5

LEMMA ReadingInvariant == Spec => []ReadingInv
<1>1. Init => ReadingInv
  BY SensorAssumption DEF Init, SensorInit, ReadingInv, IdBeforeReadings,
                          ReadingMatchesWord, Signed
<1>2. RouteInv => Untouched
  BY DEF RouteInv
<1> QED BY <1>1, <1>2, ReadingStep, TypeCorrect, RouteInvariant, PTL DEF Spec

\* No reading is made before a valid ID was stored, and the ID stored is the
\* valid word that was received.
THEOREM ReadingsIdentified == Spec => []IdBeforeReadings
BY ReadingInvariant, PTL DEF ReadingInv

\* The published value is the two's complement value of the register without
\* its filler bits, for every register width and every word.
THEOREM ReadingsExact == Spec => []ReadingMatchesWord
BY ReadingInvariant, PTL DEF ReadingInv

\* Once known, the ID is never written again.
THEOREM IdStays == Spec => IdKept
<1>1. Untouched /\ [Next]_vars => [ID_checked => UNCHANGED idVars]_vars
  <2> SUFFICES ASSUME Untouched, Next, ID_checked PROVE UNCHANGED idVars
    OBVIOUS
  <2> QED BY DEF Untouched, Next, TaskRuns, TempInit, RunnableMeasures,
                 RunnableWaits, Notification, NotifyId, NotifyTemp
<1>2. RouteInv => Untouched
  BY DEF RouteInv
<1> QED BY <1>1, <1>2, RouteInvariant, PTL DEF Spec, IdKept
=============================================================================
