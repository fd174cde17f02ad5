-------------------------- MODULE SolvedTemp_proofs --------------------------
(***************************************************************************)
(* Theorems about the temperature component of SOLVED_TEMP.c.              *)
(***************************************************************************)
EXTENDS SolvedTemp, TempSensor_proofs

(* Type correctness.                                                       *)

LEMMA NotifyType == TypeOK /\ Notification => TypeOK'
<1> SUFFICES ASSUME TypeOK, Notification PROVE TypeOK'
  OBVIOUS
<1>1. SensorTypeOK /\ Receive
  BY DEF TypeOK, Notification, NotifyId, NotifyTemp
<1>2. /\ ebLen' \in {0, READ_LEN, ID_LEN} /\ job' \in {0, READ_LEN, ID_LEN}
      /\ rxTemp' \in Raw /\ rxId' \in Raw
  BY <1>1, ReceiveType
<1>3. CASE NotifyId
  <2>1. idReadPending' \in BOOLEAN
    BY <1>3, Zenon DEF NotifyId
  <2> QED BY <1>2, <1>3, <2>1
          DEF NotifyId, TypeOK, SensorTypeOK, readingVars, taskVars, clientVars
<1>4. CASE NotifyTemp
  <2>1. rawTemp' \in Raw
    BY <1>2, <1>4 DEF NotifyTemp
  <2>2. rawTempSValue' \in Counts /\ phyTemp' \in Counts
    BY <1>4, <2>1, SignedCounts, QuarterCounts DEF NotifyTemp
  <2> QED BY <1>2, <1>4, <2>1, <2>2
          DEF NotifyTemp, TypeOK, SensorTypeOK, taskVars, clientVars, idVars
<1> QED BY <1>3, <1>4 DEF Notification

LEMMA TaskKeepsType == TypeOK /\ TaskRuns => TypeOK'
<1> SUFFICES ASSUME TypeOK, TaskRuns PROVE TypeOK'
  OBVIOUS
<1>1. CASE TempInit
  <2>1. SensorTypeOK /\ ClearReadings
    BY <1>1 DEF TempInit, TypeOK
  <2>2. idReadPending' \in BOOLEAN
    BY <1>1, Zenon DEF TempInit
  <2> QED BY <1>1, <2>1, <2>2, ClearReadingsType
          DEF TempInit, TypeOK, SensorTypeOK, clientVars
<1>2. CASE Runnable
  BY <1>2 DEF Runnable, TypeOK, SensorTypeOK, busVars, readingVars,
              clientVars, idVars
<1>3. CASE TaskStep /\ UNCHANGED idVars
  BY <1>3, TaskType DEF TypeOK, idVars
<1> QED BY <1>1, <1>2, <1>3 DEF TaskRuns

\* The component's variables keep their types, for every register width and
\* every set of words the sensor may send.
THEOREM TypeCorrect == Spec => []TypeOK
<1>1. Init => TypeOK
  <2>1. 0 \in Raw
    BY SensorAssumption DEF Raw
  <2>2. Init => idReadPending \in BOOLEAN
    BY Zenon DEF Init
  <2> QED BY <2>1, <2>2, InitType DEF Init, TypeOK
<1>2. TypeOK /\ [Next]_vars => TypeOK'
  <2>1. TypeOK /\ Client /\ UNCHANGED idVars => TypeOK'
    BY ClientType DEF TypeOK, idVars
  <2>2. TypeOK /\ UNCHANGED vars => TypeOK'
    BY DEF TypeOK, SensorTypeOK, vars, sensorVars, busVars, readingVars,
           taskVars, clientVars, idVars
  <2> QED BY <2>1, <2>2, TaskKeepsType, NotifyType DEF Next
<1> QED BY <1>1, <1>2, PTL DEF Spec

-----------------------------------------------------------------------------
(* The flag and the transfer it was raised for.                            *)

\* With TEMP_Init before TEMP_Runnable, nothing was asked of the driver before
\* it; until its own transfer is started none is in flight and the flag is up.
Marked == INIT_FAULT \notin faults =>
            /\ ~initCheck => step = "rest" /\ job = 0
            /\ task = "init" /\ step # "hw" => job = 0 /\ idReadPending

\* The reply to the 8-byte sequence is decoded as the ID and as nothing else.
IdReplyIsRouted ==
  INIT_FAULT \notin faults /\ job = ID_LEN => idReadPending

\* Where the task is tells which runnable it executes, and the length handed
\* to Spi_SetupEB is that of the runnable in progress.
Starter == /\ step = "rest" <=> task = "none"
           /\ task = "init" => step \in {"setup", "transmit", "hw"}
           /\ step = "transmit" => ebLen = IF task = "init" THEN ID_LEN
                                                            ELSE READ_LEN

RouteInv == Marked /\ Starter /\ IdReplyIsRouted

\* No step starts the 8-byte transfer unmarked, and the flag comes down only
\* when a transfer has arrived.
LEMMA RouteStep == RouteInv /\ [Next]_vars => RouteInv'
<1> SUFFICES ASSUME RouteInv, [Next]_vars PROVE RouteInv'
  OBVIOUS
<1> USE DEF RouteInv, Marked, Starter, IdReplyIsRouted, sensorVars, busVars,
            readingVars, taskVars, clientVars, idVars, ID_LEN, READ_LEN,
            HW_FAULT, DATA_RX_ERROR, INIT_FAULT
<1>1. CASE TempInit
  BY <1>1 DEF TempInit, ClearReadings
<1>2. CASE Runnable
  BY <1>2 DEF Runnable
<1>3. CASE TaskStep /\ UNCHANGED idVars
  <2>1. CASE SetupAccepted
    BY <1>3, <2>1 DEF SetupAccepted
  <2>2. CASE CallRefused
    BY <1>3, <2>2 DEF CallRefused
  <2>3. CASE TransmitAccepted
    BY <1>3, <2>3 DEF TransmitAccepted
  <2>4. CASE HwReport
    BY <1>3, <2>4 DEF HwReport, Finish
  <2>5. CASE WordCheck
    BY <1>3, <2>5 DEF WordCheck
  <2>6. CASE RxReport
    BY <1>3, <2>6 DEF RxReport, Finish
  <2> QED BY <1>3, <2>1, <2>2, <2>3, <2>4, <2>5, <2>6 DEF TaskStep
<1>4. CASE NotifyId
  BY <1>4 DEF NotifyId, Receive
<1>5. CASE NotifyTemp
  BY <1>5 DEF NotifyTemp, Receive
<1>6. CASE Client /\ UNCHANGED idVars
  BY <1>6, ClientLeaves
<1>7. CASE UNCHANGED vars
  BY <1>7 DEF vars
<1> QED BY <1>1, <1>2, <1>3, <1>4, <1>5, <1>6, <1>7
        DEF Next, TaskRuns, Notification

LEMMA RouteInvariant == Spec => []RouteInv
<1>1. Init => RouteInv
  BY DEF Init, SensorInit, RouteInv, Marked, Starter, IdReplyIsRouted, ID_LEN
<1> QED BY <1>1, RouteStep, PTL DEF Spec

\* If TEMP_Init comes before the first TEMP_Runnable, the reply to its 8-byte
\* sequence is decoded as the ID.
THEOREM RoutingHolds == Spec => []IdReplyIsRouted
BY RouteInvariant, PTL DEF RouteInv

\* The ID sequence is still to be started.
Early == ~initCheck \/ (task = "init" /\ step # "hw")

\* Bytes 4..5 and the ID are 0 until the reply to the ID sequence arrives,
\* which happens once; IdReplyIsRouted has that reply stored.
IdInv == /\ IdIsTheSensorsAnswer
         /\ ~initCheck => task # "init" /\ ~idReadPending
         /\ Early => job # ID_LEN
         /\ Early \/ job = ID_LEN => rxId = 0 /\ manufacturerID = 0

LEMMA IdStep == IdInv /\ RouteInv /\ [Next]_vars => IdInv'
<1> SUFFICES ASSUME IdInv, RouteInv, [Next]_vars PROVE IdInv'
  OBVIOUS
<1> USE DEF IdInv, Early, IdIsTheSensorsAnswer, RouteInv, Starter, sensorVars,
            busVars, taskVars, idVars, ID_LEN, READ_LEN
<1>1. CASE TempInit
  BY <1>1 DEF TempInit, ClearReadings
<1>2. CASE Runnable
  BY <1>2 DEF Runnable
<1>3. CASE TaskStep /\ UNCHANGED idVars
  <2>1. INIT_FAULT \in faults <=> INIT_FAULT \in faults'
    BY <1>3 DEF TaskStep, SetupAccepted, CallRefused, TransmitAccepted,
                HwReport, WordCheck, RxReport, INIT_FAULT, HW_FAULT,
                DATA_RX_ERROR
  <2>2. CASE SetupAccepted
    BY <1>3, <2>2 DEF SetupAccepted
  <2>3. CASE CallRefused
    BY <1>3, <2>3 DEF CallRefused
  <2>4. CASE TransmitAccepted
    BY <1>3, <2>4 DEF TransmitAccepted
  <2>5. CASE HwReport
    BY <1>3, <2>1, <2>5 DEF HwReport, Finish
  <2>6. CASE WordCheck
    BY <1>3, <2>6 DEF WordCheck
  <2>7. CASE RxReport
    BY <1>3, <2>1, <2>7 DEF RxReport, Finish
  <2> QED BY <1>3, <2>2, <2>3, <2>4, <2>5, <2>6, <2>7 DEF TaskStep
<1>4. CASE NotifyId
  BY <1>4 DEF NotifyId, Receive
<1>5. CASE NotifyTemp
  BY <1>5 DEF NotifyTemp, Receive, IdReplyIsRouted
<1>6. CASE Client /\ UNCHANGED idVars
  BY <1>6, ClientLeaves
<1>7. CASE UNCHANGED vars
  BY <1>7 DEF vars
<1> QED BY <1>1, <1>2, <1>3, <1>4, <1>5, <1>6, <1>7
        DEF Next, TaskRuns, Notification

\* The ID kept is the sensor's answer or 0, whatever the driver refuses, and
\* with TEMP_Init first the answer is kept from its arrival on.
THEOREM IdHolds == Spec => []IdIsTheSensorsAnswer
<1>1. Init => IdInv
  BY DEF Init, SensorInit, IdInv, Early, IdIsTheSensorsAnswer, ID_LEN
<1>2. IdInv => IdIsTheSensorsAnswer
  BY DEF IdInv
<1> QED BY <1>1, <1>2, IdStep, RouteInvariant, PTL DEF Spec

-----------------------------------------------------------------------------
(* The reading.                                                            *)

\* The published value is the register's quarter, rounded towards zero, for
\* every register width and every word: NotifyTemp publishes what it has just
\* received, and nobody else publishes.
THEOREM ReadingsRounded == Spec => []ReadingRounded
<1>1. Init => ReadingRounded
  BY SensorAssumption DEF Init, SensorInit, ReadingRounded, Signed
<1>2. TypeOK /\ ReadingRounded /\ [Next]_vars => ReadingRounded'
  <2> SUFFICES ASSUME TypeOK, ReadingRounded, [Next]_vars
               PROVE  ReadingRounded'
    OBVIOUS
  <2>1. CASE TempInit
    BY <2>1, SensorAssumption DEF TempInit, ClearReadings, ReadingRounded, Signed
  <2>2. CASE NotifyTemp
    <3> DEFINE n == Signed(rawTemp')
    <3>1. rawTemp' \in Raw
      BY <2>2, ReceiveType DEF NotifyTemp, TypeOK
    <3>2. n \in Int /\ phyTemp' = Quarter(n)
      BY <2>2, <3>1, SignedCounts DEF NotifyTemp, Counts
    <3> HIDE DEF n
    <3>3. /\ n >= 0 => n - 4 * Quarter(n) \in 0 .. 3
          /\ n <= 0 => n - 4 * Quarter(n) \in -3 .. 0
      BY <3>2 DEF Quarter
    <3> QED BY <3>2, <3>3 DEF ReadingRounded, n
  <2>3. CASE UNCHANGED readingVars
    BY <2>3 DEF readingVars, ReadingRounded
  <2>4. TempInit \/ NotifyTemp \/ UNCHANGED readingVars
    BY ClientLeaves
    DEF Next, TaskRuns, Notification, Runnable, NotifyId, TaskStep,
        SetupAccepted, CallRefused, TransmitAccepted, HwReport, WordCheck,
        RxReport, vars, sensorVars
  <2> QED BY <2>1, <2>2, <2>3, <2>4
<1> QED BY <1>1, <1>2, TypeCorrect, PTL DEF Spec
=============================================================================
