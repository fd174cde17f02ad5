-------------------------- MODULE TempSensor_proofs --------------------------
(***************************************************************************)
(* What the proofs about the two temperature components share: the ranges  *)
(* of the register words and of the statements both make.                  *)
(***************************************************************************)
EXTENDS TempSensor, TLAPS

\* A word read with its sign is a count, and so is a quarter of a count,
\* whichever way it is rounded.
LEMMA SignedCounts == ASSUME NEW w \in Raw PROVE Signed(w) \in Counts
BY SensorAssumption DEF Raw, Signed, Counts

LEMMA QuarterCounts ==
  ASSUME NEW n \in Counts
  PROVE  ShiftRight2(n) \in Counts /\ Quarter(n) \in Counts
<1>1. n \in Int /\ HALF \in Nat \ {0} /\ -HALF <= n /\ n <= HALF - 1
  BY SensorAssumption DEF Counts
<1>2. /\ n \div 4 \in Int /\ 4 * (n \div 4) <= n /\ n <= 4 * (n \div 4) + 3
      /\ (-n) \div 4 \in Int /\ 4 * ((-n) \div 4) <= -n
      /\ -n <= 4 * ((-n) \div 4) + 3
  BY <1>1
<1> QED BY <1>1, <1>2 DEF ShiftRight2, Quarter, Counts

\* The filler bits are what the shift leaves out.
LEMMA ShiftedWord ==
  ASSUME NEW w \in Raw
  PROVE  /\ ShiftRight2(w) \in Raw
         /\ 4 * ShiftRight2(Signed(w)) + (w % 4) = Signed(w)
<1>1. w \in Nat /\ HALF \in Nat \ {0} /\ w <= 2 * HALF - 1 /\ HALF % 4 = 0
  BY SensorAssumption DEF Raw
<1>2. ShiftRight2(w) \in Raw
  BY <1>1 DEF ShiftRight2, Raw
<1>3. 4 * (w \div 4) + (w % 4) = w
  BY <1>1
<1>4. 4 * ((w - 2 * HALF) \div 4) + (w % 4) = w - 2 * HALF
  <2> DEFINE q == HALF \div 4
  <2>1. q \in Int /\ HALF = 4 * q
    BY <1>1
  <2> HIDE DEF q
  <2>2. w - 2 * HALF = w + 4 * (-2 * q)
    BY <1>1, <2>1
  <2>3. (w + 4 * (-2 * q)) \div 4 = (w \div 4) + (-2 * q)
    BY <1>1, <2>1
  <2> QED BY <1>1, <1>3, <2>1, <2>2, <2>3
<1> QED BY <1>1, <1>2, <1>3, <1>4 DEF ShiftRight2, Signed

\* The notification's half that is the driver's.
LEMMA ReceiveType ==
  ASSUME SensorTypeOK, Receive
  PROVE  /\ ebLen' \in {0, READ_LEN, ID_LEN} /\ job' \in {0, READ_LEN, ID_LEN}
         /\ rxTemp' \in Raw /\ rxId' \in Raw
BY SensorAssumption DEF SensorTypeOK, Receive, Raw

LEMMA ClearReadingsType ==
  ASSUME SensorTypeOK, ClearReadings
  PROVE  /\ ebLen' \in {0, READ_LEN, ID_LEN} /\ job' \in {0, READ_LEN, ID_LEN}
         /\ rxTemp' \in Raw /\ rxId' \in Raw /\ initCheck' \in BOOLEAN
         /\ rawTemp' \in Raw /\ rawTempSValue' \in Counts /\ phyTemp' \in Counts
BY SensorAssumption DEF SensorTypeOK, ClearReadings, Raw, Counts

LEMMA InitType == SensorInit => SensorTypeOK
<1> SUFFICES ASSUME SensorInit PROVE SensorTypeOK
  OBVIOUS
<1>1. initCheck \in BOOLEAN /\ ok \in BOOLEAN
  BY Zenon DEF SensorInit
<1>2. faults \subseteq {INIT_FAULT, HW_FAULT, DATA_RX_ERROR}
  BY DEF SensorInit
<1>3. 0 \in Raw /\ 0 \in Counts
  BY SensorAssumption DEF Raw, Counts
<1> QED BY <1>1, <1>2, <1>3 DEF SensorInit, SensorTypeOK

LEMMA TaskType == SensorTypeOK /\ TaskStep => SensorTypeOK'
<1> SUFFICES ASSUME SensorTypeOK, TaskStep PROVE SensorTypeOK'
  OBVIOUS
<1> USE DEF SensorTypeOK, busVars, readingVars, clientVars
<1>1. CASE SetupAccepted
  BY <1>1 DEF SetupAccepted
<1>2. CASE CallRefused
  BY <1>2 DEF CallRefused
<1>3. CASE TransmitAccepted
  BY <1>3 DEF TransmitAccepted
<1>4. CASE HwReport
  BY <1>4 DEF HwReport, Finish
<1>5. CASE WordCheck
  <2>1. ok' \in BOOLEAN
    BY <1>5, Zenon DEF WordCheck, Valid
  <2> QED BY <1>5, <2>1 DEF WordCheck
<1>6. CASE RxReport
  BY <1>6 DEF RxReport, Finish
<1> QED BY <1>1, <1>2, <1>3, <1>4, <1>5, <1>6 DEF TaskStep

LEMMA ClientType == SensorTypeOK /\ Client => SensorTypeOK'
<1> SUFFICES ASSUME SensorTypeOK, Client PROVE SensorTypeOK'
  OBVIOUS
<1> USE DEF SensorTypeOK, busVars, readingVars, taskVars
<1>1. CASE GetCompare
  BY <1>1 DEF GetCompare
<1>2. CASE GetCopy
  BY <1>2 DEF GetCopy
<1>3. CASE GetReturn
  BY <1>3 DEF GetReturn
<1> QED BY <1>1, <1>2, <1>3 DEF Client

\* No call of the client disturbs the components.
LEMMA ClientLeaves ==
  Client => UNCHANGED <<busVars, faults, initCheck, readingVars, taskVars>>
BY DEF Client, GetCompare, GetCopy, GetReturn
=============================================================================
