----------------------------- MODULE UartParser -----------------------------
(***************************************************************************)
(* uart_byte_parser.c: the state machine parser_feed_byte drives, one byte *)
(* at a time, over fields that outlive a frame.  Bytes arrive in any order *)
(* and any of them may be lost or garbled on the line.                     *)
(***************************************************************************)
EXTENDS Integers, Sequences

CONSTANTS Bytes,          \* the values a byte takes
          START_BYTE, MAX_PAYLOAD,
          ByteXor(_, _)       \* ^

ASSUME UartAssumption ==
  /\ Bytes \subseteq Nat /\ 0 \in Bytes /\ START_BYTE \in Bytes
  /\ MAX_PAYLOAD \in Nat \ {0}
  /\ \A a, b \in Bytes : ByteXor(a, b) \in Bytes

VARIABLES state, cmd, len, payload, payload_idx, checksum_calc,
          byte,      \* the argument of the last parser_feed_byte
          valid      \* what the last parser_feed_byte returned

uartVars == <<state, cmd, len, payload, payload_idx, checksum_calc, byte,
              valid>>

Slots == 0 .. MAX_PAYLOAD - 1
States == {"WAIT_START", "WAIT_CMD", "WAIT_LEN", "WAIT_PAYLOAD",
           "WAIT_CHECKSUM"}

\* parser_init, which leaves cmd as it finds it
UartInit == /\ state = "WAIT_START"
            /\ cmd \in Bytes
            /\ len = 0
            /\ payload = [j \in Slots |-> 0]
            /\ payload_idx = 0
            /\ checksum_calc = 0
            /\ byte = 0 /\ valid = FALSE

Sum(b) == checksum_calc' = ByteXor(checksum_calc, b)
GoTo(s) == state' = s /\ valid' = FALSE

WaitStart(b) == /\ state = "WAIT_START"
                /\ GoTo(IF b = START_BYTE THEN "WAIT_CMD" ELSE "WAIT_START")
                /\ UNCHANGED <<cmd, len, payload, payload_idx, checksum_calc>>

WaitCmd(b) == /\ state = "WAIT_CMD"
              /\ cmd' = b /\ Sum(b)
              /\ GoTo("WAIT_LEN")
              /\ UNCHANGED <<len, payload, payload_idx>>

\* Slip: the running checksum is kept when the length is refused.
RefuseLenKeepSum(b) == b > MAX_PAYLOAD /\ GoTo("WAIT_START")
                       /\ UNCHANGED <<len, checksum_calc>>
RefuseLen(b) == /\ b > MAX_PAYLOAD
                /\ checksum_calc' = 0
                /\ GoTo("WAIT_START") /\ UNCHANGED len

AcceptLen(b) == /\ b <= MAX_PAYLOAD
                /\ len' = b /\ Sum(b)
                /\ GoTo(IF b = 0 THEN "WAIT_CHECKSUM" ELSE "WAIT_PAYLOAD")

WaitLen(b) == /\ state = "WAIT_LEN"
              /\ RefuseLen(b) \/ AcceptLen(b)
              /\ UNCHANGED <<cmd, payload, payload_idx>>

Store(b) == payload' = [payload EXCEPT ![payload_idx] = b] /\ Sum(b)

LastByte == payload_idx = len - 1
\* Slip: the index is not put back for the next frame.
NextIndexKept == IF LastByte THEN payload_idx ELSE payload_idx + 1
NextIndex == IF LastByte THEN 0 ELSE payload_idx + 1

\* An index beyond the payload matches neither branch of the code, which
\* then swallows the byte.
WaitPayload(b) == /\ state = "WAIT_PAYLOAD"
                  /\ IF payload_idx <= len - 1
                     THEN /\ Store(b)
                          /\ payload_idx' = NextIndex
                          /\ GoTo(IF LastByte THEN "WAIT_CHECKSUM" ELSE state)
                     ELSE /\ GoTo(state)
                          /\ UNCHANGED <<payload, payload_idx, checksum_calc>>
                  /\ UNCHANGED <<cmd, len>>

WaitChecksum(b) == /\ state = "WAIT_CHECKSUM"
                   /\ valid' = (b = checksum_calc)
                   /\ checksum_calc' = 0
                   /\ state' = "WAIT_START"
                   /\ UNCHANGED <<cmd, len, payload, payload_idx>>

parser_feed_byte(b) == \/ WaitStart(b) \/ WaitCmd(b) \/ WaitLen(b)
                       \/ WaitPayload(b) \/ WaitChecksum(b)

UartNext == \E b \in Bytes : byte' = b /\ parser_feed_byte(b)

\* The line does not fall silent for ever.
UartSpec == UartInit /\ [][UartNext]_uartVars /\ WF_uartVars(UartNext)

-----------------------------------------------------------------------------
\* payload_idx stays below len while payload bytes are awaited, and is 0
\* everywhere else.
UartTypeOK == /\ state \in States
              /\ byte \in Bytes /\ cmd \in Bytes /\ checksum_calc \in Bytes
              /\ len \in 0 .. MAX_PAYLOAD
              /\ payload \in [Slots -> Bytes]
              /\ payload_idx \in Slots
              /\ valid \in BOOLEAN
              /\ IF state = "WAIT_PAYLOAD" THEN payload_idx < len
                 ELSE payload_idx = 0

\* The parser implements the receiver: what it keeps in its fields is the
\* frame being received, and TRUE is returned with an intact frame in them.
Header(k) == <<cmd, len>> \o [j \in 1 .. k |-> payload[j - 1]]
Receiver == INSTANCE FrameReceiver WITH
              open <- state # "WAIT_START",
              frame <- CASE state = "WAIT_LEN" -> <<cmd>>
                         [] state = "WAIT_PAYLOAD" -> Header(payload_idx)
                         [] state = "WAIT_CHECKSUM" -> Header(len)
                         [] OTHER -> << >>,
              accepted <- IF valid THEN Header(len) ELSE << >>
FrameSpec == Receiver!Spec

\* Whatever arrives, the parser looks for a start byte again and again.
NeverWedged == []<>(state = "WAIT_START")
=============================================================================
