-------------------------------- MODULE Crc8 --------------------------------
(***************************************************************************)
(* crc.c and crc_decoder.c: a message goes out with its CRC behind it, is  *)
(* hit by a burst of flipped bits or not, and is verified.                 *)
(***************************************************************************)
EXTENDS Integers, Sequences

\* A uint8_t, bit 0 the lowest.
Bits == 0 .. 7
Octets == [Bits -> {0, 1}]

CONSTANTS Messages,          \* sequences of bytes
          POLYNOMIAL

\* 0x07 is odd.  The byte counter of crc8 has 8 bits.
ASSUME CrcAssumption == /\ POLYNOMIAL \in Octets /\ POLYNOMIAL[0] = 1
                        /\ \A message \in Messages :
                             message \in Seq(Octets) /\ Len(message) < 255

VARIABLES codeword,        \* the message and its CRC on their way
          flipped          \* whether a burst hit them

crcVars == <<codeword, flipped>>

Zero == [j \in Bits |-> 0]
XOR(a, b) == [j \in Bits |-> IF a[j] = b[j] THEN 0 ELSE 1]
ShiftLeft(a) == [j \in Bits |-> IF j = 0 THEN 0 ELSE a[j - 1]]

Shift(crc, topbit) == XOR(ShiftLeft(crc),
                          IF topbit = 1 THEN POLYNOMIAL ELSE Zero)
TopBit(crc) == crc[7]

\* Slip: topbit is not taken again after a shift.
SameBit(crc, first) == Shift(crc, TopBit(first))
NextBit(crc, first) == Shift(crc, TopBit(crc))

ShiftEight(first) == LET crc[j \in 0 .. 8] == IF j = 0 THEN first
                                              ELSE NextBit(crc[j - 1], first)
                     IN crc[8]

crc8(bytes) == LET crc[k \in 0 .. Len(bytes)] ==
                     IF k = 0 THEN Zero
                     ELSE ShiftEight(XOR(crc[k - 1], bytes[k]))
               IN crc[Len(bytes)]
crc8_verify(bytes) == crc8(bytes) = Zero

\* What main does by hand: the CRC is the last byte.
CrcInit == /\ \E message \in Messages :
                codeword = Append(message, crc8(message))
           /\ flipped = FALSE

\* Eight bits, a number of places to the left in a window of two bytes.
Upper(bits, places) == [j \in Bits |-> IF j < places THEN bits[j + 8 - places]
                                       ELSE 0]
Lower(bits, places) == [j \in Bits |-> IF j < places THEN 0
                                       ELSE bits[j - places]]

\* A burst of up to 8 bits, from any bit of one byte into the next.
Burst == /\ ~flipped /\ flipped' = TRUE
         /\ \E at \in 1 .. Len(codeword) - 1, places \in 0 .. 8,
               bits \in Octets \ {Zero} :
              codeword' = [codeword EXCEPT
                             ![at] = XOR(@, Upper(bits, places)),
                             ![at + 1] = XOR(@, Lower(bits, places))]

CrcNext == Burst
CrcSpec == CrcInit /\ [][CrcNext]_crcVars

-----------------------------------------------------------------------------
\* The receiver accepts what was sent, and refuses it after any burst of up
\* to 8 bits, wherever it hit.
CrcDetectsBursts == crc8_verify(codeword) = ~flipped
=============================================================================
