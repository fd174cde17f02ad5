--------------------------- MODULE FrameReceiver ----------------------------
(***************************************************************************)
(* What the byte parser promises: after a start byte it collects command,  *)
(* length, that many payload bytes and a checksum; it hands over exactly   *)
(* the frames whose checksum is the exclusive or of what lies between, and *)
(* starts looking for a start byte again after a frame, good or bad.       *)
(***************************************************************************)
EXTENDS Integers, Sequences

CONSTANTS Bytes, START_BYTE, MAX_PAYLOAD, ByteXor(_, _)

VARIABLES byte,       \* the last byte received
          open,       \* a start byte has been seen
          frame,      \* the bytes since then
          accepted    \* the frame the last byte completed, if it did

Hunting == open' = FALSE /\ frame' = << >>

\* The exclusive or of all elements.
Parity(s) == LET upTo[k \in 0 .. Len(s)] ==
                   IF k = 0 THEN 0 ELSE ByteXor(upTo[k - 1], s[k])
             IN upTo[Len(s)]
\* The payload bytes are all there.
Complete(s) == Len(s) >= 2 /\ Len(s) = 2 + s[2]

Init == byte = 0 /\ open = FALSE /\ frame = << >> /\ accepted = << >>

Feed(b) ==
  \/ /\ ~open /\ accepted' = << >>
     /\ open' = (b = START_BYTE) /\ UNCHANGED frame
  \/ /\ open /\ ~Complete(frame) /\ accepted' = << >>
     /\ IF Len(frame) = 1 /\ b > MAX_PAYLOAD THEN Hunting
        ELSE open' = open /\ frame' = Append(frame, b)
  \/ /\ open /\ Complete(frame) /\ Hunting
     /\ accepted' = IF b = Parity(frame) THEN frame ELSE << >>

Next == \E b \in Bytes : byte' = b /\ Feed(b)

Spec == Init /\ [][Next]_<<byte, open, frame, accepted>>
=============================================================================
