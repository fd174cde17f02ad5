----------------------------- MODULE RunLength ------------------------------
(***************************************************************************)
(* compress_repeat.c: rle_encode as a function of its input and of the     *)
(* room for its output, with the widths of its index and of its count.     *)
(* The calls are made with each input, a byte longer each time.            *)
(***************************************************************************)
EXTENDS Integers, Sequences, FiniteSets

CONSTANTS RLE_BYTES,        \* the values of a uint8_t: an even number
          Symbols,          \* the bytes that occur in an input
          MAX_INPUT, MAX_ROOM    \* bounds on input_len and output_max_len

ASSUME RleAssumption == /\ RLE_BYTES \in Nat /\ RLE_BYTES > 2
                        /\ RLE_BYTES % 2 = 0
                        /\ MAX_INPUT \in Nat /\ MAX_ROOM \in Nat

VARIABLES input, output_max_len,
          encoded      \* the output the call wrote, and what it returned

rleVars == <<input, output_max_len, encoded>>

\* The next pair goes where index says.  index wraps.
Emit(e) == LET x == e.index
           IN [e EXCEPT !.index = (x + 2) % RLE_BYTES,
                        !.output = [y \in DOMAIN @ \cup {x, x + 1} |->
                                      CASE y = x -> e.last_byte
                                        [] y = x + 1 -> e.count
                                        [] OTHER -> e.output[y]]]
Flush(e, room) == IF e.index + 1 >= room THEN [e EXCEPT !.overflow = TRUE]
                  ELSE Emit(e)

\* Slip: a run goes on when its count is at the limit of its width.
SameByte(e, b) == e.last_byte = b
SameRun(e, b) == e.last_byte = b /\ e.count < RLE_BYTES - 1

Longer(e) == [e EXCEPT !.count = (@ + 1) % RLE_BYTES]
NextRun(e, b, room) == [Flush(e, room) EXCEPT !.last_byte = b, !.count = 1]

\* One turn of the loop, which an overflow leaves.
Encode(e, b, room) == CASE e.overflow -> e
                        [] ~e.overflow /\ SameRun(e, b) -> Longer(e)
                        [] OTHER -> NextRun(e, b, room)

Empty == [index |-> 0, count |-> 1, last_byte |-> 0, overflow |-> FALSE,
          output |-> [y \in {} |-> 0]]
\* loop[i] is what the loop has made of the first i bytes.  The last run is
\* flushed behind the loop; an overflow returns 0.
rle_encode(in, room) ==
  LET loop[i \in 1 .. Len(in)] ==
        IF i = 1 THEN [Empty EXCEPT !.last_byte = in[1]]
        ELSE Encode(loop[i - 1], in[i], room)
      e == loop[Len(in)]
      last == IF e.overflow THEN e ELSE Flush(e, room)
  IN IF in = << >> THEN [output |-> Empty.output, ret |-> 0]
     ELSE [output |-> last.output,
           ret |-> IF last.overflow THEN 0 ELSE last.index]

RleInit == /\ input = << >> /\ output_max_len \in 0 .. MAX_ROOM
           /\ encoded = rle_encode(input, output_max_len)

RleNext == /\ Len(input) < MAX_INPUT
           /\ \E b \in Symbols : input' = Append(input, b)
           /\ encoded' = rle_encode(input', output_max_len)
           /\ UNCHANGED output_max_len

RleSpec == RleInit /\ [][RleNext]_rleVars

-----------------------------------------------------------------------------
\* The bytes the first k pairs stand for.
Decoded(k) == LET prefix[p \in 0 .. k] ==
                    IF p = 0 THEN << >>
                    ELSE prefix[p - 1] \o
                         [x \in 1 .. encoded.output[2 * p - 1] |->
                            encoded.output[2 * p - 2]]
              IN prefix[k]

\* The places of the input where a pair has to begin: every RLE_BYTES - 1
\* bytes of a run.
RunFrom(x) == CHOOSE y \in 1 .. x : /\ \A z \in y .. x : input[z] = input[x]
                                    /\ y = 1 \/ input[y - 1] # input[x]
Pairs == Cardinality({x \in 1 .. Len(input) :
                        (x - RunFrom(x)) % (RLE_BYTES - 1) = 0})

\* An output that fits is the shortest that decodes to the input, and its
\* size is returned; one that does not fit is refused.  So it is while the
\* index does not wrap, that is for fewer than RLE_BYTES / 2 pairs.
RleRoundTrip ==
  2 * Pairs < RLE_BYTES =>
    /\ encoded.ret = IF 2 * Pairs <= output_max_len THEN 2 * Pairs ELSE 0
    /\ encoded.ret > 0 => Decoded(encoded.ret \div 2) = input
=============================================================================
