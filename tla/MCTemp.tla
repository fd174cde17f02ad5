------------------------------- MODULE MCTemp -------------------------------
(* Registers of 4 bits: two filler bits and a count from -2 to 1, of which *)
(* 1 is out of range.  The words are an intact one of each kind (0, out of *)
(* range, -1) and a garbled one; the ID arrives intact or garbled.         *)
EXTENDS Temp
=============================================================================
