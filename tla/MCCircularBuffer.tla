-------------------------- MODULE MCCircularBuffer --------------------------
(* A ring of four slots, so that it can be empty, half full, full and      *)
(* wrapped around, and two sample values, enough to see an order changed.  *)
EXTENDS CircularBuffer
=============================================================================
