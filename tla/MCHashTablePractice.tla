------------------------- MODULE MCHashTablePractice -------------------------
(***************************************************************************)
(* Two keys in one bucket, and memory for both; malloc may still fail.     *)
(***************************************************************************)
EXTENDS HashTablePractice, TLC

CONSTANTS k1, k2

MCHash == k1 :> 3 @@ k2 :> 5
=============================================================================
